-------------------------- MODULE IsochEndpointProofs --------------------------
(***************************************************************************)
(* Theorems about IsochEndpoint, for any number of slots, TDs and aborts.    *)
(* No TD is lost on its way from the request to its completion (NoTDLost),   *)
(* TDs are returned in the order of their frames (ReturnedInOrder), those     *)
(* reported as done have been carried out (SuccessIsDone), and none is left   *)
(* when there is nothing more to do (NoTDForgotten), whatever the filter, the *)
(* side that has the gate and the xHC do between each other's steps.         *)
(*                                                                         *)
(* And, in its last part, about Streams, with which IsochEndpoint shares no  *)
(* variable, for any number of streams, of TRBs and of pages: the fixed stack *)
(* of the quicksort is never exceeded, the array of rings is sorted when it  *)
(* has finished, the search by halving takes the event of every TRB to its   *)
(* stream, and no failed call leaves a stream behind.                       *)
(*                                                                         *)
(* Recursive functions (Pow2 and look of Streams, put of PutAll, tds of       *)
(* Window) are reasoned about by the least number at which a statement would *)
(* fail.                                                                   *)
(***************************************************************************)
EXTENDS IsochEndpoint, Streams, TLAPS, FiniteSetTheorems, SequenceTheorems,
        WellFoundedInduction, NaturalsInduction

-----------------------------------------------------------------------------
(* Numbers.                                                                *)

\* A set of natural numbers that is not empty has a least element.
LEMMA LeastNumber ==
  ASSUME NEW T \in SUBSET Nat, T # {}
  PROVE  \E least \in T : \A n \in T : least <= n
<1> DEFINE Less == {pair \in Nat \X Nat : pair[1] < pair[2]}
<1>1. IsWellFoundedOn(Less, Nat)
  BY NatLessThanWellFounded DEF OpToRel
<1>2. PICK least \in T : \A n \in T : ~(<<n, least>> \in Less)
  BY <1>1, WFMin
<1>3. ASSUME NEW n \in T PROVE least <= n
  <2>1. <<n, least>> \in Nat \X Nat /\ ~(n < least)
    BY <1>2
  <2> QED BY <2>1
<1> QED BY <1>3

\* A set that has 0 and the successor of each of its numbers below a bound has all up to it.
LEMMA UpTo ==
  ASSUME NEW bound \in Nat, NEW T, 0 \in T, \A n \in 0 .. bound - 1 : n \in T => n + 1 \in T
  PROVE  \A n \in 0 .. bound : n \in T
<1> DEFINE Missing == {n \in 0 .. bound : n \notin T}
<1> SUFFICES ASSUME Missing # {} PROVE FALSE
  OBVIOUS
<1>1. Missing \in SUBSET Nat
  OBVIOUS
<1>2. PICK least \in Missing : \A n \in Missing : least <= n
  BY <1>1, LeastNumber
<1>3. least # 0 /\ least \in 0 .. bound /\ least \notin T
  BY <1>2
<1>4. least - 1 \in 0 .. bound - 1 /\ ~(least <= least - 1)
  BY <1>3
<1>5. least - 1 \in T
  BY <1>2, <1>4
<1> QED BY <1>3, <1>4, <1>5

\* The remainders the slots need.
LEMMA Remainders ==
  ASSUME NEW a \in Int
  PROVE  /\ a \in 0 .. NumSlots - 1 => a % NumSlots = a
         /\ a \in NumSlots .. 2 * NumSlots - 1 => a % NumSlots = a - NumSlots
         /\ a \in 0 - NumSlots .. 0 - 1 => a % NumSlots = a + NumSlots
<1> USE NumSlotsAssumption
<1> DEFINE q == a \div NumSlots
           r == a % NumSlots
<1>1. q \in Int /\ r \in 0 .. NumSlots - 1 /\ a = NumSlots * q + r
  OBVIOUS
<1> HIDE DEF q, r
<1>2. q >= 2 => NumSlots * q >= 2 * NumSlots
  BY <1>1
<1>3. q <= 0 - 2 => NumSlots * q <= 0 - 2 * NumSlots
  BY <1>1
<1>4. q \in {0 - 1, 0, 1} \/ q >= 2 \/ q <= 0 - 2
  BY <1>1
<1>5. CASE q = 0 - 1
  BY <1>1, <1>5 DEF r
<1>6. CASE q = 0
  BY <1>1, <1>6 DEF r
<1>7. CASE q = 1
  BY <1>1, <1>7 DEF r
<1> QED BY <1>1, <1>2, <1>3, <1>4, <1>5, <1>6, <1>7 DEF r

-----------------------------------------------------------------------------
(* The queues of the family.                                               *)

QueuesOf(S) == [done : Seq(S), def : Seq(S)]

\* A TD goes on the done queue behind the deferred TDs of earlier frames, which are the first of
\* their queue.
LEMMA PutOne ==
  ASSUME NEW S, NEW q \in QueuesOf(S), NEW td \in S, \A x \in S : frame[x] \in Nat
  PROVE  \E n \in 0 .. Len(q.def) :
           /\ PutTDonDoneQueue(q, td) = [done |-> Append(q.done \o SubSeq(q.def, 1, n), td),
                                         def  |-> SubSeq(q.def, n + 1, Len(q.def))]
           /\ \A j \in 1 .. n : frame[q.def[j]] < frame[td]
           /\ n < Len(q.def) => frame[q.def[n + 1]] >= frame[td]
<1> DEFINE Stops(n) == n < Len(q.def) => frame[q.def[n + 1]] >= frame[td]
           Goes(n)  == \A j \in 1 .. n : frame[q.def[j]] < frame[td]
           n == CHOOSE n \in 0 .. Len(q.def) : Goes(n) /\ Stops(n)
<1>1. q.def \in Seq(S) /\ Len(q.def) \in Nat /\ \A j \in 1 .. Len(q.def) : q.def[j] \in S
  BY ElementOfSeq DEF QueuesOf
<1>2. \E m \in 0 .. Len(q.def) : Goes(m) /\ Stops(m)
  <2> DEFINE Ends == {m \in 0 .. Len(q.def) : Stops(m)}
  <2>1. Len(q.def) \in Ends /\ Ends \in SUBSET Nat
    BY <1>1
  <2>2. PICK m \in Ends : \A k \in Ends : m <= k
    BY <2>1, LeastNumber
  <2>3. ASSUME NEW j \in 1 .. m PROVE frame[q.def[j]] < frame[td]
    <3>1. j - 1 \in 0 .. Len(q.def) /\ ~(m <= j - 1) /\ j - 1 < Len(q.def) /\ (j - 1) + 1 = j /\ j \in 1 .. Len(q.def)
      BY <1>1, <2>2
    <3>2. ~Stops(j - 1)
      BY <2>2, <3>1
    <3>3. ~(frame[q.def[j]] >= frame[td])
      BY <3>1, <3>2
    <3>4. frame[q.def[j]] \in Nat /\ frame[td] \in Nat
      BY <1>1, <3>1
    <3> QED BY <3>3, <3>4
  <2> QED BY <2>2, <2>3
<1>3. n \in 0 .. Len(q.def) /\ Goes(n) /\ Stops(n)
  BY <1>2
<1>4. PutTDonDoneQueue(q, td) = [done |-> Append(q.done \o SubSeq(q.def, 1, n), td),
                                 def  |-> SubSeq(q.def, n + 1, Len(q.def))]
  BY DEF PutTDonDoneQueue
<1> HIDE DEF n
<1> QED BY <1>3, <1>4

\* It is one after the other.
LEMMA PutEach ==
  ASSUME NEW S, NEW q, NEW tds \in Seq(S)
  PROVE  \E put : /\ put[0] = q
                  /\ \A n \in 1 .. Len(tds) : put[n] = PutTDonDoneQueue(put[n - 1], tds[n])
                  /\ PutAll(q, tds) = put[Len(tds)]
<1> DEFINE L == Len(tds)
           Step(f, n) == IF n = 0 THEN q ELSE PutTDonDoneQueue(f[n - 1], tds[n])
           Puts(m, f) == f = [n \in 0 .. m |-> Step(f, n)]
           Reached == {m \in 0 .. L : \E f : Puts(m, f)}
           put == CHOOSE f : f = [n \in 0 .. L |-> Step(f, n)]
<1>1. L \in Nat
  BY LenProperties
<1>2. PutAll(q, tds) = put[L]
  BY DEF PutAll
<1> HIDE DEF L
<1>3. \E f : Puts(L, f)
  <2>1. 0 \in Reached
    <3>1. Puts(0, [n \in 0 .. 0 |-> q])
      BY \A n \in 0 .. 0 : n = 0
    <3> HIDE DEF Puts
    <3> QED BY <1>1, <3>1
  <2>2. ASSUME NEW m \in 0 .. L - 1, m \in Reached PROVE m + 1 \in Reached
    <3>1. PICK f : Puts(m, f)
      BY <2>2
    <3> DEFINE g == [n \in 0 .. m + 1 |-> IF n <= m THEN f[n] ELSE PutTDonDoneQueue(f[m], tds[m + 1])]
    <3>2. \A n \in 0 .. m : g[n] = f[n]
      BY <1>1
    <3>3. g[m + 1] = PutTDonDoneQueue(g[m], tds[m + 1])
      BY <1>1
    <3>4. ASSUME NEW n \in 0 .. m + 1 PROVE g[n] = Step(g, n)
      <4>1. CASE n = 0
        BY <1>1, <3>1, <3>2, <4>1
      <4>2. CASE n = m + 1
        BY <1>1, <3>3, <4>2
      <4>3. CASE n \in 1 .. m
        <5>1. n \in 0 .. m /\ n - 1 \in 0 .. m /\ n # 0
          BY <1>1, <4>3
        <5>2. f[n] = Step(f, n)
          BY <3>1, <5>1
        <5> HIDE DEF g
        <5> QED BY <3>2, <5>1, <5>2
      <4> QED BY <1>1, <4>1, <4>2, <4>3
    <3>5. [n \in 0 .. m + 1 |-> Step(g, n)] = [n \in 0 .. m + 1 |-> g[n]]
      BY <3>4
    <3>6. Puts(m + 1, g)
      BY <3>5
    <3>7. m + 1 \in 0 .. L
      BY <1>1
    <3> HIDE DEF Puts
    <3> QED BY <3>6, <3>7
  <2> HIDE DEF Reached
  <2>3. \A m \in 0 .. L : m \in Reached
    BY <1>1, <2>1, <2>2, UpTo
  <2>4. L \in Reached
    BY <1>1, <2>3
  <2> QED BY <2>4 DEF Reached
<1>4. PICK f : Puts(L, f)
  BY <1>3
<1>6. put = [n \in 0 .. L |-> Step(put, n)]
  BY <1>4
<1> HIDE DEF put
<1>7. \A n \in 0 .. L : put[n] = Step(put, n)
  BY <1>6
<1>8. put[0] = q /\ \A n \in 1 .. L : put[n] = PutTDonDoneQueue(put[n - 1], tds[n])
  BY <1>1, <1>7
<1> QED BY <1>2, <1>8 DEF L

\* The elements of sequences.
LEMMA Concatenated ==
  ASSUME NEW S, NEW s \in Seq(S), NEW t \in Seq(S)
  PROVE  /\ s \o t \in Seq(S) /\ Len(s \o t) = Len(s) + Len(t)
         /\ ToSet(s \o t) = ToSet(s) \cup ToSet(t)
         /\ \A i \in 1 .. Len(s) : (s \o t)[i] = s[i]
         /\ \A i \in 1 .. Len(t) : (s \o t)[Len(s) + i] = t[i]
         /\ Len(s) \in Nat /\ Len(t) \in Nat
<1>1. /\ s \o t \in Seq(S) /\ Len(s \o t) = Len(s) + Len(t)
      /\ \A i \in 1 .. Len(s) + Len(t) : (s \o t)[i] = IF i <= Len(s) THEN s[i] ELSE t[i - Len(s)]
  BY ConcatProperties
<1>2. /\ Len(s) \in Nat /\ DOMAIN s = 1 .. Len(s) /\ Len(t) \in Nat /\ DOMAIN t = 1 .. Len(t)
      /\ DOMAIN (s \o t) = 1 .. Len(s) + Len(t)
  BY <1>1, LenProperties
<1>3. \A i \in 1 .. Len(s) : (s \o t)[i] = s[i] /\ i \in 1 .. Len(s) + Len(t)
  BY <1>1, <1>2
<1>4. \A i \in 1 .. Len(t) : (s \o t)[Len(s) + i] = t[i] /\ Len(s) + i \in 1 .. Len(s) + Len(t)
  <2>1. ASSUME NEW i \in 1 .. Len(t) PROVE (s \o t)[Len(s) + i] = t[i] /\ Len(s) + i \in 1 .. Len(s) + Len(t)
    <3>1. Len(s) + i \in 1 .. Len(s) + Len(t) /\ ~(Len(s) + i <= Len(s)) /\ (Len(s) + i) - Len(s) = i
      BY <1>2
    <3> QED BY <1>1, <3>1
  <2> QED BY <2>1
<1>5. \A i \in 1 .. Len(s) + Len(t) : i \in 1 .. Len(s) \/ (i - Len(s) \in 1 .. Len(t) /\ i = Len(s) + (i - Len(s)))
  BY <1>2
<1>6. ASSUME NEW y \in ToSet(s \o t) PROVE y \in ToSet(s) \cup ToSet(t)
  <2>1. PICK i \in 1 .. Len(s) + Len(t) : y = (s \o t)[i]
    BY <1>2, <1>6 DEF ToSet
  <2>2. (i \in 1 .. Len(s) /\ y = s[i]) \/ (i - Len(s) \in 1 .. Len(t) /\ y = t[i - Len(s)])
    BY <1>3, <1>4, <1>5, <2>1
  <2> QED BY <1>2, <2>2 DEF ToSet
<1>7. \A i \in 1 .. Len(s) : s[i] \in ToSet(s \o t)
  BY <1>2, <1>3 DEF ToSet
<1>8. \A i \in 1 .. Len(t) : t[i] \in ToSet(s \o t)
  BY <1>2, <1>4 DEF ToSet
<1>9. ToSet(s) = {s[i] : i \in 1 .. Len(s)} /\ ToSet(t) = {t[i] : i \in 1 .. Len(t)}
  BY <1>2 DEF ToSet
<1>10. ToSet(s \o t) = ToSet(s) \cup ToSet(t)
  BY <1>6, <1>7, <1>8, <1>9
<1> QED BY <1>1, <1>2, <1>3, <1>4, <1>10

\* An element more, at the end.
LEMMA Appended ==
  ASSUME NEW S, NEW s \in Seq(S), NEW x \in S
  PROVE  /\ Append(s, x) \in Seq(S) /\ Len(Append(s, x)) = Len(s) + 1
         /\ ToSet(Append(s, x)) = ToSet(s) \cup {x}
         /\ \A i \in 1 .. Len(s) : Append(s, x)[i] = s[i]
         /\ Append(s, x)[Len(s) + 1] = x
         /\ Len(s) \in Nat
<1>1. /\ Append(s, x) \in Seq(S) /\ Len(Append(s, x)) = Len(s) + 1
      /\ \A i \in 1 .. Len(s) : Append(s, x)[i] = s[i]
      /\ Append(s, x)[Len(s) + 1] = x
  BY AppendProperties
<1>2. Len(s) \in Nat /\ DOMAIN s = 1 .. Len(s) /\ DOMAIN Append(s, x) = 1 .. Len(s) + 1
  BY <1>1, LenProperties
<1>3. ASSUME NEW y \in ToSet(Append(s, x)) PROVE y \in ToSet(s) \cup {x}
  <2>1. PICK i \in 1 .. Len(s) + 1 : y = Append(s, x)[i]
    BY <1>2, <1>3 DEF ToSet
  <2>2. i \in 1 .. Len(s) \/ i = Len(s) + 1
    BY <1>2
  <2> QED BY <1>1, <1>2, <2>1, <2>2 DEF ToSet
<1>4. \A i \in 1 .. Len(s) : s[i] \in ToSet(Append(s, x))
  BY <1>1, <1>2 DEF ToSet
<1>5. x \in ToSet(Append(s, x))
  BY <1>1, <1>2 DEF ToSet
<1>6. ToSet(s) = {s[i] : i \in 1 .. Len(s)}
  BY <1>2 DEF ToSet
<1>7. ToSet(Append(s, x)) = ToSet(s) \cup {x}
  BY <1>3, <1>4, <1>5, <1>6
<1> QED BY <1>1, <1>2, <1>7

\* A sequence cut in two.
LEMMA CutInTwo ==
  ASSUME NEW S, NEW s \in Seq(S), NEW n \in 0 .. Len(s)
  PROVE  /\ SubSeq(s, 1, n) \in Seq(S) /\ SubSeq(s, n + 1, Len(s)) \in Seq(S)
         /\ Len(SubSeq(s, 1, n)) = n /\ Len(SubSeq(s, n + 1, Len(s))) = Len(s) - n
         /\ \A i \in 1 .. n : SubSeq(s, 1, n)[i] = s[i]
         /\ \A i \in 1 .. Len(s) - n : SubSeq(s, n + 1, Len(s))[i] = s[n + i]
         /\ ToSet(SubSeq(s, 1, n)) = {s[i] : i \in 1 .. n}
         /\ ToSet(SubSeq(s, n + 1, Len(s))) = {s[i] : i \in n + 1 .. Len(s)}
         /\ ToSet(SubSeq(s, 1, n)) \cup ToSet(SubSeq(s, n + 1, Len(s))) = ToSet(s)
<1> DEFINE a == SubSeq(s, 1, n)
           b == SubSeq(s, n + 1, Len(s))
<1>1. Len(s) \in Nat /\ DOMAIN s = 1 .. Len(s) /\ \A i \in 1 .. Len(s) : s[i] \in S
  BY LenProperties, ElementOfSeq
<1>2. a \in Seq(S) /\ Len(a) = n /\ \A i \in 1 .. n : a[i] = s[i]
  <2>1. /\ a \in Seq(S) /\ Len(a) = IF 1 <= n THEN n - 1 + 1 ELSE 0
        /\ \A i \in 1 .. n - 1 + 1 : a[i] = s[1 + i - 1]
    BY <1>1, SubSeqProperties
  <2>2. n - 1 + 1 = n /\ \A i \in 1 .. n : 1 + i - 1 = i
    BY <1>1
  <2> QED BY <1>1, <2>1, <2>2
<1>3. b \in Seq(S) /\ Len(b) = Len(s) - n /\ \A i \in 1 .. Len(s) - n : b[i] = s[n + i]
  <2>1. /\ b \in Seq(S) /\ Len(b) = IF n + 1 <= Len(s) THEN Len(s) - (n + 1) + 1 ELSE 0
        /\ \A i \in 1 .. Len(s) - (n + 1) + 1 : b[i] = s[(n + 1) + i - 1]
    <3>1. n + 1 \in Int /\ Len(s) \in Int /\ \A i \in n + 1 .. Len(s) : i \in 1 .. Len(s)
      BY <1>1
    <3> QED BY <1>1, <3>1, SubSeqProperties
  <2>2. /\ Len(s) - (n + 1) + 1 = Len(s) - n
        /\ \A i \in 1 .. Len(s) - n : (n + 1) + i - 1 = n + i
    BY <1>1
  <2> HIDE DEF b
  <2>a. Len(b) = IF n + 1 <= Len(s) THEN Len(s) - (n + 1) + 1 ELSE 0
    BY <2>1
  <2>b. PICK l : l = Len(s)
    OBVIOUS
  <2>c. l \in Nat /\ n \in 0 .. l
    BY <1>1, <2>b
  <2>d. (IF n + 1 <= l THEN l - (n + 1) + 1 ELSE 0) = l - n
    BY <2>c
  <2>3. Len(b) = Len(s) - n
    BY <2>a, <2>b, <2>d
  <2>4. ASSUME NEW i \in 1 .. Len(s) - n PROVE b[i] = s[n + i]
    <3>1. i \in 1 .. Len(s) - (n + 1) + 1
      BY <2>2
    <3>2. b[i] = s[(n + 1) + i - 1]
      BY <2>1, <3>1
    <3> QED BY <2>2, <3>2
  <2> QED BY <2>1, <2>3, <2>4
<1> HIDE DEF a, b
<1>4. DOMAIN a = 1 .. n /\ DOMAIN b = 1 .. Len(s) - n
  BY <1>2, <1>3, LenProperties
<1>5. ToSet(a) = {s[i] : i \in 1 .. n}
  BY <1>2, <1>4 DEF ToSet
<1>6. ToSet(b) = {s[i] : i \in n + 1 .. Len(s)}
  <2>1. \A i \in 1 .. Len(s) - n : b[i] = s[n + i] /\ n + i \in n + 1 .. Len(s)
    BY <1>1, <1>3
  <2>2. \A i \in n + 1 .. Len(s) : i - n \in 1 .. Len(s) - n /\ n + (i - n) = i
    BY <1>1
  <2>3. \A i \in n + 1 .. Len(s) : s[i] = b[i - n] /\ i - n \in 1 .. Len(s) - n
    BY <2>1, <2>2
  <2>4. \A x \in ToSet(b) : \E i \in n + 1 .. Len(s) : x = s[i]
    BY <1>4, <2>1 DEF ToSet
  <2>5. \A i \in n + 1 .. Len(s) : s[i] \in ToSet(b)
    BY <1>4, <2>3 DEF ToSet
  <2> QED BY <2>4, <2>5
<1>7. ToSet(a) \cup ToSet(b) = ToSet(s)
  <2>1. \A i : i \in 1 .. Len(s) <=> i \in 1 .. n \/ i \in n + 1 .. Len(s)
    BY <1>1
  <2>2. ToSet(s) = {s[i] : i \in 1 .. Len(s)}
    BY <1>1 DEF ToSet
  <2> QED BY <1>5, <1>6, <2>1, <2>2
<1> QED BY <1>2, <1>3, <1>5, <1>6, <1>7 DEF a, b

\* What joining, appending and cutting do to length and elements.
LEMMA JoinHas ==
  ASSUME NEW S, NEW s \in Seq(S), NEW t \in Seq(S)
  PROVE  s \o t \in Seq(S) /\ Len(s \o t) = Len(s) + Len(t) /\ ToSet(s \o t) = ToSet(s) \cup ToSet(t)
BY Concatenated, ZenonT(40)

\* And appending.
LEMMA AppendHas ==
  ASSUME NEW S, NEW s \in Seq(S), NEW x \in S
  PROVE  Append(s, x) \in Seq(S) /\ Len(Append(s, x)) = Len(s) + 1 /\ ToSet(Append(s, x)) = ToSet(s) \cup {x}
BY Appended

\* And cutting.
LEMMA CutHas ==
  ASSUME NEW S, NEW s \in Seq(S), NEW n \in 0 .. Len(s)
  PROVE  /\ SubSeq(s, 1, n) \in Seq(S) /\ SubSeq(s, n + 1, Len(s)) \in Seq(S)
         /\ Len(SubSeq(s, 1, n)) = n /\ Len(SubSeq(s, n + 1, Len(s))) = Len(s) - n
         /\ ToSet(SubSeq(s, 1, n)) \cup ToSet(SubSeq(s, n + 1, Len(s))) = ToSet(s)
BY CutInTwo

\* Joining, appending and cutting, with the result named.
LEMMA AppendNamed ==
  ASSUME NEW S, NEW s, NEW x, NEW r, s \in Seq(S), x \in S, r = Append(s, x)
  PROVE  r \in Seq(S) /\ Len(r) = Len(s) + 1 /\ ToSet(r) = ToSet(s) \cup {x}
BY AppendHas

\* r has the TDs of q and td.
OnePut(S, q, td, r) ==
  /\ r \in QueuesOf(S)
  /\ Len(r.done) + Len(r.def) = Len(q.done) + Len(q.def) + 1
  /\ ToSet(r.done) \cup ToSet(r.def) = ToSet(q.done) \cup ToSet(q.def) \cup {td}

\* A TD put on the queues is on them, and nothing else comes or goes.
LEMMA PutOneKeeps ==
  ASSUME NEW S, NEW q, NEW td, \A x \in S : frame[x] \in Nat, q \in QueuesOf(S), td \in S
  PROVE  OnePut(S, q, td, PutTDonDoneQueue(q, td))
<1> DEFINE r == PutTDonDoneQueue(q, td)
<1>1. PICK n \in 0 .. Len(q.def) :
        PutTDonDoneQueue(q, td) = [done |-> Append(q.done \o SubSeq(q.def, 1, n), td),
                                   def  |-> SubSeq(q.def, n + 1, Len(q.def))]
  BY PutOne
<1> HIDE DEF r
<1>2. PICK d \in Seq(S), e \in Seq(S) : d = q.done /\ e = q.def
  BY DEF QueuesOf
<1>3. PICK a, b : a = SubSeq(e, 1, n) /\ b = SubSeq(e, n + 1, Len(e))
  OBVIOUS
<1>4. n \in 0 .. Len(e)
  BY <1>2
<1>5. a \in Seq(S) /\ b \in Seq(S) /\ Len(a) = n /\ Len(b) = Len(e) - n /\ ToSet(a) \cup ToSet(b) = ToSet(e)
  <2>1. /\ SubSeq(e, 1, n) \in Seq(S) /\ SubSeq(e, n + 1, Len(e)) \in Seq(S)
        /\ Len(SubSeq(e, 1, n)) = n /\ Len(SubSeq(e, n + 1, Len(e))) = Len(e) - n
        /\ ToSet(SubSeq(e, 1, n)) \cup ToSet(SubSeq(e, n + 1, Len(e))) = ToSet(e)
    BY <1>4, CutHas, Zenon
  <2> QED BY <1>3, <2>1, Zenon
<1>6. PICK c : c = d \o a
  OBVIOUS
<1>7. c \in Seq(S) /\ Len(c) = Len(d) + Len(a) /\ ToSet(c) = ToSet(d) \cup ToSet(a)
  <2>1. a \in Seq(S) /\ d \in Seq(S)
    BY <1>5
  <2>2. d \o a \in Seq(S) /\ Len(d \o a) = Len(d) + Len(a) /\ ToSet(d \o a) = ToSet(d) \cup ToSet(a)
    BY <2>1, JoinHas
  <2> QED BY <1>6, <2>2, Zenon
<1>8. PICK f : f = Append(c, td)
  OBVIOUS
<1>9. f \in Seq(S) /\ Len(f) = Len(c) + 1 /\ ToSet(f) = ToSet(c) \cup {td}
  <2>1. c \in Seq(S) /\ td \in S
    BY <1>7
  <2> QED BY <1>8, <2>1, AppendNamed, ZenonT(40)
<1>10. r = [done |-> f, def |-> b]
  BY <1>1, <1>2, <1>3, <1>6, <1>8, Zenon DEF r
<1>11. r.done = f /\ r.def = b /\ r \in QueuesOf(S)
  BY <1>5, <1>9, <1>10 DEF QueuesOf
<1>12. Len(f) + Len(b) = Len(d) + Len(e) + 1
  <2>1. PICK ld \in Nat, le \in Nat : ld = Len(d) /\ le = Len(e)
    BY LenProperties
  <2>2. n \in 0 .. le
    BY <1>4, <2>1
  <2>3. (ld + n + 1) + (le - n) = ld + le + 1
    BY <2>2
  <2> QED BY <1>5, <1>7, <1>9, <2>1, <2>3
<1>13. ToSet(f) \cup ToSet(b) = ToSet(d) \cup ToSet(e) \cup {td}
  BY <1>5, <1>7, <1>9, Zenon
<1>14. OnePut(S, q, td, r)
  BY <1>2, <1>11, <1>12, <1>13 DEF OnePut
<1> QED BY <1>14 DEF r

\* All of tds.
AllPut(S, q, tds, r) ==
  /\ r \in QueuesOf(S)
  /\ Len(r.done) + Len(r.def) = Len(q.done) + Len(q.def) + Len(tds)
  /\ ToSet(r.done) \cup ToSet(r.def) = ToSet(q.done) \cup ToSet(q.def) \cup ToSet(tds)

\* So do several, one after the other.
LEMMA PutAllKeeps ==
  ASSUME NEW S, NEW q, NEW tds, \A x \in S : frame[x] \in Nat, q \in QueuesOf(S), tds \in Seq(S)
  PROVE  AllPut(S, q, tds, PutAll(q, tds))
<1> DEFINE r == PutAll(q, tds)
<1> HIDE DEF r
<1>1. PICK L \in Nat : L = Len(tds) /\ DOMAIN tds = 1 .. L /\ \A n \in 1 .. L : tds[n] \in S
  BY LenProperties, ElementOfSeq
<1>2. PICK put : /\ put[0] = q
                 /\ \A n \in 1 .. L : put[n] = PutTDonDoneQueue(put[n - 1], tds[n])
                 /\ r = put[L]
  BY <1>1, PutEach DEF r
<1> DEFINE First(n) == {tds[i] : i \in 1 .. n}
           All(p) == ToSet(p.done) \cup ToSet(p.def)
           Sum(p) == Len(p.done) + Len(p.def)
           Keeps(n) == put[n] \in QueuesOf(S) /\ Sum(put[n]) = Sum(q) + n /\ All(put[n]) = All(q) \cup First(n)
           Kept == {n \in 0 .. L : Keeps(n)}
<1>3. Sum(q) \in Nat
  BY LenProperties DEF QueuesOf
<1>4. First(0) = {}
  OBVIOUS
<1>5. ASSUME NEW n \in 0 .. L - 1 PROVE First(n + 1) = First(n) \cup {tds[n + 1]}
  <2>1. \A i : i \in 1 .. n + 1 <=> i \in 1 .. n \/ i = n + 1
    OBVIOUS
  <2> QED BY <2>1
<1>6. First(L) = ToSet(tds)
  BY <1>1 DEF ToSet
<1> HIDE DEF First, Sum
<1>7. 0 \in Kept
  BY <1>2, <1>3, <1>4
<1>8. ASSUME NEW n \in 0 .. L - 1, n \in Kept PROVE n + 1 \in Kept
  <2>1. Keeps(n)
    BY <1>8
  <2>2. n + 1 \in 1 .. L /\ (n + 1) - 1 = n /\ n + 1 \in 0 .. L /\ n \in Nat
    BY <1>1
  <2>3. put[n + 1] = PutTDonDoneQueue(put[n], tds[n + 1]) /\ tds[n + 1] \in S
    BY <1>1, <1>2, <2>2
  <2>4. PICK p, t, x : p = put[n] /\ t = put[n + 1] /\ x = tds[n + 1]
    OBVIOUS
  <2>5. p \in QueuesOf(S) /\ Sum(p) = Sum(q) + n /\ All(p) = All(q) \cup First(n)
    BY <2>1, <2>4
  <2>6. t = PutTDonDoneQueue(p, x) /\ x \in S /\ p \in QueuesOf(S)
    BY <2>3, <2>4, <2>5
  <2> HIDE DEF All
  <2>7. /\ t \in QueuesOf(S)
        /\ Len(t.done) + Len(t.def) = Len(p.done) + Len(p.def) + 1
        /\ ToSet(t.done) \cup ToSet(t.def) = ToSet(p.done) \cup ToSet(p.def) \cup {x}
    <3>1. \A y \in S : frame[y] \in Nat
      OBVIOUS
    <3>2. OnePut(S, p, x, PutTDonDoneQueue(p, x))
      BY <2>6, <3>1, PutOneKeeps
    <3>3. OnePut(S, p, x, t)
      BY <2>6, <3>2, Zenon
    <3> QED BY <3>3 DEF OnePut
  <2>8. Sum(t) = Sum(p) + 1
    BY <2>7, Zenon DEF Sum
  <2>9. Sum(t) = Sum(q) + (n + 1)
    BY <1>3, <2>2, <2>5, <2>8
  <2>10. All(t) = All(q) \cup First(n + 1)
    BY <1>5, <2>4, <2>5, <2>7, Zenon DEF All
  <2>11. Keeps(n + 1)
    BY <2>4, <2>7, <2>9, <2>10
  <2> HIDE DEF Keeps
  <2> QED BY <2>2, <2>11
<1> HIDE DEF Kept
<1>9. L \in Kept
  <2>1. \A n \in 0 .. L : n \in Kept
    BY <1>1, <1>7, <1>8, UpTo
  <2> QED BY <1>1, <2>1
<1>10. Keeps(L)
  BY <1>9 DEF Kept
<1> HIDE DEF Keeps
<1>11. PICK sum : sum = Len(r.done) + Len(r.def) /\ r \in QueuesOf(S) /\ sum = Sum(q) + L /\ All(r) = All(q) \cup First(L)
  BY <1>2, <1>10 DEF Keeps, Sum
<1>12. AllPut(S, q, tds, r)
  BY <1>1, <1>6, <1>11 DEF Sum, AllPut
<1> QED BY <1>12 DEF r

-----------------------------------------------------------------------------
(* The invariant of NoTDLost. Its types count TDs from 1, so that a request  *)
(* changes no type.                                                        *)

Numbers     == Nat \ {0}
SlotNumbers == 0 .. NumSlots - 1
Sent        == Len(frame) - Len(toDoList)    \* the TDs that are no longer to do are 1 .. Sent

ListTypes ==
  /\ toDoList \in Seq(Numbers) /\ doneQueue \in Seq(Numbers) /\ deferredQueue \in Seq(Numbers)
  /\ returned \in Seq(Numbers) /\ frame \in Seq(Nat)
  /\ Len(toDoList) <= Len(frame) /\ \A j \in 1 .. Len(toDoList) : toDoList[j] = Sent + j
SlotTypes ==
  /\ tdSlots \in [SlotNumbers -> Nat]
  /\ inSlot \in SlotNumbers \cup {Unset} /\ outSlot \in SlotNumbers \cup {Unset}
  /\ scheduledTDs \in Int
ChainTypes ==
  /\ producerCount \in Nat /\ consumerCount \in 0 .. producerCount
  /\ savedDoneQueueHead \in Seq(Numbers) /\ Len(savedDoneQueueHead) = producerCount
\* The filter's chain is that of the endpoint, with TDs in front.
FilterTypes ==
  /\ fpc \in {"idle", "scan"}
  /\ fpc = "scan" =>
       /\ testSlot \in SlotNumbers /\ stopSlot \in SlotNumbers /\ tdsScheduled
       /\ cachedProducer \in Nat /\ producerCount <= cachedProducer
       /\ pCachedHead \in Seq(Numbers) /\ Len(pCachedHead) = cachedProducer
       /\ \A j \in 1 .. producerCount :
            pCachedHead[cachedProducer - producerCount + j] = savedDoneQueueHead[j]
GateTypes ==
  /\ gpc = "slots" => toDoList # <<>>
  /\ gpc \in {"slots", "lay"} => Used(inSlot)
  /\ stopping => gpc = "idle"

\* Where TDs are that are not to do.
Home     == ToSet(returned) \cup ToSet(doneQueue) \cup ToSet(deferredQueue)
ChainTDs == {savedDoneQueueHead[j] : j \in 1 .. producerCount - consumerCount}
Fresh    == IF fpc = "scan" THEN cachedProducer - producerCount ELSE 0
TakenTDs == {pCachedHead[j] : j \in 1 .. Fresh}
SlotTDs  == {tdSlots[s] : s \in InSlots}
Places   == Home \cup ChainTDs \cup TakenTDs \cup SlotTDs
AtHome   == Len(returned) + Len(doneQueue) + Len(deferredQueue)

Base == ListTypes /\ SlotTypes /\ ChainTypes /\ FilterTypes /\ GateTypes /\ Places \subseteq 1 .. Sent

\* Slots are counted from outSlot on.
Offset(o, s) == IF s >= o THEN s - o ELSE s - o + NumSlots
Off(s)       == Offset(outSlot, s)

\* TDs are in slots between outSlot and inSlot, and only the first of these may be empty: it was the
\* last that the filter emptied. The filter is between the two, and past what it looked at.
WindowInv ==
  /\ scheduledTDs = Cardinality(InSlots)
  /\ ~Used(outSlot) => InSlots = {} /\ inSlot \in {0, Unset} /\ fpc = "idle"
  /\ Used(outSlot) =>
       /\ Used(inSlot) /\ outSlot # inSlot
       /\ \A s \in InSlots : Off(s) < Off(inSlot)
       /\ \A s \in SlotNumbers : 0 < Off(s) /\ Off(s) < Off(inSlot) => s \in InSlots
  /\ fpc = "scan" =>
       /\ Off(testSlot) <= Off(stopSlot) /\ Off(stopSlot) <= Off(inSlot)
       /\ testSlot # stopSlot => \A s \in InSlots : Off(testSlot) <= Off(s)

\* No TD is lost, and none is in two places.
PlaceInv ==
  /\ 1 .. Sent \subseteq Places
  /\ AtHome + (producerCount - consumerCount) + Fresh + scheduledTDs = Sent

LostInv == "restarted" \notin upset => WindowInv /\ PlaceInv

-----------------------------------------------------------------------------
(* The slots.                                                              *)

\* What is known of the number of slots.
LEMMA Slots == NumSlots \in Nat /\ NumSlots >= 3 /\ Unset = NumSlots + 1 /\ Free = 0
BY NumSlotsAssumption DEF Unset, Free

\* The slot after another, counted without a remainder.
LEMMA NextIs ==
  ASSUME NEW s \in SlotNumbers
  PROVE  NextSlot(s) \in SlotNumbers /\ NextSlot(s) = IF s = NumSlots - 1 THEN 0 ELSE s + 1
<1>1. PICK a \in Int : a = s + 1
  BY DEF SlotNumbers
<1>2. a \in 0 .. NumSlots - 1 \/ a \in NumSlots .. 2 * NumSlots - 1
  BY <1>1, Slots DEF SlotNumbers
<1>3. /\ a \in 0 .. NumSlots - 1 => a % NumSlots = a
      /\ a \in NumSlots .. 2 * NumSlots - 1 => a % NumSlots = a - NumSlots
  BY Remainders
<1>4. PICK r : r = a % NumSlots
  OBVIOUS
<1>5. r \in SlotNumbers /\ r = IF s = NumSlots - 1 THEN 0 ELSE s + 1
  BY <1>1, <1>2, <1>3, <1>4, Slots DEF SlotNumbers
<1> QED BY <1>1, <1>4, <1>5 DEF NextSlot

\* Offsets from a slot number the slots, from 0 on.
LEMMA OffsetIs ==
  ASSUME NEW o \in SlotNumbers, NEW s \in SlotNumbers
  PROVE  /\ Offset(o, s) \in SlotNumbers /\ Offset(o, s) \in Int
         /\ Offset(o, s) = 0 <=> s = o
         /\ \A t \in SlotNumbers : Offset(o, s) = Offset(o, t) => s = t
         /\ Offset(o, s) < NumSlots
BY Slots DEF Offset, SlotNumbers

\* The next slot is one further, until outSlot comes round.
LEMMA OffsetNext ==
  ASSUME NEW o \in SlotNumbers, NEW s \in SlotNumbers
  PROVE  Offset(o, NextSlot(s)) = IF NextSlot(s) = o THEN 0 ELSE Offset(o, s) + 1
<1>1. NextSlot(s) = IF s = NumSlots - 1 THEN 0 ELSE s + 1
  BY NextIs
<1> QED BY <1>1, Slots DEF Offset, SlotNumbers

\* Seen from a slot further on, a slot that is not before it is nearer by as much.
LEMMA OffsetMoved ==
  ASSUME NEW o \in SlotNumbers, NEW p \in SlotNumbers, NEW s \in SlotNumbers, Offset(o, p) <= Offset(o, s)
  PROVE  Offset(p, s) = Offset(o, s) - Offset(o, p)
BY Slots DEF Offset, SlotNumbers

\* The slot at an offset.
LEMMA OffsetAt ==
  ASSUME NEW o \in SlotNumbers, NEW k \in SlotNumbers
  PROVE  (o + k) % NumSlots \in SlotNumbers /\ Offset(o, (o + k) % NumSlots) = k
<1>1. PICK a \in Int : a = o + k
  BY DEF SlotNumbers
<1>2. a \in 0 .. NumSlots - 1 \/ a \in NumSlots .. 2 * NumSlots - 1
  BY <1>1, Slots DEF SlotNumbers
<1>3. /\ a \in 0 .. NumSlots - 1 => a % NumSlots = a
      /\ a \in NumSlots .. 2 * NumSlots - 1 => a % NumSlots = a - NumSlots
  BY Remainders
<1>4. PICK r : r = a % NumSlots
  OBVIOUS
<1>5. r \in SlotNumbers /\ Offset(o, r) = k
  BY <1>1, <1>2, <1>3, <1>4, Slots DEF SlotNumbers, Offset
<1> QED BY <1>1, <1>4, <1>5

\* The difference the window is computed with is the offset.
LEMMA OffsetDiff ==
  ASSUME NEW o \in SlotNumbers, NEW s \in SlotNumbers
  PROVE  (s - o) % NumSlots = Offset(o, s)
<1>1. s - o \in Int /\ (s - o \in 0 .. NumSlots - 1 \/ s - o \in 0 - NumSlots .. 0 - 1)
  BY Slots DEF SlotNumbers
<1>2. /\ s - o \in 0 .. NumSlots - 1 => (s - o) % NumSlots = s - o
      /\ s - o \in 0 - NumSlots .. 0 - 1 => (s - o) % NumSlots = s - o + NumSlots
  BY <1>1, Remainders
<1>3. PICK r : r = (s - o) % NumSlots
  OBVIOUS
<1>4. r = Offset(o, s)
  BY <1>1, <1>2, <1>3, Slots DEF SlotNumbers, Offset
<1> QED BY <1>3, <1>4

\* In use is what is not 129.
LEMMA UsedIs ==
  ASSUME NEW s \in SlotNumbers \cup {Unset}
  PROVE  (Used(s) <=> s \in SlotNumbers) /\ (~Used(s) <=> s = Unset)
BY Slots DEF Used, SlotNumbers

\* There are finitely many slots, so the TDs in them can be counted.
LEMMA InSlotsFinite ==
  ASSUME SlotTypes
  PROVE  /\ InSlots \subseteq SlotNumbers /\ IsFiniteSet(InSlots) /\ Cardinality(InSlots) \in Nat
         /\ \A s \in SlotNumbers : s \in InSlots <=> tdSlots[s] # 0
         /\ SlotTDs \subseteq Numbers
<1>1. DOMAIN tdSlots = SlotNumbers
  BY DEF SlotTypes
<1>2. InSlots \subseteq SlotNumbers /\ \A s \in SlotNumbers : s \in InSlots <=> tdSlots[s] # 0
  BY <1>1 DEF InSlots, Free
<1>3. IsFiniteSet(SlotNumbers)
  BY Slots, FS_Interval DEF SlotNumbers
<1>4. IsFiniteSet(InSlots) /\ Cardinality(InSlots) \in Nat
  BY <1>2, <1>3, FS_Subset, FS_CardinalityType
<1>5. SlotTDs \subseteq Numbers
  BY <1>2 DEF SlotTDs, Numbers, SlotTypes
<1> QED BY <1>2, <1>4, <1>5

\* Sequences of TDs in order.
Rising(s)    == \A j, k \in 1 .. Len(s) : j < k => s[j] < s[k]
Before(S, T) == \A x \in S, y \in T : x < y

\* A sequence that rises, behind one that does and has only smaller numbers.
LEMMA RisingJoined ==
  ASSUME NEW s, NEW t, s \in Seq(Numbers), t \in Seq(Numbers), Rising(s), Rising(t), Before(ToSet(s), ToSet(t))
  PROVE  Rising(s \o t)
<1>1. PICK m \in Nat, n \in Nat : m = Len(s) /\ n = Len(t) /\ DOMAIN s = 1 .. m /\ DOMAIN t = 1 .. n
  BY LenProperties
<1>2. /\ Len(s \o t) = Len(s) + Len(t)
      /\ \A i \in 1 .. Len(s) : (s \o t)[i] = s[i]
      /\ \A i \in 1 .. Len(t) : (s \o t)[Len(s) + i] = t[i]
  BY Concatenated
<1>3. PICK u : u = s \o t
  OBVIOUS
<1>4. /\ Len(u) = m + n
      /\ \A i \in 1 .. m : u[i] = s[i]
      /\ \A i \in 1 .. n : u[m + i] = t[i]
  BY <1>1, <1>2, <1>3
<1>5. (\A i \in 1 .. m : s[i] \in ToSet(s)) /\ (\A i \in 1 .. n : t[i] \in ToSet(t))
  BY <1>1 DEF ToSet
<1>6. ASSUME NEW j \in 1 .. m + n, NEW k \in 1 .. m + n, j < k PROVE u[j] < u[k]
  <2>1. CASE k \in 1 .. m
    <3>1. j \in 1 .. m
      BY <1>1, <1>6, <2>1
    <3> QED BY <1>1, <1>4, <1>6, <2>1, <3>1 DEF Rising
  <2>2. CASE j \in 1 .. m /\ k \notin 1 .. m
    <3>1. k - m \in 1 .. n /\ k = m + (k - m)
      BY <1>1, <1>6, <2>2
    <3>2. u[k] = t[k - m] /\ u[j] = s[j]
      BY <1>4, <2>2, <3>1
    <3> QED BY <1>5, <2>2, <3>1, <3>2 DEF Before
  <2>3. CASE j \notin 1 .. m
    <3>1. k - m \in 1 .. n /\ k = m + (k - m) /\ j - m \in 1 .. n /\ j = m + (j - m) /\ j - m < k - m
      BY <1>1, <1>6, <2>3
    <3>2. u[k] = t[k - m] /\ u[j] = t[j - m]
      BY <1>4, <3>1
    <3> QED BY <1>1, <3>1, <3>2 DEF Rising
  <2> QED BY <2>1, <2>2, <2>3
<1>7. Rising(u)
  BY <1>4, <1>6 DEF Rising
<1> QED BY <1>3, <1>7

\* A greater number at the end.
LEMMA RisingAppended ==
  ASSUME NEW s, NEW x, s \in Seq(Numbers), x \in Numbers, Rising(s), Before(ToSet(s), {x})
  PROVE  Rising(Append(s, x))
<1>1. PICK m \in Nat : m = Len(s) /\ DOMAIN s = 1 .. m
  BY LenProperties
<1>2. /\ Len(Append(s, x)) = Len(s) + 1
      /\ \A i \in 1 .. Len(s) : Append(s, x)[i] = s[i]
      /\ Append(s, x)[Len(s) + 1] = x
  BY Appended
<1>3. PICK u : u = Append(s, x)
  OBVIOUS
<1>4. Len(u) = m + 1 /\ u[m + 1] = x /\ \A i \in 1 .. m : u[i] = s[i]
  BY <1>1, <1>2, <1>3
<1>5. \A i \in 1 .. m : s[i] < x
  BY <1>1 DEF ToSet, Before
<1>6. ASSUME NEW j \in 1 .. m + 1, NEW k \in 1 .. m + 1, j < k PROVE u[j] < u[k]
  <2>1. j \in 1 .. m /\ (k \in 1 .. m \/ k = m + 1)
    BY <1>1, <1>6
  <2> QED BY <1>1, <1>4, <1>5, <1>6, <2>1 DEF Rising
<1>7. Rising(u)
  BY <1>4, <1>6 DEF Rising
<1> QED BY <1>3, <1>7

\* Both parts of a sequence that rises.
LEMMA RisingCut ==
  ASSUME NEW s, NEW n, s \in Seq(Numbers), n \in 0 .. Len(s), Rising(s)
  PROVE  /\ Rising(SubSeq(s, 1, n)) /\ Rising(SubSeq(s, n + 1, Len(s)))
         /\ Before(ToSet(SubSeq(s, 1, n)), ToSet(SubSeq(s, n + 1, Len(s))))
<1>1. PICK l \in Nat : l = Len(s)
  BY LenProperties
<1>2. n \in 0 .. l
  BY <1>1
<1>3. /\ Len(SubSeq(s, 1, n)) = n /\ Len(SubSeq(s, n + 1, Len(s))) = Len(s) - n
      /\ \A i \in 1 .. n : SubSeq(s, 1, n)[i] = s[i]
      /\ \A i \in 1 .. Len(s) - n : SubSeq(s, n + 1, Len(s))[i] = s[n + i]
      /\ ToSet(SubSeq(s, 1, n)) = {s[i] : i \in 1 .. n}
      /\ ToSet(SubSeq(s, n + 1, Len(s))) = {s[i] : i \in n + 1 .. Len(s)}
  BY CutInTwo
<1>4. PICK a, b : a = SubSeq(s, 1, n) /\ b = SubSeq(s, n + 1, Len(s))
  OBVIOUS
<1>5. /\ Len(a) = n /\ Len(b) = l - n
      /\ \A i \in 1 .. n : a[i] = s[i]
      /\ \A i \in 1 .. l - n : b[i] = s[n + i]
      /\ ToSet(a) = {s[i] : i \in 1 .. n} /\ ToSet(b) = {s[i] : i \in n + 1 .. l}
  BY <1>1, <1>3, <1>4
<1>6. \A j, k \in 1 .. l : j < k => s[j] < s[k]
  BY <1>1 DEF Rising
<1>7. Rising(a)
  BY <1>2, <1>5, <1>6 DEF Rising
<1>8. Rising(b)
  <2>1. \A i \in 1 .. l - n : n + i \in 1 .. l
    BY <1>2
  <2>2. \A j, k \in 1 .. l - n : j < k => n + j < n + k
    BY <1>2
  <2>3. ASSUME NEW j \in 1 .. l - n, NEW k \in 1 .. l - n, j < k PROVE b[j] < b[k]
    <3>1. s[n + j] < s[n + k]
      BY <1>6, <2>1, <2>2, <2>3
    <3>2. b[j] = s[n + j] /\ b[k] = s[n + k]
      BY <1>5
    <3> QED BY <3>1, <3>2, Zenon
  <2> QED BY <1>5, <2>3 DEF Rising
<1>9. Before(ToSet(a), ToSet(b))
  <2>1. \A i \in 1 .. n, k \in n + 1 .. l : i \in 1 .. l /\ k \in 1 .. l /\ i < k
    BY <1>2
  <2>2. \A i \in 1 .. n, k \in n + 1 .. l : s[i] < s[k]
    BY <1>6, <2>1
  <2>3. ASSUME NEW x \in ToSet(a), NEW y \in ToSet(b) PROVE x < y
    <3>1. PICK i \in 1 .. n : x = s[i]
      BY <1>5
    <3>2. PICK k \in n + 1 .. l : y = s[k]
      BY <1>5
    <3> QED BY <2>2, <3>1, <3>2
  <2> QED BY <2>3 DEF Before
<1> QED BY <1>4, <1>7, <1>8, <1>9

\* The elements of the parts of a sequence.
IsCut(S, s, n, a, b) ==
  a \in Seq(S) /\ b \in Seq(S) /\ ToSet(a) = {s[i] : i \in 1 .. n} /\ ToSet(b) = {s[i] : i \in n + 1 .. Len(s)}

\* Cutting.
LEMMA CutIs ==
  ASSUME NEW S, NEW s, NEW n, s \in Seq(S), n \in 0 .. Len(s)
  PROVE  IsCut(S, s, n, SubSeq(s, 1, n), SubSeq(s, n + 1, Len(s)))
BY CutInTwo DEF IsCut

\* The TDs in slots are in order from outSlot on.
SlotOrder == \A s, t \in InSlots : Off(s) < Off(t) => tdSlots[s] < tdSlots[t]

\* The window, slot by slot.
WindowLength == IF Used(inSlot) /\ Used(outSlot) THEN (inSlot - outSlot) % NumSlots ELSE 0
LookAt(k)    == tdSlots[(outSlot + k - 1) % NumSlots]
Found(w, td) == IF td = Free THEN w ELSE Append(w, td)

\* The recursive function in Window, step by step.
LEMMA WindowEach ==
  ASSUME WindowLength \in Nat
  PROVE  \E w : /\ w[0] = <<>>
                /\ \A k \in 1 .. WindowLength : w[k] = Found(w[k - 1], LookAt(k))
                /\ Window = w[WindowLength]
<1> DEFINE Step(f, k) == IF k = 0 THEN <<>> ELSE Found(f[k - 1], LookAt(k))
           Looks(m, f) == f = [k \in 0 .. m |-> Step(f, k)]
           w == CHOOSE f : f = [k \in 0 .. WindowLength |-> Step(f, k)]
<1>2. Window = w[WindowLength]
  BY DEF Window, WindowLength, LookAt, Found
<1>a. PICK L \in Nat : L = WindowLength
  OBVIOUS
<1> DEFINE Reached == {m \in 0 .. L : \E f : Looks(m, f)}
<1>3. \E f : Looks(L, f)
  <2>1. 0 \in Reached
    <3>1. Looks(0, [k \in 0 .. 0 |-> <<>>])
      BY \A k \in 0 .. 0 : k = 0
    <3> HIDE DEF Looks
    <3> QED BY <1>a, <3>1
  <2>2. ASSUME NEW m \in 0 .. L - 1, m \in Reached PROVE m + 1 \in Reached
    <3>1. PICK f : Looks(m, f)
      BY <2>2
    <3> DEFINE g == [k \in 0 .. m + 1 |-> IF k <= m THEN f[k] ELSE Found(f[m], LookAt(m + 1))]
    <3>2. \A k \in 0 .. m : g[k] = f[k]
      BY <1>a
    <3>3. g[m + 1] = Found(g[m], LookAt(m + 1))
      BY <1>a
    <3>4. ASSUME NEW k \in 0 .. m + 1 PROVE g[k] = Step(g, k)
      <4>1. CASE k = 0
        BY <1>a, <3>1, <3>2, <4>1
      <4>2. CASE k = m + 1
        BY <1>a, <3>3, <4>2
      <4>3. CASE k \in 1 .. m
        <5>1. k \in 0 .. m /\ k - 1 \in 0 .. m /\ k # 0
          BY <1>a, <4>3
        <5>2. f[k] = Step(f, k)
          BY <3>1, <5>1
        <5> HIDE DEF g
        <5> QED BY <3>2, <5>1, <5>2
      <4> QED BY <1>a, <4>1, <4>2, <4>3
    <3>5. [k \in 0 .. m + 1 |-> Step(g, k)] = [k \in 0 .. m + 1 |-> g[k]]
      BY <3>4
    <3>6. Looks(m + 1, g)
      BY <3>5
    <3>7. m + 1 \in 0 .. L
      BY <1>a
    <3> HIDE DEF Looks
    <3> QED BY <3>6, <3>7
  <2> HIDE DEF Reached
  <2>3. \A m \in 0 .. L : m \in Reached
    BY <1>a, <2>1, <2>2, UpTo
  <2>4. L \in Reached
    BY <1>a, <2>3
  <2> QED BY <2>4 DEF Reached
<1>4. PICK f : Looks(L, f)
  BY <1>3
<1>6. w = [k \in 0 .. L |-> Step(w, k)]
  BY <1>4, <1>a
<1> HIDE DEF w
<1>7. \A k \in 0 .. L : w[k] = Step(w, k)
  BY <1>6
<1>8. w[0] = <<>> /\ \A k \in 1 .. L : w[k] = Found(w[k - 1], LookAt(k))
  BY <1>a, <1>7
<1> QED BY <1>2, <1>8, <1>a

\* The window has the TDs in slots, in the number of slots.
LEMMA WindowOf ==
  ASSUME SlotTypes
  PROVE  /\ Window \in Seq(Numbers) /\ ToSet(Window) \subseteq SlotTDs /\ Len(Window) \in Nat
         /\ WindowInv => ToSet(Window) = SlotTDs /\ Len(Window) = Cardinality(InSlots)
         /\ SlotOrder => Rising(Window)
<1>1. <<>> \in Seq(Numbers) /\ Len(<<>>) = 0 /\ ToSet(<<>>) = {} /\ Rising(<<>>)
  BY DEF ToSet, Rising
<1>2. CASE ~(Used(inSlot) /\ Used(outSlot))
  <2>1. WindowLength = 0
    BY <1>2 DEF WindowLength
  <2>2. Window = <<>>
    BY <2>1, WindowEach
  <2>3. WindowInv => InSlots = {}
    BY <1>2 DEF WindowInv
  <2>4. WindowInv => SlotTDs = {} /\ Cardinality(InSlots) = 0
    BY <2>3, FS_EmptySet DEF SlotTDs
  <2> QED BY <1>1, <2>2, <2>4
<1>3. CASE Used(inSlot) /\ Used(outSlot)
  <2>1. outSlot \in SlotNumbers /\ inSlot \in SlotNumbers
    BY <1>3, UsedIs DEF SlotTypes
  <2>2. PICK n \in SlotNumbers : n = Off(inSlot)
    BY <2>1, OffsetIs DEF Off
  <2>3. WindowLength = n /\ n \in Nat
    BY <1>3, <2>1, <2>2, OffsetDiff, Slots DEF WindowLength, Off, SlotNumbers
  <2>4. PICK w : /\ w[0] = <<>>
                 /\ \A k \in 1 .. n : w[k] = Found(w[k - 1], LookAt(k))
                 /\ Window = w[n]
    BY <2>3, WindowEach
  <2> DEFINE Up(k) == {s \in InSlots : Off(s) < k}
             TDsOf(A) == {tdSlots[s] : s \in A}
             Is(k) == /\ w[k] \in Seq(Numbers) /\ ToSet(w[k]) = TDsOf(Up(k)) /\ Len(w[k]) = Cardinality(Up(k))
                      /\ SlotOrder => Rising(w[k])
             Done == {k \in 0 .. n : Is(k)}
  <2>5. Up(0) = {}
    BY <2>1, OffsetIs, InSlotsFinite DEF Off, SlotNumbers
  <2>6. 0 \in Done
    <3>1. TDsOf(Up(0)) = {} /\ Cardinality(Up(0)) = 0
      BY <2>5, FS_EmptySet
    <3> HIDE DEF Up, TDsOf
    <3>2. Is(0)
      BY <1>1, <2>4, <3>1, Zenon
    <3> HIDE DEF Is
    <3> QED BY <2>3, <3>2
  <2>7. ASSUME NEW k \in 0 .. n - 1, k \in Done PROVE k + 1 \in Done
    <3>1. /\ k + 1 \in 1 .. n /\ (k + 1) - 1 = k /\ k + 1 \in 0 .. n /\ k \in SlotNumbers
          /\ outSlot + (k + 1) - 1 = outSlot + k
      BY <2>1, <2>3, Slots DEF SlotNumbers
    <3>2. PICK s \in SlotNumbers : s = (outSlot + k) % NumSlots /\ Off(s) = k
      BY <2>1, <3>1, OffsetAt DEF Off
    <3>3. w[k + 1] = Found(w[k], tdSlots[s])
      BY <2>4, <3>1, <3>2 DEF LookAt
    <3>4. \A t \in InSlots : Off(t) < k + 1 <=> Off(t) < k \/ t = s
      <4>1. ASSUME NEW t \in InSlots PROVE Off(t) < k + 1 <=> Off(t) < k \/ t = s
        <5>1. t \in SlotNumbers /\ Off(t) \in Int /\ (Off(t) = Off(s) => t = s)
          <6>1. t \in SlotNumbers
            BY InSlotsFinite
          <6> QED BY <2>1, <3>2, <6>1, OffsetIs DEF Off
        <5> HIDE DEF Off
        <5> QED BY <3>1, <3>2, <5>1 DEF SlotNumbers
      <4> QED BY <4>1
    <3>5. IsFiniteSet(Up(k)) /\ s \notin Up(k)
      BY <3>2, InSlotsFinite, FS_Subset, <3>1 DEF SlotNumbers
    <3>6. Is(k)
      BY <2>7
    <3>7. CASE tdSlots[s] = 0
      <4>1. s \notin InSlots
        BY <3>7, InSlotsFinite
      <4>2. Up(k + 1) = Up(k)
        BY <3>4, <4>1
      <4>3. w[k + 1] = w[k]
        BY <3>3, <3>7 DEF Found, Free
      <4> HIDE DEF Up
      <4> QED BY <3>1, <3>6, <4>2, <4>3
    <3>8. CASE tdSlots[s] # 0
      <4>1. s \in InSlots /\ tdSlots[s] \in Numbers
        BY <3>8, InSlotsFinite DEF SlotTypes, Numbers
      <4>2. Up(k + 1) = Up(k) \cup {s}
        BY <3>4, <4>1
      <4>3. PICK v, td : v = w[k] /\ td = tdSlots[s]
        OBVIOUS
      <4>4. /\ v \in Seq(Numbers) /\ td \in Numbers /\ ToSet(v) = TDsOf(Up(k)) /\ Len(v) = Cardinality(Up(k))
            /\ SlotOrder => Rising(v)
        BY <3>6, <4>1, <4>3
      <4>12. SlotOrder => Before(TDsOf(Up(k)), {td})
        BY <3>2, <4>1, <4>3 DEF SlotOrder, Before
      <4>5. w[k + 1] = Append(v, td)
        BY <3>3, <3>8, <4>3 DEF Found, Free
      <4>6. Cardinality(Up(k + 1)) = Cardinality(Up(k)) + 1
        BY <3>5, <4>2, FS_AddElement
      <4>7. TDsOf(Up(k) \cup {s}) = TDsOf(Up(k)) \cup {td}
        BY <4>3
      <4> HIDE DEF Up, TDsOf
      <4>8. Append(v, td) \in Seq(Numbers) /\ Len(Append(v, td)) = Len(v) + 1 /\ ToSet(Append(v, td)) = ToSet(v) \cup {td}
        BY <4>4, AppendHas
      <4>9. PICK u : u = Append(v, td)
        OBVIOUS
      <4>10. u \in Seq(Numbers) /\ Len(u) = Len(v) + 1 /\ ToSet(u) = ToSet(v) \cup {td} /\ u = w[k + 1]
        BY <4>5, <4>8, <4>9, Zenon
      <4>13. SlotOrder => Rising(Append(v, td))
        BY <4>4, <4>12, RisingAppended
      <4>14. SlotOrder => Rising(u)
        BY <4>9, <4>13, Zenon
      <4>11. Is(k + 1)
        BY <4>2, <4>4, <4>6, <4>7, <4>10, <4>14
      <4> HIDE DEF Is
      <4> QED BY <3>1, <4>11
    <3> QED BY <3>7, <3>8
  <2> HIDE DEF Done
  <2>8. n \in Done
    <3>1. \A k \in 0 .. n : k \in Done
      BY <2>3, <2>6, <2>7, UpTo
    <3> QED BY <2>3, <3>1
  <2>9. Is(n)
    BY <2>8 DEF Done
  <2>10. Up(n) \subseteq InSlots /\ (WindowInv => Up(n) = InSlots)
    BY <1>3, <2>2 DEF WindowInv
  <2>11. TDsOf(Up(n)) \subseteq SlotTDs /\ TDsOf(InSlots) = SlotTDs
    BY DEF SlotTDs
  <2>12. Len(Window) \in Nat
    BY <2>4, <2>9, LenProperties
  <2> HIDE DEF Up, TDsOf
  <2> QED BY <2>4, <2>9, <2>10, <2>11, <2>12
<1> QED BY <1>2, <1>3

-----------------------------------------------------------------------------
(* Chain and queues.                                                       *)

\* A sequence is one of any set that has its elements.
LEMMA SeqOfSet ==
  ASSUME NEW S, NEW T, NEW s \in Seq(S), ToSet(s) \subseteq T
  PROVE  s \in Seq(T)
<1>1. Len(s) \in Nat /\ s \in [1 .. Len(s) -> S] /\ DOMAIN s = 1 .. Len(s)
  BY LenProperties
<1>2. \A i \in 1 .. Len(s) : s[i] \in T
  BY <1>1 DEF ToSet
<1>3. s \in [1 .. Len(s) -> T]
  BY <1>1, <1>2
<1> QED BY <1>1, <1>3, SeqDef

\* A sequence over a set is one over any wider set.
LEMMA WiderSeq ==
  ASSUME NEW S, NEW T, NEW s \in Seq(S), S \subseteq T
  PROVE  s \in Seq(T)
<1>1. ToSet(s) \subseteq S
  BY LenProperties, ElementOfSeq DEF ToSet
<1>2. ToSet(s) \subseteq T
  BY <1>1
<1> QED BY <1>2, SeqOfSet

\* A sequence the other way round.
LEMMA ReverseIs ==
  ASSUME NEW S, NEW s \in Seq(S)
  PROVE  /\ Reverse(s) \in Seq(S) /\ Len(Reverse(s)) = Len(s) /\ ToSet(Reverse(s)) = ToSet(s)
         /\ \A i \in 1 .. Len(s) : Reverse(s)[i] = s[Len(s) - i + 1]
<1>1. PICK n \in Nat : n = Len(s) /\ DOMAIN s = 1 .. n /\ \A i \in 1 .. n : s[i] \in S
  BY LenProperties, ElementOfSeq
<1>2. PICK r : r = [i \in 1 .. n |-> s[(n - i) + 1]]
  OBVIOUS
<1>3. Reverse(s) = r
  BY <1>1, <1>2 DEF Reverse
<1>4. \A i \in 1 .. n : (n - i) + 1 \in 1 .. n /\ (n - ((n - i) + 1)) + 1 = i
  BY <1>1
<1>5. r \in [1 .. n -> S] /\ \A i \in 1 .. n : r[i] = s[(n - i) + 1]
  BY <1>1, <1>2, <1>4
<1>6. r \in Seq(S) /\ Len(r) = n /\ DOMAIN r = 1 .. n
  <2>1. r \in Seq(S)
    BY <1>1, <1>5, SeqDef
  <2>2. DOMAIN r = 1 .. n /\ DOMAIN r = 1 .. Len(r) /\ Len(r) \in Nat
    BY <1>5, <2>1, LenProperties
  <2> QED BY <1>1, <2>1, <2>2
<1>7. \A i \in 1 .. n : s[i] = r[(n - i) + 1]
  BY <1>4, <1>5
<1>8. ToSet(r) = ToSet(s)
  <2>1. \A x \in ToSet(r) : x \in ToSet(s)
    BY <1>1, <1>4, <1>5, <1>6 DEF ToSet
  <2>2. \A x \in ToSet(s) : x \in ToSet(r)
    BY <1>1, <1>4, <1>6, <1>7 DEF ToSet
  <2> QED BY <2>1, <2>2
<1> QED BY <1>1, <1>3, <1>5, <1>6, <1>8

\* The TDs that the filter has published and that are not yet retired.
LEMMA ChainedIs ==
  ASSUME ChainTypes
  PROVE  /\ Chained \in Seq(Numbers) /\ Len(Chained) = producerCount - consumerCount /\ ToSet(Chained) = ChainTDs
         /\ SubSeq(savedDoneQueueHead, 1, producerCount - consumerCount) \in Seq(Numbers)
         /\ Len(SubSeq(savedDoneQueueHead, 1, producerCount - consumerCount)) = producerCount - consumerCount
         /\ ToSet(SubSeq(savedDoneQueueHead, 1, producerCount - consumerCount)) = ChainTDs
         /\ \A i \in 1 .. producerCount - consumerCount :
              Chained[i] = savedDoneQueueHead[(producerCount - consumerCount) - i + 1]
<1>1. PICK s \in Seq(Numbers) : s = savedDoneQueueHead /\ Len(s) = producerCount
  BY DEF ChainTypes
<1>2. PICK n \in 0 .. Len(s) : n = producerCount - consumerCount
  BY <1>1 DEF ChainTypes
<1>3. PICK c : c = SubSeq(s, 1, n)
  OBVIOUS
<1>4. c \in Seq(Numbers) /\ Len(c) = n /\ ToSet(c) = {s[i] : i \in 1 .. n} /\ \A i \in 1 .. n : c[i] = s[i]
  BY <1>3, CutInTwo
<1>5. /\ Reverse(c) \in Seq(Numbers) /\ Len(Reverse(c)) = Len(c) /\ ToSet(Reverse(c)) = ToSet(c)
      /\ \A i \in 1 .. Len(c) : Reverse(c)[i] = c[Len(c) - i + 1]
  BY <1>4, ReverseIs
<1>6. PICK d : d = Reverse(c)
  OBVIOUS
<1>7. d \in Seq(Numbers) /\ Len(d) = n /\ ToSet(d) = ToSet(c) /\ \A i \in 1 .. n : d[i] = c[n - i + 1]
  BY <1>4, <1>5, <1>6, Zenon
<1>8. Chained = d
  BY <1>1, <1>2, <1>3, <1>6 DEF Chained, Reversed
<1>9. ChainTDs = {s[i] : i \in 1 .. n}
  BY <1>1, <1>2 DEF ChainTDs
<1>10. \A i \in 1 .. n : n - i + 1 \in 1 .. n
  BY LenProperties
<1>11. \A i \in 1 .. n : d[i] = s[n - i + 1]
  BY <1>4, <1>7, <1>10
<1> HIDE DEF ChainTDs
<1> QED BY <1>1, <1>2, <1>3, <1>4, <1>7, <1>8, <1>9, <1>11

\* All TDs on the queues are known, and their frames are numbers.
LEMMA QueuesKnown ==
  ASSUME Base
  PROVE  /\ Queues \in QueuesOf(1 .. Len(frame)) /\ \A x \in 1 .. Len(frame) : frame[x] \in Nat
         /\ Queues.done = doneQueue /\ Queues.def = deferredQueue
         /\ 1 .. Sent \subseteq 1 .. Len(frame) /\ Sent \in Nat /\ Sent + Len(toDoList) = Len(frame)
         /\ ToSet(toDoList) = Sent + 1 .. Len(frame)
         /\ Len(frame) \in Nat /\ Len(toDoList) \in Nat
<1>1. PICK n \in Nat, m \in Nat : n = Len(frame) /\ m = Len(toDoList)
  BY LenProperties DEF Base, ListTypes
<1>2. \A x \in 1 .. n : frame[x] \in Nat
  BY <1>1, ElementOfSeq DEF Base, ListTypes
<1>3. m <= n /\ Sent = n - m
  BY <1>1 DEF Base, ListTypes, Sent
<1>4. 1 .. Sent \subseteq 1 .. n /\ Sent \in Nat
  BY <1>3
<1>5. ToSet(doneQueue) \subseteq 1 .. n /\ ToSet(deferredQueue) \subseteq 1 .. n
  BY <1>4 DEF Base, Places, Home
<1>6. doneQueue \in Seq(1 .. n) /\ deferredQueue \in Seq(1 .. n)
  BY <1>5, SeqOfSet DEF Base, ListTypes
<1>7. Queues \in QueuesOf(1 .. n) /\ Queues.done = doneQueue /\ Queues.def = deferredQueue
  BY <1>6 DEF Queues, QueuesOf
<1>8. ToSet(toDoList) = Sent + 1 .. n
  <2>1. DOMAIN toDoList = 1 .. m /\ \A j \in 1 .. m : toDoList[j] = Sent + j
    BY <1>1, LenProperties DEF Base, ListTypes
  <2>2. \A j \in 1 .. m : Sent + j \in Sent + 1 .. n
    BY <1>3
  <2>3. \A x \in Sent + 1 .. n : x - Sent \in 1 .. m /\ Sent + (x - Sent) = x
    BY <1>3, <1>4
  <2>4. \A x \in Sent + 1 .. n : x \in ToSet(toDoList)
    BY <2>1, <2>3 DEF ToSet
  <2>5. \A x \in ToSet(toDoList) : x \in Sent + 1 .. n
    BY <2>1, <2>2 DEF ToSet
  <2> QED BY <2>4, <2>5
<1> QED BY <1>1, <1>2, <1>3, <1>4, <1>7, <1>8

\* What ReturnIsochDoneQueue does not return stays deferred.
LEMMA ReturnKeeps ==
  ASSUME NEW q, NEW c, q \in QueuesOf(Numbers), returned \in Seq(Numbers), ReturnIsochDoneQueue(q, c)
  PROVE  /\ returned' \in Seq(Numbers) /\ doneQueue' \in Seq(Numbers) /\ deferredQueue' \in Seq(Numbers)
         /\ Home' = ToSet(returned) \cup ToSet(q.done) \cup ToSet(q.def)
         /\ AtHome' = Len(returned) + Len(q.done) + Len(q.def)
<1>1. PICK d \in Seq(Numbers), e \in Seq(Numbers) : d = q.done /\ e = q.def
  BY DEF QueuesOf
<1>2. PICK r : r = returned \o d
  OBVIOUS
<1>3. r \in Seq(Numbers) /\ Len(r) = Len(returned) + Len(d) /\ ToSet(r) = ToSet(returned) \cup ToSet(d)
  <2>1. /\ returned \o d \in Seq(Numbers) /\ Len(returned \o d) = Len(returned) + Len(d)
        /\ ToSet(returned \o d) = ToSet(returned) \cup ToSet(d)
    BY <1>1, JoinHas
  <2> QED BY <1>2, <2>1, Zenon
<1>4. <<>> \in Seq(Numbers) /\ Len(<<>>) = 0 /\ ToSet(<<>>) = {}
  BY DEF ToSet
<1>5. PICK left \in {e, <<>>} : returned' = r \o left /\ doneQueue' = <<>> /\ deferredQueue' = IF left = <<>> THEN e ELSE <<>>
  BY <1>1, <1>2 DEF ReturnIsochDoneQueue
<1>6. PICK b : b = r \o left
  OBVIOUS
<1>7. b \in Seq(Numbers) /\ Len(b) = Len(r) + Len(left) /\ ToSet(b) = ToSet(r) \cup ToSet(left)
  <2>1. left \in Seq(Numbers) /\ r \in Seq(Numbers)
    BY <1>1, <1>3, <1>4, <1>5
  <2>2. /\ r \o left \in Seq(Numbers) /\ Len(r \o left) = Len(r) + Len(left)
        /\ ToSet(r \o left) = ToSet(r) \cup ToSet(left)
    BY <2>1, JoinHas
  <2> QED BY <1>6, <2>2, Zenon
<1>8. PICK f : f = deferredQueue'
  OBVIOUS
<1>9. f \in Seq(Numbers) /\ ToSet(left) \cup ToSet(f) = ToSet(e) /\ Len(left) + Len(f) = Len(e)
  BY <1>1, <1>4, <1>5, <1>8, LenProperties
<1>10. Home' = ToSet(b) \cup ToSet(<<>>) \cup ToSet(f) /\ AtHome' = Len(b) + Len(<<>>) + Len(f)
  BY <1>5, <1>6, <1>8, Zenon DEF Home, AtHome
<1>11. Home' = ToSet(returned) \cup ToSet(d) \cup ToSet(e)
  BY <1>3, <1>4, <1>7, <1>9, <1>10, Zenon
<1>12. PICK lr \in Nat, ld \in Nat, ll \in Nat, lf \in Nat, le \in Nat :
         lr = Len(returned) /\ ld = Len(d) /\ ll = Len(left) /\ lf = Len(f) /\ le = Len(e)
  BY <1>1, <1>4, <1>5, <1>9, LenProperties
<1>13. Len(b) = lr + ld + ll /\ ll + lf = le /\ AtHome' = Len(b) + 0 + lf
  BY <1>3, <1>4, <1>7, <1>9, <1>10, <1>12, Zenon
<1>14. AtHome' = lr + ld + le
  BY <1>13
<1> QED BY <1>1, <1>4, <1>5, <1>6, <1>7, <1>8, <1>9, <1>11, <1>12, <1>14

-----------------------------------------------------------------------------
(* The steps keep the invariant.                                           *)

\* The invariant holds at first.
LEMMA InitLost == Init => Base /\ LostInv
<1> SUFFICES ASSUME Init PROVE Base /\ LostInv
  OBVIOUS
<1>1. <<>> \in Seq(Numbers) /\ <<>> \in Seq(Nat) /\ Len(<<>>) = 0 /\ ToSet(<<>>) = {}
  BY DEF ToSet
<1>2. /\ toDoList = <<>> /\ doneQueue = <<>> /\ deferredQueue = <<>> /\ returned = <<>> /\ frame = <<>>
      /\ savedDoneQueueHead = <<>> /\ producerCount = 0 /\ consumerCount = 0 /\ fpc = "idle" /\ gpc = "idle"
      /\ stopping = FALSE /\ inSlot = Unset /\ outSlot = Unset /\ scheduledTDs = 0
      /\ tdSlots = [s \in SlotNumbers |-> 0]
  BY DEF Init, SlotNumbers, Free
<1>3. ListTypes /\ SlotTypes /\ ChainTypes /\ FilterTypes /\ GateTypes
  BY <1>1, <1>2 DEF ListTypes, SlotTypes, ChainTypes, FilterTypes, GateTypes
<1>4. InSlots = {} /\ Cardinality(InSlots) = 0
  BY <1>2, FS_EmptySet DEF InSlots, Free
<1>5. Sent = 0 /\ Fresh = 0 /\ AtHome = 0
  BY <1>1, <1>2 DEF Sent, Fresh, AtHome
<1>6. Home = {} /\ ChainTDs = {} /\ TakenTDs = {} /\ SlotTDs = {}
  BY <1>1, <1>2, <1>4, <1>5 DEF Home, ChainTDs, TakenTDs, SlotTDs
<1>7. ~Used(outSlot)
  BY <1>2, Slots DEF Used
<1>8. WindowInv
  BY <1>2, <1>4, <1>7 DEF WindowInv
<1>9. PlaceInv
  BY <1>2, <1>5 DEF PlaceInv
<1> QED BY <1>3, <1>6, <1>8, <1>9 DEF Base, LostInv, Places

keptVars == <<toDoList, doneQueue, deferredQueue, returned, frame, tdSlots, inSlot, outSlot, scheduledTDs,
              savedDoneQueueHead, producerCount, consumerCount, fpc, testSlot, stopSlot, pCachedHead,
              cachedProducer>>

\* Steps that neither move TDs nor touch the slots.
LEMMA ElsewhereKeeps ==
  ASSUME Base, LostInv, UNCHANGED keptVars, upset \subseteq upset', GateTypes', fpc = "scan" => tdsScheduled'
  PROVE  Base' /\ LostInv'
<1>1. ListTypes' /\ SlotTypes' /\ ChainTypes'
  BY DEF Base, ListTypes, SlotTypes, ChainTypes, keptVars, Sent
<1>2. FilterTypes'
  BY DEF Base, FilterTypes, keptVars
<1>3. Sent' = Sent /\ Fresh' = Fresh /\ AtHome' = AtHome /\ Home' = Home /\ ChainTDs' = ChainTDs
  BY DEF Sent, Fresh, AtHome, Home, ChainTDs, keptVars
<1>4. InSlots' = InSlots /\ \A s : Off(s)' = Off(s)
  BY DEF InSlots, Off, keptVars
<1>5. TakenTDs' = TakenTDs
  BY <1>3 DEF TakenTDs, keptVars
<1>6. SlotTDs' = SlotTDs
  BY <1>4 DEF SlotTDs, keptVars
<1>7. Places' = Places
  BY <1>3, <1>5, <1>6 DEF Places
<1>8. PlaceInv => PlaceInv'
  BY <1>3, <1>7 DEF PlaceInv, keptVars
<1>9. WindowInv => WindowInv'
  BY <1>4 DEF WindowInv, keptVars
<1> QED BY <1>1, <1>2, <1>3, <1>7, <1>8, <1>9 DEF Base, LostInv

\* A request.
LEMMA RequestKeeps ==
  ASSUME Base, LostInv, UIMCreateIsochTransfer
  PROVE  Base' /\ LostInv' /\ Sent' = Sent
<1>1. PICK n \in 1 .. MaxPerRequest, gap \in BOOLEAN, refused \in BOOLEAN :
        /\ frame' = frame \o [j \in 1 .. n |-> FirstFrame + (IF gap THEN 1 ELSE 0) + j - 1]
        /\ toDoList' = toDoList \o [j \in 1 .. n |-> Len(frame) + j]
        /\ gpc' = IF refused THEN "idle" ELSE "add"
        /\ upset \subseteq upset'
  BY DEF UIMCreateIsochTransfer, Upset
<1>2. /\ GateFree /\ UNCHANGED <<doneQueue, deferredQueue, returned, tdSlots, inSlot, outSlot, scheduledTDs, savedDoneQueueHead,
             producerCount, consumerCount, fpc, testSlot, stopSlot, pCachedHead, cachedProducer, tdsScheduled, stopping>>
  BY DEF UIMCreateIsochTransfer, slotVars, schedVars, chainVars, filterVars
<1>3. PICK lf \in Nat, lt \in Nat : lf = Len(frame) /\ lt = Len(toDoList) /\ lt <= lf
  BY LenProperties DEF Base, ListTypes
<1>4. n \in Nat /\ n >= 1
  BY BoundsAssumption
<1>5. PICK g, a : /\ g = [j \in 1 .. n |-> FirstFrame + (IF gap THEN 1 ELSE 0) + j - 1]
                  /\ a = [j \in 1 .. n |-> lf + j]
  OBVIOUS
<1>6. g \in Seq(Nat) /\ Len(g) = n
  <2>1. FirstFrame \in Nat /\ FirstFrame >= 1
    <3>1. frame # <<>> => frame[Len(frame)] \in Nat
      BY EmptySeq, ElementOfSeq, <1>3 DEF Base, ListTypes
    <3> QED BY <3>1 DEF FirstFrame
  <2>2. PICK f \in Nat : f = FirstFrame + (IF gap THEN 1 ELSE 0) /\ f >= 1
    BY <2>1
  <2>3. g = [j \in 1 .. n |-> f + j - 1]
    BY <1>5, <2>2
  <2>4. \A j \in 1 .. n : f + j - 1 \in Nat
    BY <1>4, <2>2
  <2>5. g \in [1 .. n -> Nat]
    BY <2>3, <2>4
  <2>6. g \in Seq(Nat)
    BY <1>4, <2>5, SeqDef
  <2>7. DOMAIN g = 1 .. n /\ DOMAIN g = 1 .. Len(g) /\ Len(g) \in Nat
    BY <2>5, <2>6, LenProperties
  <2> QED BY <1>4, <2>6, <2>7
<1>7. a \in Seq(Numbers) /\ Len(a) = n /\ \A j \in 1 .. n : a[j] = lf + j
  <2>1. a \in [1 .. n -> Numbers]
    BY <1>3, <1>4, <1>5 DEF Numbers
  <2>2. a \in Seq(Numbers)
    BY <1>4, <2>1, SeqDef
  <2>3. DOMAIN a = 1 .. n /\ DOMAIN a = 1 .. Len(a) /\ Len(a) \in Nat
    BY <2>1, <2>2, LenProperties
  <2> QED BY <1>4, <1>5, <2>2, <2>3
<1>8. frame' \in Seq(Nat) /\ Len(frame') = lf + n
  <2>1. frame \in Seq(Nat)
    BY DEF Base, ListTypes
  <2>2. frame \o g \in Seq(Nat) /\ Len(frame \o g) = Len(frame) + Len(g)
    BY <1>6, <2>1, JoinHas
  <2> QED BY <1>1, <1>3, <1>5, <1>6, <2>2, Zenon
<1>9. /\ toDoList' \in Seq(Numbers) /\ Len(toDoList') = lt + n
      /\ \A j \in 1 .. lt : toDoList'[j] = toDoList[j]
      /\ \A j \in 1 .. n : toDoList'[lt + j] = lf + j
  <2>1. toDoList \in Seq(Numbers) /\ a \in Seq(Numbers)
    BY <1>7 DEF Base, ListTypes
  <2>2. /\ toDoList \o a \in Seq(Numbers) /\ Len(toDoList \o a) = Len(toDoList) + Len(a)
        /\ \A i \in 1 .. Len(toDoList) : (toDoList \o a)[i] = toDoList[i]
        /\ \A i \in 1 .. Len(a) : (toDoList \o a)[Len(toDoList) + i] = a[i]
    BY <2>1, Concatenated
  <2>3. toDoList' = toDoList \o a
    BY <1>1, <1>3, <1>5
  <2> QED BY <1>3, <1>7, <2>2, <2>3
<1>10. Sent' = Sent /\ Sent = lf - lt
  BY <1>3, <1>4, <1>8, <1>9 DEF Sent
<1>11. ListTypes'
  <2>1. \A j \in 1 .. lt + n : j \in 1 .. lt \/ (j - lt \in 1 .. n /\ lt + (j - lt) = j)
    BY <1>3, <1>4
  <2>2. \A j \in 1 .. lt : toDoList'[j] = Sent + j
    BY <1>3, <1>9 DEF Base, ListTypes
  <2>3. ASSUME NEW j \in 1 .. lt + n, j - lt \in 1 .. n PROVE toDoList'[j] = Sent + j
    <3>1. toDoList'[lt + (j - lt)] = lf + (j - lt)
      BY <1>9, <2>3
    <3>2. lt + (j - lt) = j /\ lf + (j - lt) = Sent + j
      BY <1>3, <1>4, <1>10
    <3> QED BY <3>1, <3>2
  <2>4. \A j \in 1 .. lt + n : toDoList'[j] = Sent + j
    BY <2>1, <2>2, <2>3
  <2>5. Len(toDoList') <= Len(frame')
    BY <1>3, <1>4, <1>8, <1>9
  <2> QED BY <1>2, <1>8, <1>9, <1>10, <2>4, <2>5 DEF Base, ListTypes
<1>12. SlotTypes' /\ ChainTypes' /\ FilterTypes'
  BY <1>2 DEF Base, SlotTypes, ChainTypes, FilterTypes
<1>13. GateTypes'
  BY <1>1, <1>2 DEF Base, GateTypes, GateFree
<1>14. Fresh' = Fresh /\ AtHome' = AtHome /\ Home' = Home /\ ChainTDs' = ChainTDs
       /\ InSlots' = InSlots /\ \A s : Off(s)' = Off(s)
  BY <1>2 DEF Fresh, AtHome, Home, ChainTDs, InSlots, Off
<1>15. TakenTDs' = TakenTDs /\ SlotTDs' = SlotTDs
  BY <1>2, <1>14 DEF TakenTDs, SlotTDs
<1>16. Places' = Places
  BY <1>14, <1>15 DEF Places
<1>17. PlaceInv => PlaceInv'
  BY <1>2, <1>10, <1>14, <1>16 DEF PlaceInv
<1>18. WindowInv => WindowInv'
  BY <1>2, <1>14 DEF WindowInv
<1> QED BY <1>1, <1>10, <1>11, <1>12, <1>13, <1>16, <1>17, <1>18 DEF Base, LostInv

\* Scheduling that puts no TD into a slot, an abort's beginning, and what the xHC does.
LEMMA OthersKeep ==
  ASSUME Base, LostInv,
         \/ AddNothing \/ AddDelayed \/ AddNoRoom \/ AddToRing \/ AddStart \/ AddMark \/ Abort \/ FilterPass
         \/ Xhc \/ HwPart \/ HwMiss
  PROVE  Base' /\ LostInv'
<1>1. UNCHANGED keptVars
  BY DEF AddNothing, AddDelayed, AddNoRoom, AddToRing, AddStart, AddMark, Abort, FilterPass, Xhc, HwTransfer,
         HwUnderrun, HwPart, HwMiss, keptVars, listVars, slotVars, schedVars, chainVars, tdVars, filterVars, gateVars,
         hwVars, histVars
<1>2. upset \subseteq upset'
  BY DEF AddNothing, AddDelayed, AddNoRoom, AddToRing, AddStart, AddMark, Abort, FilterPass, Xhc, HwTransfer,
         HwUnderrun, HwPart, HwMiss, histVars, Upset
<1>3. GateTypes'
  <2>1. CASE AddNothing \/ AddDelayed \/ AddNoRoom \/ AddStart \/ AddMark
    <3>1. gpc # "idle" /\ gpc' \in {"idle", "start", "mark"} /\ stopping' = stopping
      BY <2>1 DEF AddNothing, AddDelayed, AddNoRoom, AddStart, AddMark
    <3> QED BY <3>1 DEF Base, GateTypes
  <2>2. CASE AddToRing
    <3>1. gpc = "lay" /\ gpc' = (IF toDoList = <<>> THEN "start" ELSE "slots") /\ UNCHANGED <<stopping, toDoList, inSlot>>
      BY <2>2 DEF AddToRing, listVars, slotVars
    <3> QED BY <3>1 DEF Base, GateTypes, Used
  <2>3. CASE Abort
    <3>1. gpc = "idle" /\ gpc' = gpc
      BY <2>3 DEF Abort, GateFree
    <3> QED BY <3>1 DEF GateTypes
  <2>4. CASE FilterPass \/ Xhc \/ HwPart \/ HwMiss
    <3>1. UNCHANGED <<gpc, stopping, toDoList, inSlot>>
      BY <2>4 DEF FilterPass, Xhc, HwTransfer, HwUnderrun, HwPart, HwMiss, listVars, slotVars, gateVars
    <3> QED BY <3>1 DEF Base, GateTypes, Used
  <2> QED BY <2>1, <2>2, <2>3, <2>4
<1>4. fpc = "scan" => tdsScheduled'
  BY DEF AddNothing, AddDelayed, AddNoRoom, AddToRing, AddStart, AddMark, Abort, FilterPass, Xhc, HwTransfer,
         HwUnderrun, HwPart, HwMiss, schedVars, Base, FilterTypes
<1> QED BY <1>1, <1>2, <1>3, <1>4, ElsewhereKeeps

\* The head of the to-do list is the next TD.
LEMMA NextToDo ==
  ASSUME Base, toDoList # <<>>
  PROVE  /\ Head(toDoList) = Sent + 1 /\ Tail(toDoList) \in Seq(Numbers) /\ Sent + 1 \in Numbers
         /\ Sent + 1 \in 1 .. Len(frame)
         /\ Len(Tail(toDoList)) + 1 = Len(toDoList)
         /\ \A j \in 1 .. Len(Tail(toDoList)) : Tail(toDoList)[j] = Sent + 1 + j
<1>1. PICK s \in Seq(Numbers), l \in Nat, lf \in Nat :
        s = toDoList /\ l = Len(s) /\ lf = Len(frame) /\ Sent = lf - l /\ l <= lf /\ \A j \in 1 .. l : s[j] = Sent + j
  BY LenProperties DEF Base, ListTypes, Sent
<1>2. s # <<>> /\ l >= 1
  BY <1>1, EmptySeq
<1>3. /\ Head(s) = s[1] /\ Tail(s) \in Seq(Numbers) /\ Len(Tail(s)) = l - 1
      /\ \A j \in 1 .. l - 1 : Tail(s)[j] = s[j + 1]
  BY <1>1, <1>2, HeadTailProperties
<1>4. Sent \in Nat /\ Sent + 1 \in 1 .. lf
  BY <1>1, <1>2
<1>5. \A j \in 1 .. l - 1 : j + 1 \in 1 .. l /\ Sent + (j + 1) = Sent + 1 + j
  BY <1>1, <1>4
<1>6. \A j \in 1 .. l - 1 : Tail(s)[j] = Sent + 1 + j
  BY <1>1, <1>3, <1>5
<1>7. Head(s) = Sent + 1
  BY <1>1, <1>2, <1>3
<1> QED BY <1>1, <1>2, <1>3, <1>4, <1>6, <1>7 DEF Numbers

\* What taking the head off the to-do list does to it.
LEMMA TakesNext ==
  ASSUME Base, toDoList # <<>>, toDoList' = Tail(toDoList), frame' = frame
  PROVE  /\ Sent' = Sent + 1 /\ toDoList' \in Seq(Numbers) /\ frame' \in Seq(Nat) /\ Len(toDoList') <= Len(frame')
         /\ \A j \in 1 .. Len(toDoList') : toDoList'[j] = Sent' + j
         /\ 1 .. Sent + 1 = 1 .. Sent \cup {Sent + 1}
<1>1. PICK l \in Nat, lf \in Nat, lt \in Nat :
        l = Len(toDoList) /\ lf = Len(frame) /\ lt = Len(Tail(toDoList)) /\ l <= lf /\ Sent = lf - l
  BY NextToDo, LenProperties DEF Base, ListTypes, Sent
<1>2. lt + 1 = l
  BY <1>1, NextToDo
<1>3. Sent' = lf - lt
  BY <1>1 DEF Sent
<1>4. lf - lt = Sent + 1 /\ lt <= lf /\ Sent \in Nat
  BY <1>1, <1>2
<1>5. 1 .. Sent + 1 = 1 .. Sent \cup {Sent + 1}
  BY <1>4
<1>6. Sent' = Sent + 1
  BY <1>3, <1>4
<1> QED BY <1>1, <1>4, <1>5, <1>6, NextToDo DEF Base, ListTypes

\* A late TD goes to the deferred or on the done queue.
LEMMA LateKeeps ==
  ASSUME Base, LostInv, AddLate
  PROVE  Base' /\ LostInv'
<1>1. /\ toDoList # <<>> /\ toDoList' = Tail(toDoList) /\ gpc = "add"
      /\ UNCHANGED <<returned, frame, tdSlots, inSlot, outSlot, scheduledTDs, savedDoneQueueHead, producerCount,
                     consumerCount, fpc, testSlot, stopSlot, pCachedHead, cachedProducer, tdsScheduled, stopping>>
      /\ gpc' \in {"idle", "start", "add"}
      /\ upset \subseteq upset'
      /\ \/ deferredQueue' = Append(deferredQueue, Head(toDoList)) /\ doneQueue' = doneQueue
         \/ LET q == PutTDonDoneQueue(Queues, Head(toDoList)) IN doneQueue' = q.done /\ deferredQueue' = q.def
  BY DEF AddLate, slotVars, schedVars, chainVars, filterVars
<1>2. PICK td : td = Head(toDoList)
  OBVIOUS
<1>3. td = Sent + 1 /\ td \in Numbers /\ td \in 1 .. Len(frame)
  BY <1>1, <1>2, NextToDo
<1>4. /\ Sent' = Sent + 1 /\ toDoList' \in Seq(Numbers) /\ frame' \in Seq(Nat) /\ Len(toDoList') <= Len(frame')
      /\ \A j \in 1 .. Len(toDoList') : toDoList'[j] = Sent' + j
      /\ 1 .. Sent + 1 = 1 .. Sent \cup {Sent + 1}
  BY <1>1, TakesNext
<1>5. PICK ld \in Nat, le \in Nat, lr \in Nat : ld = Len(doneQueue) /\ le = Len(deferredQueue) /\ lr = Len(returned)
  BY LenProperties DEF Base, ListTypes
<1>6. /\ doneQueue' \in Seq(Numbers) /\ deferredQueue' \in Seq(Numbers)
      /\ ToSet(doneQueue') \cup ToSet(deferredQueue') = ToSet(doneQueue) \cup ToSet(deferredQueue) \cup {td}
      /\ Len(doneQueue') + Len(deferredQueue') = ld + le + 1
  <2>1. CASE deferredQueue' = Append(deferredQueue, td) /\ doneQueue' = doneQueue
    <3>1. deferredQueue \in Seq(Numbers) /\ td \in Numbers
      BY <1>3 DEF Base, ListTypes
    <3>2. /\ Append(deferredQueue, td) \in Seq(Numbers) /\ Len(Append(deferredQueue, td)) = Len(deferredQueue) + 1
          /\ ToSet(Append(deferredQueue, td)) = ToSet(deferredQueue) \cup {td}
      BY <3>1, AppendHas
    <3>3. PICK e : e = deferredQueue'
      OBVIOUS
    <3>4. e \in Seq(Numbers) /\ Len(e) = le + 1 /\ ToSet(e) = ToSet(deferredQueue) \cup {td}
      BY <1>5, <2>1, <3>2, <3>3, Zenon
    <3>5. ld + (le + 1) = ld + le + 1
      OBVIOUS
    <3> QED BY <1>5, <2>1, <3>3, <3>4, <3>5 DEF Base, ListTypes
  <2>2. CASE LET q == PutTDonDoneQueue(Queues, td) IN doneQueue' = q.done /\ deferredQueue' = q.def
    <3>1. Queues \in QueuesOf(1 .. Len(frame)) /\ \A x \in 1 .. Len(frame) : frame[x] \in Nat
      BY QueuesKnown
    <3>2. OnePut(1 .. Len(frame), Queues, td, PutTDonDoneQueue(Queues, td))
      BY <1>3, <3>1, PutOneKeeps
    <3>3. PICK q : q = PutTDonDoneQueue(Queues, td)
      OBVIOUS
    <3>4. OnePut(1 .. Len(frame), Queues, td, q) /\ doneQueue' = q.done /\ deferredQueue' = q.def
      BY <2>2, <3>2, <3>3, Zenon
    <3>5. q \in QueuesOf(1 .. Len(frame))
      BY <3>4 DEF OnePut
    <3>6. q.done \in Seq(Numbers) /\ q.def \in Seq(Numbers)
      <4>1. q.done \in Seq(1 .. Len(frame)) /\ q.def \in Seq(1 .. Len(frame)) /\ 1 .. Len(frame) \subseteq Numbers
        BY <3>5 DEF QueuesOf, Numbers
      <4> QED BY <4>1, WiderSeq
    <3>7. /\ Len(q.done) + Len(q.def) = ld + le + 1
          /\ ToSet(q.done) \cup ToSet(q.def) = ToSet(doneQueue) \cup ToSet(deferredQueue) \cup {td}
      BY <1>5, <3>4, QueuesKnown DEF OnePut
    <3> QED BY <3>4, <3>6, <3>7
  <2> QED BY <1>1, <1>2, <2>1, <2>2
<1>7. ListTypes'
  BY <1>1, <1>4, <1>6 DEF Base, ListTypes
<1>8. SlotTypes' /\ ChainTypes' /\ FilterTypes' /\ GateTypes'
  BY <1>1 DEF Base, SlotTypes, ChainTypes, FilterTypes, GateTypes
<1>9. Fresh' = Fresh /\ ChainTDs' = ChainTDs /\ InSlots' = InSlots /\ \A s : Off(s)' = Off(s)
  BY <1>1 DEF Fresh, ChainTDs, InSlots, Off
<1>10. TakenTDs' = TakenTDs /\ SlotTDs' = SlotTDs
  BY <1>1, <1>9 DEF TakenTDs, SlotTDs
<1>11. Home' = Home \cup {td}
  BY <1>1, <1>6 DEF Home
<1>12. Places' = Places \cup {td}
  BY <1>9, <1>10, <1>11 DEF Places
<1>13. AtHome' = AtHome + 1 /\ AtHome \in Nat
  <2>1. PICK sum : sum = Len(doneQueue') + Len(deferredQueue')
    OBVIOUS
  <2>2. PICK a \in Nat, b \in Nat : a = Len(doneQueue') /\ b = Len(deferredQueue')
    BY <1>6, LenProperties
  <2>3. a + b = ld + le + 1
    BY <1>6, <2>2
  <2>4. lr + a + b = (lr + ld + le) + 1
    BY <2>3
  <2> QED BY <1>1, <1>5, <2>2, <2>4 DEF AtHome
<1>14. Places' \subseteq 1 .. Sent'
  BY <1>3, <1>4, <1>12 DEF Base
<1>15. PlaceInv => PlaceInv'
  <2> SUFFICES ASSUME PlaceInv PROVE PlaceInv'
    OBVIOUS
  <2>1. 1 .. Sent' \subseteq Places'
    BY <1>3, <1>4, <1>12 DEF PlaceInv
  <2>2. PICK a \in Nat, c \in Int, f \in Int, n \in Int, sent \in Int :
          a = AtHome /\ c = producerCount - consumerCount /\ f = Fresh /\ n = scheduledTDs /\ sent = Sent
    <3>1. producerCount - consumerCount \in Int /\ scheduledTDs \in Int /\ Sent \in Int
      BY QueuesKnown DEF Base, ChainTypes, SlotTypes
    <3>2. Fresh \in Int
      BY DEF Base, ChainTypes, FilterTypes, Fresh
    <3> QED BY <1>13, <3>1, <3>2
  <2>3. a + c + f + n = sent
    BY <2>2 DEF PlaceInv
  <2>4. (a + 1) + c + f + n = sent + 1
    BY <2>3
  <2> QED BY <1>1, <1>4, <1>9, <1>13, <2>1, <2>2, <2>4 DEF PlaceInv
<1>16. WindowInv => WindowInv'
  BY <1>1, <1>9 DEF WindowInv
<1> QED BY <1>1, <1>7, <1>8, <1>14, <1>15, <1>16 DEF Base, LostInv

\* Scheduling begins: slot 0 is the first of an endpoint that uses none.
LEMMA BeginKeeps ==
  ASSUME Base, LostInv, AddBegin
  PROVE  Base' /\ LostInv'
<1>1. /\ toDoList # <<>> /\ inSlot' = (IF Used(inSlot) THEN inSlot ELSE 0) /\ gpc = "add"
      /\ UNCHANGED <<toDoList, doneQueue, deferredQueue, returned, frame, tdSlots, outSlot, scheduledTDs, savedDoneQueueHead,
                     producerCount, consumerCount, fpc, testSlot, stopSlot, pCachedHead, cachedProducer, tdsScheduled,
                     stopping, upset>>
  BY DEF AddBegin, listVars, schedVars, chainVars, tdVars, filterVars, histVars
<1>2. 0 \in SlotNumbers
  BY Slots DEF SlotNumbers
<1>3. ListTypes' /\ SlotTypes' /\ ChainTypes' /\ FilterTypes'
  BY <1>1, <1>2 DEF Base, ListTypes, SlotTypes, ChainTypes, FilterTypes, Sent
<1>4. Used(inSlot')
  BY <1>1, Slots DEF Used
<1>5. GateTypes'
  BY <1>1, <1>4 DEF Base, GateTypes, Used
<1>6. Sent' = Sent /\ Fresh' = Fresh /\ AtHome' = AtHome /\ Home' = Home /\ ChainTDs' = ChainTDs
      /\ InSlots' = InSlots /\ \A s : Offset(outSlot', s) = Off(s)
  BY <1>1 DEF Sent, Fresh, AtHome, Home, ChainTDs, InSlots, Off
<1>7. TakenTDs' = TakenTDs /\ SlotTDs' = SlotTDs
  BY <1>1, <1>6 DEF TakenTDs, SlotTDs
<1>8. Places' = Places
  BY <1>6, <1>7 DEF Places
<1>9. PlaceInv => PlaceInv'
  BY <1>1, <1>6, <1>8 DEF PlaceInv
<1>10. WindowInv => WindowInv'
  <2> SUFFICES ASSUME WindowInv PROVE WindowInv'
    OBVIOUS
  <2>1. CASE Used(outSlot)
    <3>1. inSlot' = inSlot
      BY <1>1, <2>1 DEF WindowInv
    <3> QED BY <1>1, <1>6, <2>1, <3>1 DEF WindowInv, Off
  <2>2. CASE ~Used(outSlot)
    <3>1. fpc = "idle" /\ InSlots = {} /\ ~Used(outSlot') /\ inSlot' \in {0, Unset}
      BY <1>1, <2>2, Slots DEF WindowInv, Used
    <3> QED BY <1>1, <1>6, <3>1 DEF WindowInv
  <2> QED BY <2>1, <2>2
<1> QED BY <1>1, <1>3, <1>5, <1>6, <1>8, <1>9, <1>10 DEF Base, LostInv

\* The next TD goes into the slot at inSlot, which is free and does not meet outSlot.
LEMMA SlotKeeps ==
  ASSUME Base, LostInv, AddToSlot
  PROVE  Base' /\ LostInv'
<1>1. /\ toDoList' = Tail(toDoList) /\ gpc = "slots" /\ gpc' = "lay" /\ inSlot # outSlot /\ ~SlotsFull
      /\ tdSlots' = [tdSlots EXCEPT ![inSlot] = Head(toDoList)]
      /\ outSlot' = (IF Used(outSlot) THEN outSlot ELSE 0)
      /\ inSlot' = NextSlot(inSlot) /\ scheduledTDs' = scheduledTDs + 1
      /\ UNCHANGED <<doneQueue, deferredQueue, returned, frame, savedDoneQueueHead,
                     producerCount, consumerCount, fpc, testSlot, stopSlot, pCachedHead, cachedProducer, tdsScheduled,
                     stopping, upset>>
  BY DEF AddToSlot, chainVars, tdVars, filterVars, histVars
<1>2. toDoList # <<>> /\ Used(inSlot)
  BY <1>1 DEF Base, GateTypes
<1>3. PICK td : td = Head(toDoList)
  OBVIOUS
<1>4. td = Sent + 1 /\ td \in Numbers /\ td \in Nat /\ td # 0
  BY <1>2, <1>3, NextToDo DEF Numbers
<1>5. /\ Sent' = Sent + 1 /\ toDoList' \in Seq(Numbers) /\ frame' \in Seq(Nat) /\ Len(toDoList') <= Len(frame')
      /\ \A j \in 1 .. Len(toDoList') : toDoList'[j] = Sent' + j
      /\ 1 .. Sent + 1 = 1 .. Sent \cup {Sent + 1}
  BY <1>1, <1>2, TakesNext
<1>6. PICK i \in SlotNumbers : i = inSlot
  BY <1>2, UsedIs DEF Base, SlotTypes
<1>7. tdSlots \in [SlotNumbers -> Nat] /\ tdSlots' = [tdSlots EXCEPT ![i] = td]
  BY <1>1, <1>3, <1>6 DEF Base, SlotTypes
<1>8. /\ tdSlots' \in [SlotNumbers -> Nat] /\ tdSlots'[i] = td
      /\ \A s \in SlotNumbers : s # i => tdSlots'[s] = tdSlots[s]
  BY <1>4, <1>7
<1>9. PICK n \in SlotNumbers : n = NextSlot(i) /\ inSlot' = n
  BY <1>1, <1>6, NextIs
<1>10. n # outSlot /\ tdSlots[i] = 0
  BY <1>1, <1>6, <1>9 DEF SlotsFull, Free
<1>11. PICK o \in SlotNumbers : o = outSlot' /\ (Used(outSlot) => o = outSlot)
  <2>1. 0 \in SlotNumbers
    BY Slots DEF SlotNumbers
  <2> QED BY <1>1, <2>1, UsedIs DEF Base, SlotTypes
<1>12. ListTypes' /\ ChainTypes' /\ FilterTypes'
  BY <1>1, <1>5 DEF Base, ListTypes, ChainTypes, FilterTypes
<1>13. SlotTypes'
  BY <1>1, <1>8, <1>9, <1>11 DEF Base, SlotTypes
<1>14. Used(inSlot') /\ Used(outSlot')
  BY <1>9, <1>11, Slots DEF Used, SlotNumbers
<1>15. GateTypes'
  BY <1>1, <1>14 DEF Base, GateTypes, Used
<1>16. Fresh' = Fresh /\ AtHome' = AtHome /\ Home' = Home /\ ChainTDs' = ChainTDs
  BY <1>1 DEF Fresh, AtHome, Home, ChainTDs
<1>17. TakenTDs' = TakenTDs
  BY <1>1, <1>16 DEF TakenTDs
<1>18. i \notin InSlots /\ InSlots' = InSlots \cup {i} /\ i \in InSlots'
  <2>1. DOMAIN tdSlots = SlotNumbers /\ DOMAIN tdSlots' = SlotNumbers
    BY <1>7, <1>8
  <2> QED BY <1>4, <1>8, <1>10, <2>1 DEF InSlots, Free
<1>19. SlotTDs' = SlotTDs \cup {td}
  <2>1. InSlots \subseteq SlotNumbers
    BY InSlotsFinite DEF Base
  <2>2. SlotTDs' = {tdSlots'[s] : s \in InSlots'}
    BY DEF SlotTDs
  <2>3. \A s \in InSlots : tdSlots'[s] = tdSlots[s]
    BY <1>8, <1>18, <2>1
  <2> QED BY <1>8, <1>18, <2>2, <2>3 DEF SlotTDs
<1>20. Places' = Places \cup {td}
  BY <1>16, <1>17, <1>19 DEF Places
<1>21. Places' \subseteq 1 .. Sent'
  BY <1>4, <1>5, <1>20 DEF Base
<1>22. PlaceInv => PlaceInv'
  <2> SUFFICES ASSUME PlaceInv PROVE PlaceInv'
    OBVIOUS
  <2>1. 1 .. Sent' \subseteq Places'
    BY <1>4, <1>5, <1>20 DEF PlaceInv
  <2>2. PICK a \in Int, c \in Int, f \in Int, m \in Int, sent \in Int :
          a = AtHome /\ c = producerCount - consumerCount /\ f = Fresh /\ m = scheduledTDs /\ sent = Sent
    <3>1. producerCount - consumerCount \in Int /\ scheduledTDs \in Int /\ Sent \in Int
      BY QueuesKnown DEF Base, ChainTypes, SlotTypes
    <3>2. Fresh \in Int
      BY DEF Base, ChainTypes, FilterTypes, Fresh
    <3>3. AtHome \in Int
      BY LenProperties DEF Base, ListTypes, AtHome
    <3> QED BY <3>1, <3>2, <3>3
  <2>3. a + c + f + m = sent
    BY <2>2 DEF PlaceInv
  <2>4. a + c + f + (m + 1) = sent + 1
    BY <2>3
  <2> QED BY <1>1, <1>5, <1>16, <2>1, <2>2, <2>4 DEF PlaceInv
<1>23. WindowInv => WindowInv'
  <2> SUFFICES ASSUME WindowInv PROVE WindowInv'
    OBVIOUS
  <2>1. scheduledTDs' = Cardinality(InSlots')
    <3>1. IsFiniteSet(InSlots)
      BY InSlotsFinite DEF Base
    <3>2. Cardinality(InSlots \cup {i}) = Cardinality(InSlots) + 1
      BY <1>18, <3>1, FS_AddElement
    <3> QED BY <1>1, <1>18, <3>2 DEF WindowInv
  <2>2. CASE Used(outSlot)
    <3>1. o = outSlot /\ i # o /\ n # o
      BY <1>1, <1>6, <1>10, <1>11, <2>2
    <3>2. Offset(o, n) = Offset(o, i) + 1 /\ Offset(o, i) \in Int /\ Offset(o, i) < NumSlots /\ Offset(o, n) < NumSlots
      BY <1>9, <3>1, OffsetNext, OffsetIs
    <3>3. \A s \in SlotNumbers : Offset(o, s) \in Int /\ (Offset(o, s) = Offset(o, i) => s = i)
      BY OffsetIs
    <3>4. /\ \A s \in InSlots : Offset(o, s) < Offset(o, i)
          /\ \A s \in SlotNumbers : 0 < Offset(o, s) /\ Offset(o, s) < Offset(o, i) => s \in InSlots
      BY <1>6, <2>2, <3>1 DEF WindowInv, Off
    <3>5. fpc = "scan" => /\ Offset(o, testSlot) <= Offset(o, stopSlot) /\ Offset(o, stopSlot) <= Offset(o, i)
                          /\ testSlot # stopSlot => \A s \in InSlots : Offset(o, testSlot) <= Offset(o, s)
                          /\ testSlot \in SlotNumbers /\ stopSlot \in SlotNumbers
      BY <1>6, <2>2, <3>1 DEF WindowInv, Off, Base, FilterTypes
    <3>6. \A s \in InSlots' : s \in SlotNumbers /\ (s \in InSlots \/ s = i)
      BY <1>18, InSlotsFinite DEF Base
    <3>7. \A s \in InSlots' : Offset(o, s) < Offset(o, n)
      BY <3>2, <3>3, <3>4, <3>6
    <3>8. \A s \in SlotNumbers : 0 < Offset(o, s) /\ Offset(o, s) < Offset(o, n) => s \in InSlots'
      BY <1>18, <3>2, <3>3, <3>4
    <3>9. fpc = "scan" => /\ Offset(o, testSlot) <= Offset(o, stopSlot) /\ Offset(o, stopSlot) <= Offset(o, n)
                          /\ testSlot # stopSlot => \A s \in InSlots' : Offset(o, testSlot) <= Offset(o, s)
      BY <3>2, <3>3, <3>5, <3>6
    <3> QED BY <1>1, <1>9, <1>11, <1>14, <2>1, <3>1, <3>7, <3>8, <3>9 DEF WindowInv, Off
  <2>3. CASE ~Used(outSlot)
    <3>1. o = 0 /\ i = 0 /\ InSlots = {} /\ fpc = "idle"
      BY <1>1, <1>2, <1>6, <1>11, <2>3, Slots DEF WindowInv, Used
    <3>2. n = 1
      BY <1>9, <3>1, NextIs, Slots
    <3>3. InSlots' = {0} /\ Offset(0, 0) = 0 /\ Offset(0, 1) = 1
      BY <1>18, <3>1, Slots DEF Offset
    <3>4. \A s \in SlotNumbers : ~(0 < Offset(0, s) /\ Offset(0, s) < 1)
      BY <3>1, OffsetIs
    <3> QED BY <1>1, <1>9, <1>11, <1>14, <2>1, <3>1, <3>2, <3>3, <3>4 DEF WindowInv, Off
  <2> QED BY <2>2, <2>3
<1> QED BY <1>1, <1>12, <1>13, <1>15, <1>21, <1>22, <1>23 DEF Base, LostInv

\* What is counted, as numbers.
LEMMA Counts ==
  ASSUME Base
  PROVE  /\ AtHome \in Nat /\ producerCount - consumerCount \in Nat /\ Fresh \in Nat /\ scheduledTDs \in Int /\ Sent \in Nat
         /\ producerCount \in Nat /\ consumerCount \in Nat
<1>1. AtHome \in Nat
  <2>1. PICK a \in Nat, b \in Nat, c \in Nat : a = Len(returned) /\ b = Len(doneQueue) /\ c = Len(deferredQueue)
    BY LenProperties DEF Base, ListTypes
  <2> QED BY <2>1 DEF AtHome
<1>2. producerCount - consumerCount \in Nat /\ producerCount \in Nat /\ consumerCount \in Nat
  BY DEF Base, ChainTypes
<1>3. Fresh \in Nat
  BY DEF Base, ChainTypes, FilterTypes, Fresh
<1> QED BY <1>1, <1>2, <1>3, QueuesKnown DEF Base, SlotTypes

\* The chain is retired.
LEMMA RetireKeeps ==
  ASSUME Base, LostInv, RetireIsocTransactions
  PROVE  Base' /\ LostInv'
<1>1. /\ ReturnIsochDoneQueue(PutAll(Queues, Chained), producerCount) /\ consumerCount' = producerCount /\ gpc' = "add"
      /\ ~stopping
      /\ UNCHANGED <<toDoList, frame, tdSlots, inSlot, outSlot, scheduledTDs, savedDoneQueueHead,
                     producerCount, fpc, testSlot, stopSlot, pCachedHead, cachedProducer, tdsScheduled, stopping, upset>>
  BY DEF RetireIsocTransactions, slotVars, schedVars, tdVars, filterVars, GateFree
<1>2. PICK c : c = Chained
  OBVIOUS
<1>3. /\ c \in Seq(Numbers) /\ Len(c) = producerCount - consumerCount /\ ToSet(c) = ChainTDs
  BY <1>2, ChainedIs DEF Base
<1>4. c \in Seq(1 .. Len(frame))
  BY <1>3, SeqOfSet, QueuesKnown DEF Base, Places
<1>5. Queues \in QueuesOf(1 .. Len(frame)) /\ \A x \in 1 .. Len(frame) : frame[x] \in Nat
  BY QueuesKnown
<1>6. AllPut(1 .. Len(frame), Queues, c, PutAll(Queues, c))
  BY <1>4, <1>5, PutAllKeeps
<1>7. PICK q : q = PutAll(Queues, c)
  OBVIOUS
<1>8. AllPut(1 .. Len(frame), Queues, c, q) /\ ReturnIsochDoneQueue(q, producerCount)
  BY <1>1, <1>2, <1>6, <1>7, Zenon
<1>9. /\ q \in QueuesOf(1 .. Len(frame))
      /\ Len(q.done) + Len(q.def) = Len(doneQueue) + Len(deferredQueue) + Len(c)
      /\ ToSet(q.done) \cup ToSet(q.def) = ToSet(doneQueue) \cup ToSet(deferredQueue) \cup ToSet(c)
  BY <1>8, QueuesKnown DEF AllPut
<1>10. q \in QueuesOf(Numbers)
  <2>1. q.done \in Seq(1 .. Len(frame)) /\ q.def \in Seq(1 .. Len(frame)) /\ 1 .. Len(frame) \subseteq Numbers
    BY <1>9 DEF QueuesOf, Numbers
  <2>2. q.done \in Seq(Numbers) /\ q.def \in Seq(Numbers)
    BY <2>1, WiderSeq
  <2> QED BY <1>9, <2>2 DEF QueuesOf
<1>11. /\ returned' \in Seq(Numbers) /\ doneQueue' \in Seq(Numbers) /\ deferredQueue' \in Seq(Numbers)
       /\ Home' = ToSet(returned) \cup ToSet(q.done) \cup ToSet(q.def)
       /\ AtHome' = Len(returned) + Len(q.done) + Len(q.def)
  BY <1>8, <1>10, ReturnKeeps DEF Base, ListTypes
<1>12. Home' = Home \cup ChainTDs
  BY <1>3, <1>9, <1>11, Zenon DEF Home
<1>13. AtHome' = AtHome + (producerCount - consumerCount)
  <2>1. PICK r \in Nat, d \in Nat, e \in Nat, m \in Nat, qd \in Nat, qe \in Nat :
          /\ r = Len(returned) /\ d = Len(doneQueue) /\ e = Len(deferredQueue) /\ m = producerCount - consumerCount
          /\ qd = Len(q.done) /\ qe = Len(q.def)
    BY <1>10, Counts, LenProperties DEF Base, ListTypes, QueuesOf
  <2>2. qd + qe = d + e + m
    BY <1>3, <1>9, <2>1
  <2>3. r + qd + qe = (r + d + e) + m
    BY <2>2
  <2> QED BY <1>11, <2>1, <2>3 DEF AtHome
<1>14. ListTypes'
  BY <1>1, <1>11 DEF Base, ListTypes, Sent
<1>15. SlotTypes' /\ ChainTypes' /\ FilterTypes' /\ GateTypes'
  BY <1>1 DEF Base, SlotTypes, ChainTypes, FilterTypes, GateTypes
<1>16. Fresh' = Fresh /\ Sent' = Sent /\ InSlots' = InSlots /\ \A s : Off(s)' = Off(s)
  BY <1>1 DEF Fresh, Sent, InSlots, Off
<1>17. TakenTDs' = TakenTDs /\ SlotTDs' = SlotTDs
  BY <1>1, <1>16 DEF TakenTDs, SlotTDs
<1>18. ChainTDs' = {} /\ producerCount' - consumerCount' = 0
  BY <1>1, Counts DEF ChainTDs
<1>19. Places' = Places
  BY <1>12, <1>17, <1>18 DEF Places
<1>20. PlaceInv => PlaceInv'
  <2> SUFFICES ASSUME PlaceInv PROVE PlaceInv'
    OBVIOUS
  <2>1. 1 .. Sent' \subseteq Places'
    BY <1>16, <1>19 DEF PlaceInv
  <2>2. PICK a \in Nat, c2 \in Nat, f \in Nat, m \in Int :
          a = AtHome /\ c2 = producerCount - consumerCount /\ f = Fresh /\ m = scheduledTDs
    BY Counts
  <2>3. (a + c2) + 0 + f + m = a + c2 + f + m
    BY <2>2
  <2>4. AtHome' + (producerCount' - consumerCount') + Fresh' + scheduledTDs' = (a + c2) + 0 + f + m
    BY <1>1, <1>13, <1>16, <1>18, <2>2
  <2>5. a + c2 + f + m = Sent
    BY <2>2 DEF PlaceInv
  <2> QED BY <1>16, <2>1, <2>3, <2>4, <2>5 DEF PlaceInv
<1>21. WindowInv => WindowInv'
  BY <1>1, <1>16 DEF WindowInv
<1> QED BY <1>1, <1>14, <1>15, <1>16, <1>19, <1>20, <1>21 DEF Base, LostInv

\* The thread that returns the done queue.
LEMMA ThreadKeeps ==
  ASSUME Base, LostInv, ReturnThread
  PROVE  Base' /\ LostInv'
<1>1. /\ ReturnIsochDoneQueue(Queues, consumerCount)
      /\ UNCHANGED <<toDoList, frame, tdSlots, inSlot, outSlot, scheduledTDs, savedDoneQueueHead, consumerCount, gpc,
                     producerCount, fpc, testSlot, stopSlot, pCachedHead, cachedProducer, tdsScheduled, stopping, upset>>
  BY DEF ReturnThread, slotVars, schedVars, tdVars, filterVars, chainVars
<1>2. Queues \in QueuesOf(Numbers) /\ returned \in Seq(Numbers)
  BY DEF Base, ListTypes, Queues, QueuesOf
<1>3. /\ returned' \in Seq(Numbers) /\ doneQueue' \in Seq(Numbers) /\ deferredQueue' \in Seq(Numbers)
      /\ Home' = ToSet(returned) \cup ToSet(Queues.done) \cup ToSet(Queues.def)
      /\ AtHome' = Len(returned) + Len(Queues.done) + Len(Queues.def)
  BY <1>1, <1>2, ReturnKeeps
<1>4. Home' = Home /\ AtHome' = AtHome
  BY <1>3, QueuesKnown DEF Home, AtHome
<1>5. ListTypes'
  BY <1>1, <1>3 DEF Base, ListTypes, Sent
<1>6. SlotTypes' /\ ChainTypes' /\ FilterTypes' /\ GateTypes'
  BY <1>1 DEF Base, SlotTypes, ChainTypes, FilterTypes, GateTypes
<1>7. Fresh' = Fresh /\ Sent' = Sent /\ InSlots' = InSlots /\ ChainTDs' = ChainTDs /\ \A s : Off(s)' = Off(s)
  BY <1>1 DEF Fresh, Sent, InSlots, ChainTDs, Off
<1>8. TakenTDs' = TakenTDs /\ SlotTDs' = SlotTDs
  BY <1>1, <1>7 DEF TakenTDs, SlotTDs
<1>9. Places' = Places
  BY <1>4, <1>7, <1>8 DEF Places
<1>10. PlaceInv => PlaceInv'
  BY <1>1, <1>4, <1>7, <1>9 DEF PlaceInv
<1>11. WindowInv => WindowInv'
  BY <1>1, <1>7 DEF WindowInv
<1> QED BY <1>1, <1>5, <1>6, <1>7, <1>9, <1>10, <1>11 DEF Base, LostInv

\* When all TDs were returned none is in a slot, and the filter is not at work unless the slots are
\* restarted under it.
LEMMA PolledKeeps ==
  ASSUME Base, LostInv, PollBounced
  PROVE  Base' /\ LostInv'
<1>1. /\ gpc = "idle" /\ gpc' \in {"idle", "add"} /\ ~stopping
      /\ \/ inSlot' = inSlot /\ outSlot' = outSlot
         \/ /\ activeTDs = 0 /\ inSlot' = Unset /\ outSlot' = Unset
            /\ fpc = "scan" => "restarted" \in upset'
      /\ upset \subseteq upset'
      /\ UNCHANGED <<toDoList, doneQueue, deferredQueue, returned, frame, tdSlots, scheduledTDs, savedDoneQueueHead,
                     consumerCount, producerCount, fpc, testSlot, stopSlot, pCachedHead, cachedProducer, tdsScheduled, stopping>>
  BY DEF PollBounced, listVars, tdVars, filterVars, chainVars, GateFree, Rescheduled
<1>2. ListTypes' /\ SlotTypes' /\ ChainTypes' /\ FilterTypes' /\ GateTypes'
  BY <1>1 DEF Base, ListTypes, SlotTypes, ChainTypes, FilterTypes, GateTypes, Sent
<1>3. Fresh' = Fresh /\ Sent' = Sent /\ AtHome' = AtHome /\ InSlots' = InSlots /\ ChainTDs' = ChainTDs /\ Home' = Home
  BY <1>1 DEF Fresh, Sent, AtHome, InSlots, ChainTDs, Home
<1>4. TakenTDs' = TakenTDs /\ SlotTDs' = SlotTDs
  BY <1>1, <1>3 DEF TakenTDs, SlotTDs
<1>5. Places' = Places
  BY <1>3, <1>4 DEF Places
<1>6. PlaceInv => PlaceInv'
  BY <1>1, <1>3, <1>5 DEF PlaceInv
<1>7. CASE inSlot' = inSlot /\ outSlot' = outSlot
  <2>1. WindowInv => WindowInv'
    BY <1>1, <1>3, <1>7 DEF WindowInv, Off
  <2> QED BY <1>1, <1>2, <1>3, <1>5, <1>6, <2>1 DEF Base, LostInv
<1>8. CASE activeTDs = 0 /\ inSlot' = Unset /\ outSlot' = Unset /\ (fpc = "scan" => "restarted" \in upset')
  <2>1. WindowInv /\ PlaceInv /\ fpc # "scan" => WindowInv'
    <3> SUFFICES ASSUME WindowInv, PlaceInv, fpc # "scan" PROVE WindowInv'
      OBVIOUS
    <3>1. PICK r \in Nat, d \in Nat, e \in Nat, lf \in Nat, lt \in Nat, c \in Nat, f \in Nat, m \in Nat :
            /\ r = Len(returned) /\ d = Len(doneQueue) /\ e = Len(deferredQueue) /\ lf = Len(frame)
            /\ lt = Len(toDoList) /\ c = producerCount - consumerCount /\ f = Fresh /\ m = scheduledTDs
      <4>1. scheduledTDs \in Nat
        BY InSlotsFinite DEF Base, WindowInv
      <4> QED BY <4>1, Counts, LenProperties DEF Base, ListTypes
    <3>2. r + d + e + c + f + m = lf - lt
      BY <3>1 DEF PlaceInv, AtHome, Sent
    <3>3. lf - r = 0
      BY <1>8, <3>1 DEF activeTDs
    <3>4. m = 0
      BY <3>2, <3>3
    <3>5. InSlots = {}
      BY <3>1, <3>4, InSlotsFinite, FS_EmptySet DEF Base, WindowInv
    <3>6. ~Used(outSlot')
      BY <1>8, Slots DEF Used
    <3>7. fpc = "idle"
      BY DEF Base, FilterTypes
    <3> QED BY <1>1, <1>3, <1>8, <3>5, <3>6, <3>7 DEF WindowInv
  <2> QED BY <1>1, <1>2, <1>3, <1>5, <1>6, <1>8, <2>1 DEF Base, LostInv
<1> QED BY <1>1, <1>7, <1>8

\* An abort returns the TDs of the chain, those in the window and those to do.
LEMMA AbortKeeps ==
  ASSUME Base, LostInv, AbortIsochEP
  PROVE  Base' /\ LostInv'
<1> DEFINE put == Chained \o (Window \o toDoList)
<1>1. /\ LET q == PutAll(Queues, put) IN returned' = returned \o q.done \o q.def
      /\ doneQueue' = <<>> /\ deferredQueue' = <<>> /\ toDoList' = <<>> /\ consumerCount' = producerCount
      /\ tdSlots' = [s \in DOMAIN tdSlots |-> IF tdSlots[s] \in ToSet(Window) THEN Free ELSE tdSlots[s]]
      /\ scheduledTDs' = scheduledTDs - Len(Window)
      /\ inSlot' = Unset /\ outSlot' = Unset /\ fpc = "idle" /\ stopping /\ stopping' = FALSE
      /\ upset \subseteq upset'
      /\ UNCHANGED <<frame, savedDoneQueueHead, producerCount, fpc, gpc>>
  BY DEF AbortIsochEP, filterVars, Upset
<1> HIDE DEF put
<1>2. PICK w, t, c : w = Window /\ t = toDoList /\ c = Chained
  OBVIOUS
<1>3. /\ w \in Seq(Numbers) /\ ToSet(w) \subseteq SlotTDs /\ Len(w) \in Nat
      /\ WindowInv => ToSet(w) = SlotTDs /\ Len(w) = Cardinality(InSlots)
  BY <1>2, WindowOf DEF Base
<1>4. t \in Seq(Numbers) /\ ToSet(t) = Sent + 1 .. Len(frame)
  BY <1>2, QueuesKnown DEF Base, ListTypes
<1>5. c \in Seq(Numbers) /\ Len(c) = producerCount - consumerCount /\ ToSet(c) = ChainTDs
  BY <1>2, ChainedIs DEF Base
<1>6. PICK u : u = w \o t
  OBVIOUS
<1>7. u \in Seq(Numbers) /\ Len(u) = Len(w) + Len(t) /\ ToSet(u) = ToSet(w) \cup ToSet(t)
  <2>1. w \in Seq(Numbers) /\ t \in Seq(Numbers)
    BY <1>3, <1>4
  <2>2. w \o t \in Seq(Numbers) /\ Len(w \o t) = Len(w) + Len(t) /\ ToSet(w \o t) = ToSet(w) \cup ToSet(t)
    BY <2>1, JoinHas
  <2> QED BY <1>6, <2>2, Zenon
<1>8. PICK v : v = c \o u
  OBVIOUS
<1>9. v \in Seq(Numbers) /\ Len(v) = Len(c) + Len(u) /\ ToSet(v) = ToSet(c) \cup ToSet(u)
  <2>1. c \in Seq(Numbers) /\ u \in Seq(Numbers)
    BY <1>5, <1>7
  <2>2. c \o u \in Seq(Numbers) /\ Len(c \o u) = Len(c) + Len(u) /\ ToSet(c \o u) = ToSet(c) \cup ToSet(u)
    BY <2>1, JoinHas
  <2> QED BY <1>8, <2>2, Zenon
<1>10. put = v
  BY <1>2, <1>6, <1>8 DEF put
<1>11. ToSet(v) \subseteq 1 .. Len(frame)
  <2>1. ToSet(w) \subseteq 1 .. Len(frame) /\ ToSet(c) \subseteq 1 .. Len(frame)
    BY <1>3, <1>5, QueuesKnown DEF Base, Places
  <2>2. ToSet(t) \subseteq 1 .. Len(frame)
    BY <1>4, QueuesKnown
  <2> QED BY <1>7, <1>9, <2>1, <2>2
<1>12. v \in Seq(1 .. Len(frame))
  BY <1>9, <1>11, SeqOfSet
<1>13. Queues \in QueuesOf(1 .. Len(frame)) /\ \A x \in 1 .. Len(frame) : frame[x] \in Nat
  BY QueuesKnown
<1>14. AllPut(1 .. Len(frame), Queues, v, PutAll(Queues, v))
  BY <1>12, <1>13, PutAllKeeps
<1>15. PICK q : q = PutAll(Queues, v)
  OBVIOUS
<1>16. AllPut(1 .. Len(frame), Queues, v, q) /\ returned' = returned \o q.done \o q.def
  BY <1>1, <1>10, <1>14, <1>15
<1>17. /\ q \in QueuesOf(1 .. Len(frame))
       /\ Len(q.done) + Len(q.def) = Len(doneQueue) + Len(deferredQueue) + Len(v)
       /\ ToSet(q.done) \cup ToSet(q.def) = ToSet(doneQueue) \cup ToSet(deferredQueue) \cup ToSet(v)
  BY <1>16, QueuesKnown DEF AllPut
<1>18. PICK d \in Seq(Numbers), e \in Seq(Numbers) : d = q.done /\ e = q.def
  <2>1. q.done \in Seq(1 .. Len(frame)) /\ q.def \in Seq(1 .. Len(frame)) /\ 1 .. Len(frame) \subseteq Numbers
    BY <1>17 DEF QueuesOf, Numbers
  <2>2. q.done \in Seq(Numbers) /\ q.def \in Seq(Numbers)
    BY <2>1, WiderSeq
  <2> QED BY <2>2
<1>19. PICK g : g = returned \o d
  OBVIOUS
<1>20. g \in Seq(Numbers) /\ Len(g) = Len(returned) + Len(d) /\ ToSet(g) = ToSet(returned) \cup ToSet(d)
  <2>1. returned \in Seq(Numbers) /\ d \in Seq(Numbers)
    BY <1>18 DEF Base, ListTypes
  <2>2. /\ returned \o d \in Seq(Numbers) /\ Len(returned \o d) = Len(returned) + Len(d)
        /\ ToSet(returned \o d) = ToSet(returned) \cup ToSet(d)
    BY <2>1, JoinHas
  <2> QED BY <1>19, <2>2, Zenon
<1>21. PICK h : h = g \o e
  OBVIOUS
<1>22. h \in Seq(Numbers) /\ Len(h) = Len(g) + Len(e) /\ ToSet(h) = ToSet(g) \cup ToSet(e)
  <2>1. g \in Seq(Numbers) /\ e \in Seq(Numbers)
    BY <1>18, <1>20
  <2>2. g \o e \in Seq(Numbers) /\ Len(g \o e) = Len(g) + Len(e) /\ ToSet(g \o e) = ToSet(g) \cup ToSet(e)
    BY <2>1, JoinHas
  <2> QED BY <1>21, <2>2, Zenon
<1>23. returned' = h
  BY <1>16, <1>18, <1>19, <1>21
<1>24. <<>> \in Seq(Numbers) /\ Len(<<>>) = 0 /\ ToSet(<<>>) = {}
  BY DEF ToSet
<1>25. Home' = Home \cup ChainTDs \cup ToSet(w) \cup Sent + 1 .. Len(frame)
  <2>1. Home' = ToSet(h)
    BY <1>1, <1>23, <1>24 DEF Home
  <2> QED BY <1>4, <1>5, <1>7, <1>9, <1>17, <1>18, <1>20, <1>22, <2>1, Zenon DEF Home
<1>26. AtHome' = AtHome + (producerCount - consumerCount) + Len(w) + Len(toDoList)
  <2>1. PICK r \in Nat, ld \in Nat, le \in Nat, m \in Nat, lw \in Nat, lt \in Nat, qd \in Nat, qe \in Nat :
          /\ r = Len(returned) /\ ld = Len(doneQueue) /\ le = Len(deferredQueue) /\ m = producerCount - consumerCount
          /\ lw = Len(w) /\ lt = Len(toDoList) /\ qd = Len(d) /\ qe = Len(e)
    BY <1>3, <1>18, Counts, LenProperties DEF Base, ListTypes
  <2>2. Len(v) = m + (lw + lt)
    BY <1>2, <1>5, <1>7, <1>9, <2>1
  <2>3. qd + qe = ld + le + (m + (lw + lt))
    BY <1>17, <1>18, <2>1, <2>2
  <2>4. Len(h) = r + qd + qe
    BY <1>20, <1>22, <2>1
  <2>5. r + qd + qe = (r + ld + le) + m + lw + lt
    BY <2>3
  <2>6. AtHome' = Len(h)
    <3>1. PICK lh \in Nat : lh = Len(h)
      BY <1>22, LenProperties
    <3>2. AtHome' = lh + 0 + 0
      BY <1>1, <1>23, <1>24, <3>1, Zenon DEF AtHome
    <3> QED BY <3>1, <3>2
  <2> QED BY <2>1, <2>4, <2>5, <2>6 DEF AtHome
<1>27. Sent' = Len(frame) /\ Len(toDoList') = 0 /\ Len(frame) \in Nat
  BY <1>1, <1>24, QueuesKnown DEF Sent
<1>28. ListTypes'
  BY <1>1, <1>22, <1>23, <1>24, <1>27 DEF Base, ListTypes
<1>29. /\ tdSlots' \in [SlotNumbers -> Nat]
       /\ \A s \in SlotNumbers : tdSlots'[s] = IF tdSlots[s] \in ToSet(w) THEN 0 ELSE tdSlots[s]
  <2>1. tdSlots \in [SlotNumbers -> Nat] /\ DOMAIN tdSlots = SlotNumbers
    BY DEF Base, SlotTypes
  <2>2. tdSlots' = [s \in SlotNumbers |-> IF tdSlots[s] \in ToSet(w) THEN 0 ELSE tdSlots[s]]
    BY <1>1, <1>2, <2>1 DEF Free
  <2> QED BY <2>1, <2>2
<1>30. SlotTypes'
  BY <1>1, <1>2, <1>3, <1>29 DEF Base, SlotTypes
<1>31. ChainTypes' /\ FilterTypes' /\ GateTypes'
  BY <1>1 DEF Base, ChainTypes, FilterTypes, GateTypes
<1>32. ChainTDs' = {} /\ producerCount' - consumerCount' = 0 /\ Fresh' = 0 /\ TakenTDs' = {}
  <2>1. producerCount' - consumerCount' = 0 /\ Fresh' = 0
    BY <1>1, Counts DEF Fresh
  <2> QED BY <2>1 DEF ChainTDs, TakenTDs
<1>33. DOMAIN tdSlots = SlotNumbers /\ DOMAIN tdSlots' = SlotNumbers
  BY <1>29 DEF Base, SlotTypes
<1>34. InSlots' \subseteq InSlots /\ SlotTDs' \subseteq SlotTDs
  <2>1. \A s \in InSlots' : s \in InSlots /\ tdSlots'[s] = tdSlots[s]
    BY <1>29, <1>33 DEF InSlots, Free
  <2>2. SlotTDs' = {tdSlots'[s] : s \in InSlots'}
    BY DEF SlotTDs
  <2> QED BY <2>1, <2>2 DEF SlotTDs
<1>35. Places' \subseteq 1 .. Sent'
  <2>1. Home \subseteq 1 .. Len(frame) /\ ChainTDs \subseteq 1 .. Len(frame) /\ SlotTDs \subseteq 1 .. Len(frame)
        /\ Sent + 1 .. Len(frame) \subseteq 1 .. Len(frame)
    BY QueuesKnown DEF Base, Places
  <2> QED BY <1>3, <1>25, <1>27, <1>32, <1>34, <2>1 DEF Places
<1>36. WindowInv /\ PlaceInv => WindowInv' /\ PlaceInv'
  <2> SUFFICES ASSUME WindowInv, PlaceInv PROVE WindowInv' /\ PlaceInv'
    OBVIOUS
  <2>1. InSlots' = {}
    <3>1. \A s \in InSlots : tdSlots[s] \in ToSet(w)
      BY <1>3 DEF SlotTDs
    <3>2. \A s \in SlotNumbers : tdSlots'[s] = 0
      BY <1>29, <1>33, <3>1 DEF InSlots, Free
    <3> QED BY <1>33, <3>2 DEF InSlots, Free
  <2>2. scheduledTDs' = 0 /\ Len(w) = scheduledTDs /\ scheduledTDs \in Nat
    BY <1>1, <1>2, <1>3 DEF WindowInv
  <2>3. WindowInv'
    <3>1. ~Used(outSlot') /\ Cardinality(InSlots') = 0
      BY <1>1, <2>1, Slots, FS_EmptySet DEF Used
    <3> QED BY <1>1, <2>1, <2>2, <3>1 DEF WindowInv
  <2>4. 1 .. Sent' \subseteq Places'
    <3>1. 1 .. Sent \subseteq Home \cup ChainTDs \cup TakenTDs \cup SlotTDs /\ TakenTDs = {}
      BY <1>1 DEF PlaceInv, Places, TakenTDs, Fresh
    <3>2. \A x \in 1 .. Len(frame) : x \in 1 .. Sent \/ x \in Sent + 1 .. Len(frame)
      BY QueuesKnown
    <3> QED BY <1>3, <1>25, <1>27, <3>1, <3>2 DEF Places
  <2>5. PICK a \in Nat, m \in Nat, n \in Nat, sent \in Nat, lt \in Nat :
          a = AtHome /\ m = producerCount - consumerCount /\ n = scheduledTDs /\ sent = Sent /\ lt = Len(toDoList)
    BY <2>2, Counts, QueuesKnown
  <2>6. a + m + 0 + n = sent /\ sent + lt = Len(frame)
    BY <1>1, <2>5, QueuesKnown DEF PlaceInv, Fresh
  <2>7. AtHome' + (producerCount' - consumerCount') + Fresh' + scheduledTDs' = (a + m + n + lt) + 0 + 0 + 0
    BY <1>26, <1>32, <2>2, <2>5
  <2>8. (a + m + n + lt) + 0 + 0 + 0 = Len(frame)
    BY <2>6
  <2> QED BY <1>27, <2>3, <2>4, <2>7, <2>8 DEF PlaceInv
<1> QED BY <1>1, <1>28, <1>30, <1>31, <1>35, <1>36 DEF Base, LostInv

\* The filter begins with the slots from outSlot to inSlot.
LEMMA FilterBegins ==
  ASSUME Base, LostInv, FilterBegin
  PROVE  Base' /\ LostInv'
<1>1. /\ fpc = "idle" /\ fpc' = "scan" /\ tdsScheduled /\ Used(outSlot)
      /\ testSlot' = outSlot /\ stopSlot' = inSlot % NumSlots
      /\ pCachedHead' = savedDoneQueueHead /\ cachedProducer' = producerCount
      /\ UNCHANGED <<toDoList, doneQueue, deferredQueue, returned, frame, tdSlots, inSlot, outSlot, scheduledTDs,
                     savedDoneQueueHead, consumerCount, producerCount, tdsScheduled, gpc, stopping, upset>>
  BY DEF FilterBegin, listVars, slotVars, schedVars, tdVars, gateVars, chainVars, histVars
<1>2. outSlot \in SlotNumbers
  BY <1>1, UsedIs DEF Base, SlotTypes
<1>3. stopSlot' \in SlotNumbers /\ (Used(inSlot) => stopSlot' = inSlot)
  <2>1. CASE Used(inSlot)
    <3>1. inSlot \in SlotNumbers
      BY <2>1, UsedIs DEF Base, SlotTypes
    <3>2. inSlot \in Int /\ inSlot \in 0 .. NumSlots - 1
      BY <3>1 DEF SlotNumbers
    <3>3. inSlot % NumSlots = inSlot
      BY <3>2, Remainders
    <3> QED BY <1>1, <3>1, <3>3
  <2>2. CASE ~Used(inSlot)
    <3>1. inSlot = NumSlots + 1
      BY <2>2, UsedIs, Slots DEF Base, SlotTypes
    <3>2. inSlot \in Int /\ inSlot \in NumSlots .. 2 * NumSlots - 1
      BY <3>1, Slots
    <3>3. inSlot % NumSlots = inSlot - NumSlots
      BY <3>2, Remainders
    <3>4. inSlot - NumSlots = 1 /\ 1 \in SlotNumbers
      BY <3>1, Slots DEF SlotNumbers
    <3> QED BY <1>1, <2>2, <3>3, <3>4
  <2> QED BY <2>1, <2>2
<1>4. FilterTypes'
  <2>1. \A j \in 1 .. producerCount' : pCachedHead'[cachedProducer' - producerCount' + j] = savedDoneQueueHead'[j]
    <3>1. \A j \in 1 .. producerCount : producerCount - producerCount + j = j
      BY Counts
    <3> QED BY <1>1, <3>1
  <2>2. producerCount <= producerCount
    BY Counts
  <2> QED BY <1>1, <1>2, <1>3, <2>1, <2>2 DEF Base, FilterTypes, ChainTypes
<1>5. ListTypes' /\ SlotTypes' /\ ChainTypes' /\ GateTypes'
  BY <1>1 DEF Base, ListTypes, SlotTypes, ChainTypes, GateTypes, Sent
<1>6. /\ Sent' = Sent /\ AtHome' = AtHome /\ InSlots' = InSlots /\ ChainTDs' = ChainTDs /\ Home' = Home
      /\ \A s : Off(s)' = Off(s)
  BY <1>1 DEF Sent, AtHome, InSlots, ChainTDs, Home, Off
<1>7. Fresh = 0 /\ Fresh' = 0
  BY <1>1, Counts DEF Fresh
<1>8. TakenTDs = {} /\ TakenTDs' = {} /\ SlotTDs' = SlotTDs
  BY <1>1, <1>6, <1>7 DEF TakenTDs, SlotTDs
<1>9. Places' = Places
  BY <1>6, <1>8 DEF Places
<1>10. PlaceInv => PlaceInv'
  BY <1>1, <1>6, <1>7, <1>9 DEF PlaceInv
<1>11. WindowInv => WindowInv'
  <2> SUFFICES ASSUME WindowInv PROVE WindowInv'
    OBVIOUS
  <2>1. Used(inSlot) /\ outSlot # inSlot
    BY <1>1 DEF WindowInv
  <2>2. inSlot \in SlotNumbers /\ stopSlot' = inSlot
    BY <1>3, <2>1, UsedIs DEF Base, SlotTypes
  <2>3. /\ Offset(outSlot, outSlot) = 0 /\ Offset(outSlot, inSlot) \in SlotNumbers
        /\ \A s \in InSlots : Offset(outSlot, s) \in SlotNumbers
    BY <1>2, <2>2, OffsetIs, InSlotsFinite DEF Base
  <2>4. \A x \in SlotNumbers : 0 <= x /\ x <= x
    BY DEF SlotNumbers
  <2>5. /\ Offset(outSlot, testSlot') <= Offset(outSlot, stopSlot') /\ Offset(outSlot, stopSlot') <= Offset(outSlot, inSlot)
        /\ \A s \in InSlots : Offset(outSlot, testSlot') <= Offset(outSlot, s)
    BY <1>1, <2>2, <2>3, <2>4
  <2> QED BY <1>1, <1>6, <2>1, <2>5 DEF WindowInv, Off
<1> QED BY <1>1, <1>4, <1>5, <1>6, <1>9, <1>10, <1>11 DEF Base, LostInv

\* The filter passes an empty slot.
LEMMA FilterSkips ==
  ASSUME Base, LostInv, FilterSkip
  PROVE  Base' /\ LostInv'
<1>1. /\ fpc = "scan" /\ testSlot # stopSlot /\ tdSlots[testSlot] = 0 /\ testSlot' = NextSlot(testSlot)
      /\ UNCHANGED <<toDoList, doneQueue, deferredQueue, returned, frame, tdSlots, inSlot, outSlot, scheduledTDs, fpc,
                     savedDoneQueueHead, consumerCount, producerCount, tdsScheduled, gpc, stopping, upset, stopSlot,
                     pCachedHead, cachedProducer>>
  BY DEF FilterSkip, listVars, slotVars, schedVars, tdVars, gateVars, chainVars, histVars, Free, Base, FilterTypes
<1>2. PICK t \in SlotNumbers, p \in SlotNumbers : t = testSlot /\ p = stopSlot
  BY <1>1 DEF Base, FilterTypes
<1>3. PICK n \in SlotNumbers : n = NextSlot(t) /\ testSlot' = n
  BY <1>1, <1>2, NextIs
<1>4. FilterTypes'
  BY <1>1, <1>3 DEF Base, FilterTypes
<1>5. ListTypes' /\ SlotTypes' /\ ChainTypes' /\ GateTypes'
  BY <1>1 DEF Base, ListTypes, SlotTypes, ChainTypes, GateTypes, Sent
<1>6. /\ Sent' = Sent /\ AtHome' = AtHome /\ InSlots' = InSlots /\ ChainTDs' = ChainTDs /\ Home' = Home /\ Fresh' = Fresh
      /\ \A s : Off(s)' = Off(s)
  BY <1>1 DEF Sent, AtHome, InSlots, ChainTDs, Home, Off, Fresh
<1>7. TakenTDs' = TakenTDs /\ SlotTDs' = SlotTDs
  BY <1>1, <1>6 DEF TakenTDs, SlotTDs
<1>8. Places' = Places
  BY <1>6, <1>7 DEF Places
<1>9. PlaceInv => PlaceInv'
  BY <1>1, <1>6, <1>8 DEF PlaceInv
<1>10. WindowInv => WindowInv'
  <2> SUFFICES ASSUME WindowInv PROVE WindowInv'
    OBVIOUS
  <2>1. PICK o \in SlotNumbers, i \in SlotNumbers : o = outSlot /\ i = inSlot /\ Used(outSlot)
    BY <1>1, UsedIs DEF Base, SlotTypes, WindowInv
  <2>2. Offset(o, t) <= Offset(o, p) /\ Offset(o, p) <= Offset(o, i) /\ \A s \in InSlots : Offset(o, t) <= Offset(o, s)
    BY <1>1, <1>2, <2>1 DEF WindowInv, Off
  <2>3. t \notin InSlots /\ InSlots \subseteq SlotNumbers
    BY <1>1, <1>2, InSlotsFinite DEF Base
  <2>4. Offset(o, t) \in Int /\ Offset(o, p) \in Int /\ Offset(o, p) < NumSlots /\ Offset(o, t) # Offset(o, p)
    BY <1>1, <1>2, OffsetIs
  <2>5. \A s \in InSlots : Offset(o, s) \in Int /\ Offset(o, s) # Offset(o, t)
    <3>1. ASSUME NEW s \in InSlots PROVE Offset(o, s) \in Int /\ Offset(o, s) # Offset(o, t)
      <4>1. s \in SlotNumbers /\ s # t
        BY <2>3
      <4> QED BY <4>1, OffsetIs
    <3> QED BY <3>1
  <2>6. Offset(o, n) = Offset(o, t) + 1
    <3>1. n # o
      <4>1. ASSUME n = o PROVE FALSE
        <5>1. o = IF t = NumSlots - 1 THEN 0 ELSE t + 1
          BY <1>3, <4>1, NextIs
        <5>2. Offset(o, t) = NumSlots - 1
          BY <5>1, Slots DEF Offset, SlotNumbers
        <5> QED BY <2>2, <2>4, <5>2, Slots
      <4> QED BY <4>1
    <3> QED BY <1>3, <3>1, OffsetNext
  <2>7. Offset(o, n) <= Offset(o, p) /\ \A s \in InSlots : Offset(o, n) <= Offset(o, s)
    BY <2>2, <2>4, <2>5, <2>6
  <2> QED BY <1>1, <1>2, <1>3, <1>6, <2>1, <2>2, <2>7 DEF WindowInv, Off
<1> QED BY <1>1, <1>4, <1>5, <1>6, <1>8, <1>9, <1>10 DEF Base, LostInv

\* The filter looks at a TD. It takes it, unless the event is for an earlier transfer of it.
LEMMA FilterTests ==
  ASSUME Base, LostInv, FilterTest
  PROVE  Base' /\ LostInv'
<1> DEFINE Takes == /\ tdSlots' = [tdSlots EXCEPT ![testSlot] = 0]
                    /\ pCachedHead' = <<tdSlots[testSlot]>> \o pCachedHead /\ cachedProducer' = cachedProducer + 1
                    /\ scheduledTDs' = scheduledTDs - 1 /\ outSlot' = testSlot
           Leaves == UNCHANGED <<tdSlots, pCachedHead, cachedProducer, scheduledTDs, outSlot>>
<1>1. /\ fpc = "scan" /\ testSlot # stopSlot /\ tdSlots[testSlot] # 0
      /\ testSlot' = NextSlot(testSlot) \/ testSlot' = stopSlot
      /\ Takes \/ (Leaves /\ testSlot' = stopSlot)
      /\ UNCHANGED <<toDoList, doneQueue, deferredQueue, returned, frame, inSlot, fpc,
                     savedDoneQueueHead, consumerCount, producerCount, tdsScheduled, gpc, stopping, upset, stopSlot>>
  BY DEF FilterTest, listVars, schedVars, gateVars, chainVars, histVars, Free, Passed
<1>2. PICK t \in SlotNumbers, p \in SlotNumbers : t = testSlot /\ p = stopSlot
  BY <1>1 DEF Base, FilterTypes
<1>3. testSlot' \in SlotNumbers
  BY <1>1, <1>2, NextIs
<1>4. ListTypes' /\ ChainTypes'
  BY <1>1 DEF Base, ListTypes, ChainTypes, Sent
<1>5. Sent' = Sent /\ AtHome' = AtHome /\ ChainTDs' = ChainTDs /\ Home' = Home
  BY <1>1 DEF Sent, AtHome, ChainTDs, Home
<1>6. GateTypes'
  BY <1>1 DEF Base, GateTypes, Used
<1>7. CASE Leaves /\ testSlot' = stopSlot
  <2>1. SlotTypes' /\ FilterTypes'
    BY <1>1, <1>3, <1>7 DEF Base, SlotTypes, FilterTypes
  <2>2. InSlots' = InSlots /\ Fresh' = Fresh /\ \A s : Off(s)' = Off(s)
    BY <1>1, <1>7 DEF InSlots, Fresh, Off
  <2>3. TakenTDs' = TakenTDs /\ SlotTDs' = SlotTDs
    BY <1>7, <2>2 DEF TakenTDs, SlotTDs
  <2>4. Places' = Places
    BY <1>5, <2>3 DEF Places
  <2>5. PlaceInv => PlaceInv'
    BY <1>1, <1>5, <1>7, <2>2, <2>4 DEF PlaceInv
  <2>6. WindowInv => WindowInv'
    <3> SUFFICES ASSUME WindowInv PROVE WindowInv'
      OBVIOUS
    <3>1. outSlot \in SlotNumbers
      BY <1>1, UsedIs DEF Base, SlotTypes, WindowInv
    <3>2. Off(stopSlot) <= Off(stopSlot)
      BY <1>2, <3>1, OffsetIs DEF Off
    <3> QED BY <1>1, <1>7, <2>2, <3>2 DEF WindowInv, Off
  <2> QED BY <1>1, <1>4, <1>5, <1>6, <2>1, <2>4, <2>5, <2>6 DEF Base, LostInv
<1>8. CASE Takes
  <2>1. PICK td : td = tdSlots[t]
    OBVIOUS
  <2>2. /\ tdSlots \in [SlotNumbers -> Nat] /\ tdSlots' = [tdSlots EXCEPT ![t] = 0] /\ td \in Numbers
        /\ t \in InSlots /\ td \in SlotTDs
    BY <1>1, <1>2, <1>8, <2>1, InSlotsFinite DEF Base, SlotTypes, Numbers, SlotTDs
  <2>3. tdSlots' \in [SlotNumbers -> Nat] /\ tdSlots'[t] = 0 /\ \A s \in SlotNumbers : s # t => tdSlots'[s] = tdSlots[s]
    BY <2>2
  <2>4. SlotTypes'
    BY <1>1, <1>2, <1>8, <2>3 DEF Base, SlotTypes
  <2>5. PICK h \in Seq(Numbers), n \in Nat, pr \in Nat :
          h = pCachedHead /\ n = cachedProducer /\ pr = producerCount /\ Len(h) = n /\ pr <= n
    BY <1>1, Counts DEF Base, FilterTypes
  <2>6. PICK g : g = <<td>> \o h
    OBVIOUS
  <2>7. <<td>> \in Seq(Numbers) /\ Len(<<td>>) = 1 /\ <<td>>[1] = td
    BY <2>2
  <2>8. /\ g \in Seq(Numbers) /\ Len(g) = 1 + n /\ g[1] = td
        /\ \A i \in 1 .. n : g[1 + i] = h[i]
    <3>1. /\ <<td>> \o h \in Seq(Numbers) /\ Len(<<td>> \o h) = Len(<<td>>) + Len(h)
          /\ \A i \in 1 .. Len(<<td>>) : (<<td>> \o h)[i] = <<td>>[i]
          /\ \A i \in 1 .. Len(h) : (<<td>> \o h)[Len(<<td>>) + i] = h[i]
      BY <2>7, Concatenated
    <3> QED BY <2>5, <2>6, <2>7, <3>1
  <2>9. pCachedHead' = g /\ cachedProducer' = n + 1
    BY <1>2, <1>8, <2>1, <2>5, <2>6
  <2>10. FilterTypes'
    <3>1. ASSUME NEW j \in 1 .. pr PROVE g[n + 1 - pr + j] = savedDoneQueueHead[j]
      <4>1. n - pr + j \in 1 .. n /\ n + 1 - pr + j = 1 + (n - pr + j)
        BY <2>5
      <4>2. h[n - pr + j] = savedDoneQueueHead[j]
        BY <1>1, <2>5 DEF Base, FilterTypes
      <4> QED BY <2>8, <4>1, <4>2
    <3>2. n + 1 \in Nat /\ pr <= n + 1 /\ Len(g) = n + 1
      BY <2>5, <2>8
    <3> QED BY <1>1, <1>3, <2>5, <2>8, <2>9, <3>1, <3>2 DEF Base, FilterTypes
  <2>11. DOMAIN tdSlots = SlotNumbers /\ DOMAIN tdSlots' = SlotNumbers
    BY <2>2, <2>3
  <2>12. InSlots' = InSlots \ {t}
    BY <2>3, <2>11 DEF InSlots, Free
  <2>13. SlotTDs' \subseteq SlotTDs /\ SlotTDs = SlotTDs' \cup {td}
    <3>1. InSlots \subseteq SlotNumbers
      BY InSlotsFinite DEF Base
    <3>2. SlotTDs' = {tdSlots'[s] : s \in InSlots'}
      BY DEF SlotTDs
    <3>3. \A s \in InSlots' : s \in InSlots /\ tdSlots'[s] = tdSlots[s]
      BY <2>3, <2>12, <3>1
    <3>4. \A s \in InSlots : s = t \/ (s \in InSlots' /\ tdSlots'[s] = tdSlots[s])
      BY <2>12, <3>3
    <3> QED BY <2>1, <2>2, <3>2, <3>3, <3>4 DEF SlotTDs
  <2>14. Fresh = n - pr /\ Fresh' = Fresh + 1 /\ Fresh \in Nat
    BY <1>1, <2>5, <2>9 DEF Fresh
  <2>15. TakenTDs' = TakenTDs \cup {td}
    <3>1. TakenTDs = {h[j] : j \in 1 .. n - pr} /\ TakenTDs' = {g[j] : j \in 1 .. (n - pr) + 1}
      BY <2>5, <2>9, <2>14 DEF TakenTDs
    <3>2. \A j \in 1 .. (n - pr) + 1 : j = 1 \/ (j - 1 \in 1 .. n - pr /\ j - 1 \in 1 .. n /\ j = 1 + (j - 1))
      BY <2>5
    <3>3. \A j \in 1 .. n - pr : j \in 1 .. n /\ 1 + j \in 1 .. (n - pr) + 1 /\ 1 \in 1 .. (n - pr) + 1
      BY <2>5
    <3>4. \A j \in 1 .. (n - pr) + 1 : g[j] = td \/ \E k \in 1 .. n - pr : g[j] = h[k]
      BY <2>8, <3>2
    <3>5. \A j \in 1 .. n - pr : \E k \in 1 .. (n - pr) + 1 : h[j] = g[k]
      BY <2>8, <3>3
    <3>6. 1 \in 1 .. (n - pr) + 1 /\ g[1] = td
      BY <2>5, <2>8
    <3>7. ASSUME NEW x \in TakenTDs' PROVE x \in TakenTDs \cup {td}
      <4>1. PICK j \in 1 .. (n - pr) + 1 : x = g[j]
        BY <3>1
      <4> QED BY <3>1, <3>4, <4>1
    <3>8. ASSUME NEW x \in TakenTDs \cup {td} PROVE x \in TakenTDs'
      <4>1. CASE x = td
        BY <3>1, <3>6, <4>1
      <4>2. CASE x \in TakenTDs
        <5>1. PICK j \in 1 .. n - pr : x = h[j]
          BY <3>1, <4>2
        <5> QED BY <3>1, <3>5, <5>1
      <4> QED BY <4>1, <4>2
    <3> QED BY <3>7, <3>8
  <2>16. Places' = Places
    BY <1>5, <2>2, <2>13, <2>15 DEF Places
  <2>17. PlaceInv => PlaceInv'
    <3> SUFFICES ASSUME PlaceInv PROVE PlaceInv'
      OBVIOUS
    <3>1. PICK a \in Nat, m \in Nat, f \in Nat, c \in Int : a = AtHome /\ m = producerCount - consumerCount /\ f = Fresh /\ c = scheduledTDs
      BY Counts
    <3>2. a + m + f + c = a + m + (f + 1) + (c - 1)
      OBVIOUS
    <3>3. AtHome' + (producerCount' - consumerCount') + Fresh' + scheduledTDs' = a + m + (f + 1) + (c - 1)
      BY <1>1, <1>5, <1>8, <2>14, <3>1
    <3> QED BY <1>5, <2>16, <3>1, <3>2, <3>3 DEF PlaceInv
  <2>18. WindowInv => WindowInv'
    <3> SUFFICES ASSUME WindowInv PROVE WindowInv'
      OBVIOUS
    <3>1. PICK o \in SlotNumbers, i \in SlotNumbers : o = outSlot /\ i = inSlot /\ Used(outSlot) /\ Used(inSlot)
      BY <1>1, UsedIs DEF Base, SlotTypes, WindowInv
    <3>2. /\ Offset(o, t) <= Offset(o, p) /\ Offset(o, p) <= Offset(o, i) /\ Offset(o, t) < Offset(o, i)
          /\ \A s \in InSlots : Offset(o, t) <= Offset(o, s) /\ Offset(o, s) < Offset(o, i)
          /\ \A s \in SlotNumbers : 0 < Offset(o, s) /\ Offset(o, s) < Offset(o, i) => s \in InSlots
      BY <1>1, <1>2, <2>2, <3>1 DEF WindowInv, Off
    <3>3. \A s \in SlotNumbers : Offset(o, t) <= Offset(o, s) => Offset(t, s) = Offset(o, s) - Offset(o, t)
      BY OffsetMoved
    <3>4. \A s \in SlotNumbers : Offset(o, s) \in Int /\ Offset(o, s) >= 0 /\ Offset(o, s) < NumSlots
                                /\ (Offset(o, s) = Offset(o, t) => s = t)
      BY OffsetIs DEF SlotNumbers
    <3>5. InSlots \subseteq SlotNumbers /\ IsFiniteSet(InSlots) /\ Cardinality(InSlots) \in Nat
      BY InSlotsFinite DEF Base
    <3>6. scheduledTDs' = Cardinality(InSlots')
      <4>1. Cardinality(InSlots \ {t}) = Cardinality(InSlots) - 1
        BY <2>2, <3>5, FS_RemoveElement
      <4> QED BY <1>8, <2>12, <4>1 DEF WindowInv
    <3>7. Offset(t, i) = Offset(o, i) - Offset(o, t) /\ Offset(t, p) = Offset(o, p) - Offset(o, t)
      <4>1. Offset(o, t) <= Offset(o, i)
        BY <3>2, <3>4
      <4> QED BY <3>2, <3>3, <4>1
    <3>8. t # i
      BY <3>2, <3>4
    <3>9. \A s \in InSlots : Offset(t, s) = Offset(o, s) - Offset(o, t) /\ Offset(t, s) < Offset(t, i)
      <4>1. ASSUME NEW s \in InSlots PROVE Offset(t, s) = Offset(o, s) - Offset(o, t) /\ Offset(t, s) < Offset(t, i)
        <5>1. s \in SlotNumbers /\ Offset(o, t) <= Offset(o, s) /\ Offset(o, s) < Offset(o, i)
          BY <3>2, <3>5
        <5>2. Offset(t, s) = Offset(o, s) - Offset(o, t)
          BY <3>3, <5>1
        <5> QED BY <3>4, <3>7, <5>1, <5>2
      <4> QED BY <4>1
    <3>10. ASSUME NEW s \in SlotNumbers, 0 < Offset(t, s), Offset(t, s) < Offset(t, i) PROVE s \in InSlots'
      <4>1. Offset(o, s) > Offset(o, t) /\ Offset(o, s) < Offset(o, i)
        <5>1. CASE Offset(o, t) <= Offset(o, s)
          BY <3>3, <3>4, <3>7, <3>10, <5>1
        <5>2. CASE Offset(o, s) < Offset(o, t)
          <6>1. Offset(t, s) = Offset(o, s) - Offset(o, t) + NumSlots
            BY <5>2, Slots DEF Offset, SlotNumbers
          <6>2. PICK os \in Int, ot \in Int, oi \in Int : os = Offset(o, s) /\ ot = Offset(o, t) /\ oi = Offset(o, i)
            BY <3>4
          <6>3. os >= 0 /\ oi < NumSlots /\ os - ot + NumSlots < oi - ot
            BY <3>4, <3>7, <3>10, <6>1, <6>2
          <6>4. FALSE
            BY SMTT(40), <6>2, <6>3, Slots
          <6> QED BY <6>4
        <5> QED BY <3>4, <5>1, <5>2
      <4>2. s \in InSlots /\ s # t
        BY <3>2, <3>4, <4>1
      <4> QED BY <2>12, <4>2
    <3>11. /\ Offset(t, testSlot') <= Offset(t, p) /\ Offset(t, p) <= Offset(t, i)
           /\ testSlot' # p => \A s \in InSlots' : Offset(t, testSlot') <= Offset(t, s)
      <4>1. Offset(t, p) <= Offset(t, i) /\ Offset(t, p) <= Offset(t, p)
        BY <3>2, <3>4, <3>7
      <4>2. CASE testSlot' = p
        BY <4>1, <4>2
      <4>3. CASE testSlot' = NextSlot(t)
        <5>1. Offset(t, NextSlot(t)) = 1
          <6>1. NextSlot(t) # t
            <7>1. NextSlot(t) = IF t = NumSlots - 1 THEN 0 ELSE t + 1
              BY NextIs
            <7> QED BY <7>1, Slots DEF SlotNumbers
          <6>2. Offset(t, t) = 0
            BY Slots DEF Offset, SlotNumbers
          <6>3. t \in SlotNumbers
            OBVIOUS
          <6> QED BY <6>1, <6>2, OffsetNext
        <5>2. Offset(o, p) # Offset(o, t)
          BY <1>1, <1>2, <3>4
        <5>3. 1 <= Offset(t, p)
          BY <3>2, <3>4, <3>7, <5>2
        <5>4. \A s \in InSlots' : 1 <= Offset(t, s)
          <6>1. ASSUME NEW s \in InSlots' PROVE 1 <= Offset(t, s)
            <7>1. s \in InSlots /\ s # t /\ s \in SlotNumbers
              BY <2>12, <3>5
            <7>2. Offset(o, t) <= Offset(o, s) /\ Offset(o, s) # Offset(o, t) /\ Offset(t, s) = Offset(o, s) - Offset(o, t)
              BY <3>2, <3>4, <3>9, <7>1
            <7> QED BY <3>4, <7>1, <7>2
          <6> QED BY <6>1
        <5> QED BY <4>1, <4>3, <5>1, <5>3, <5>4
      <4> QED BY <1>1, <1>2, <4>2, <4>3
    <3>12. Used(outSlot')
      BY <1>2, <1>8, UsedIs
    <3>13. \A s \in InSlots' : Offset(t, s) < Offset(t, i)
      BY <2>12, <3>9
    <3> QED BY <1>1, <1>2, <1>8, <3>1, <3>6, <3>8, <3>10, <3>11, <3>12, <3>13 DEF WindowInv, Off
  <2> QED BY <1>1, <1>4, <1>5, <1>6, <2>4, <2>10, <2>16, <2>17, <2>18 DEF Base, LostInv
<1> QED BY <1>1, <1>7, <1>8

\* The chain the filter publishes holds the TDs of the endpoint's and those it took.
LEMMA PublishedChain ==
  ASSUME Base, FilterPublish
  PROVE  ChainTDs' = ChainTDs \cup TakenTDs
<1>1. fpc = "scan" /\ savedDoneQueueHead' = pCachedHead /\ producerCount' = cachedProducer /\ UNCHANGED consumerCount
  BY DEF FilterPublish, Published
<1>2. PICK h \in Seq(Numbers), n \in Nat, p \in Nat, c \in Nat :
        h = pCachedHead /\ n = cachedProducer /\ p = producerCount /\ c = consumerCount /\ c <= p /\ p <= n
  BY <1>1 DEF Base, FilterTypes, ChainTypes
<1>3. \A j \in 1 .. p : h[n - p + j] = savedDoneQueueHead[j]
  BY <1>1, <1>2 DEF Base, FilterTypes
<1>4. Fresh = n - p
  BY <1>1, <1>2 DEF Fresh
<1>5. /\ TakenTDs = {h[j] : j \in 1 .. n - p} /\ ChainTDs = {savedDoneQueueHead[j] : j \in 1 .. p - c}
      /\ ChainTDs' = {h[j] : j \in 1 .. n - c}
  BY <1>1, <1>2, <1>4 DEF TakenTDs, ChainTDs
<1>6. \A j \in 1 .. p - c : j \in 1 .. p /\ n - p + j \in 1 .. n - c
  BY <1>2
<1>7. \A j \in 1 .. n - p : j \in 1 .. n - c
  BY <1>2
<1>8. \A j \in 1 .. n - c : j \in 1 .. n - p \/ (j - (n - p) \in 1 .. p - c /\ j = n - p + (j - (n - p)))
  BY <1>2
<1>9. ASSUME NEW x \in ChainTDs' PROVE x \in ChainTDs \cup TakenTDs
  <2>1. PICK j \in 1 .. n - c : x = h[j]
    BY <1>5
  <2>2. CASE j \in 1 .. n - p
    BY <1>5, <2>1, <2>2
  <2>3. CASE j - (n - p) \in 1 .. p - c /\ j = n - p + (j - (n - p))
    <3>1. PICK i \in 1 .. p - c : j = n - p + i
      BY <2>3
    <3>2. h[n - p + i] = savedDoneQueueHead[i]
      BY <1>3, <1>6
    <3> QED BY <1>5, <2>1, <3>1, <3>2
  <2> QED BY <1>8, <2>2, <2>3
<1>10. ASSUME NEW x \in ChainTDs PROVE x \in ChainTDs'
  <2>1. PICK j \in 1 .. p - c : x = savedDoneQueueHead[j]
    BY <1>5
  <2>2. h[n - p + j] = savedDoneQueueHead[j] /\ n - p + j \in 1 .. n - c
    BY <1>3, <1>6
  <2> QED BY <1>5, <2>1, <2>2
<1>11. ASSUME NEW x \in TakenTDs PROVE x \in ChainTDs'
  BY <1>5, <1>7
<1> QED BY <1>9, <1>10, <1>11

\* The filter publishes its chain: the TDs it took are the newest of the endpoint's.
LEMMA FilterPublishes ==
  ASSUME Base, LostInv, FilterPublish
  PROVE  Base' /\ LostInv'
<1>1. /\ fpc = "scan" /\ fpc' = "idle" /\ savedDoneQueueHead' = pCachedHead /\ producerCount' = cachedProducer
      /\ UNCHANGED <<toDoList, doneQueue, deferredQueue, returned, frame, tdSlots, inSlot, outSlot, scheduledTDs,
                     consumerCount, tdsScheduled, gpc, stopping, upset>>
  BY DEF FilterPublish, Published, listVars, slotVars, schedVars, tdVars, gateVars, histVars
<1>2. PICK h \in Seq(Numbers), n \in Nat, p \in Nat, c \in Nat :
        h = pCachedHead /\ n = cachedProducer /\ p = producerCount /\ c = consumerCount /\ c <= p /\ p <= n /\ Len(h) = n
  BY <1>1 DEF Base, FilterTypes, ChainTypes
<1>3. \A j \in 1 .. p : h[n - p + j] = savedDoneQueueHead[j]
  BY <1>1, <1>2 DEF Base, FilterTypes
<1>4. ListTypes' /\ SlotTypes'
  BY <1>1 DEF Base, ListTypes, SlotTypes, Sent
<1>5. ChainTypes'
  <2>1. c \in 0 .. n
    BY <1>2
  <2> QED BY <1>1, <1>2, <2>1 DEF ChainTypes
<1>6. FilterTypes' /\ GateTypes'
  BY <1>1 DEF Base, FilterTypes, GateTypes, Used
<1>7. Sent' = Sent /\ AtHome' = AtHome /\ Home' = Home /\ InSlots' = InSlots /\ Fresh = n - p /\ Fresh' = 0
  BY <1>1, <1>2 DEF Sent, AtHome, Home, InSlots, Fresh
<1>8. SlotTDs' = SlotTDs /\ \A s : Off(s)' = Off(s)
  BY <1>1, <1>7 DEF SlotTDs, Off
<1>9. TakenTDs' = {}
  BY <1>7 DEF TakenTDs
<1>10. ChainTDs' = ChainTDs \cup TakenTDs
  BY PublishedChain
<1>11. Places' = Places
  BY <1>7, <1>8, <1>9, <1>10 DEF Places
<1>12. PlaceInv => PlaceInv'
  <2>1. PICK a \in Nat, s \in Int : a = AtHome /\ s = scheduledTDs
    BY Counts
  <2>2. a + (p - c) + (n - p) + s = a + (n - c) + 0 + s
    BY <1>2
  <2>3. AtHome + (producerCount - consumerCount) + Fresh + scheduledTDs = a + (p - c) + (n - p) + s
    BY <1>2, <1>7, <2>1
  <2>4. AtHome' + (producerCount' - consumerCount') + Fresh' + scheduledTDs' = a + (n - c) + 0 + s
    BY <1>1, <1>2, <1>7, <2>1
  <2> QED BY <1>7, <1>11, <2>2, <2>3, <2>4 DEF PlaceInv
<1>13. WindowInv => WindowInv'
  BY <1>1, <1>7, <1>8 DEF WindowInv
<1> QED BY <1>1, <1>4, <1>5, <1>6, <1>7, <1>11, <1>12, <1>13 DEF Base, LostInv

\* Every step keeps the invariant.
LEMMA LostStep == Base /\ LostInv /\ [Next]_vars => Base' /\ LostInv'
<1> SUFFICES ASSUME Base, LostInv, [Next]_vars PROVE Base' /\ LostInv'
  OBVIOUS
<1>1. CASE UIMCreateIsochTransfer
  BY <1>1, RequestKeeps
<1>2. CASE AddLate
  BY <1>2, LateKeeps
<1>3. CASE AddBegin
  BY <1>3, BeginKeeps
<1>4. CASE AddToSlot
  BY <1>4, SlotKeeps
<1>5. CASE RetireIsocTransactions
  BY <1>5, RetireKeeps
<1>6. CASE PollBounced
  BY <1>6, PolledKeeps
<1>7. CASE ReturnThread
  BY <1>7, ThreadKeeps
<1>8. CASE AbortIsochEP
  BY <1>8, AbortKeeps
<1>9. CASE FilterBegin
  BY <1>9, FilterBegins
<1>10. CASE FilterSkip
  BY <1>10, FilterSkips
<1>11. CASE FilterTest
  BY <1>11, FilterTests
<1>12. CASE FilterPublish
  BY <1>12, FilterPublishes
<1>13. CASE \/ AddNothing \/ AddDelayed \/ AddNoRoom \/ AddToRing \/ AddStart \/ AddMark \/ Abort \/ FilterPass
            \/ Xhc \/ HwPart \/ HwMiss
  BY <1>13, OthersKeep
<1>14. CASE UNCHANGED vars
  <2>3. UNCHANGED listVars /\ UNCHANGED slotVars /\ UNCHANGED schedVars /\ UNCHANGED chainVars /\ UNCHANGED tdVars
        /\ UNCHANGED filterVars /\ UNCHANGED gateVars /\ UNCHANGED histVars
    BY <1>14 DEF vars
  <2>4. /\ UNCHANGED <<toDoList, doneQueue, deferredQueue, tdSlots, inSlot, outSlot, scheduledTDs>>
        /\ UNCHANGED <<savedDoneQueueHead, producerCount, consumerCount, frame, tdsScheduled>>
    BY <2>3 DEF listVars, slotVars, schedVars, chainVars, tdVars
  <2>5. UNCHANGED <<fpc, testSlot, stopSlot, pCachedHead, cachedProducer, gpc, stopping, upset, returned>>
    BY <2>3 DEF filterVars, gateVars, histVars
  <2>1. UNCHANGED keptVars /\ UNCHANGED <<upset, gpc, stopping, tdsScheduled, toDoList, inSlot>>
    BY <2>4, <2>5 DEF keptVars
  <2>2. GateTypes' /\ (fpc = "scan" => tdsScheduled')
    BY <2>1 DEF Base, GateTypes, FilterTypes, Used
  <2> QED BY <2>1, <2>2, ElsewhereKeeps
<1> QED BY <1>1, <1>2, <1>3, <1>4, <1>5, <1>6, <1>7, <1>8, <1>9, <1>10, <1>11, <1>12, <1>13, <1>14
        DEF Next, AddIsocFramesToSchedule, PollEventRing2, Filter

\* NoTDLost follows: the window holds the TDs in slots, and the counts add up to those requested.
LEMMA LostImplies == Base /\ LostInv => NoTDLost
<1> SUFFICES ASSUME Base, LostInv, "restarted" \notin upset PROVE NoTDLost
  BY DEF NoTDLost
<1>1. WindowInv /\ PlaceInv
  BY DEF LostInv
<1>2. PICK t \in Seq(Numbers), k \in Seq(Numbers), s \in Seq(Numbers), d \in Seq(Numbers), e \in Seq(Numbers), r \in Seq(Numbers) :
        /\ t = toDoList /\ k = Taken /\ s = SubSeq(savedDoneQueueHead, 1, producerCount - consumerCount)
        /\ d = doneQueue /\ e = deferredQueue /\ r = returned
        /\ Len(k) = Fresh /\ ToSet(k) = TakenTDs
        /\ Len(s) = producerCount - consumerCount /\ ToSet(s) = ChainTDs
  <2>1. Taken \in Seq(Numbers) /\ Len(Taken) = Fresh /\ ToSet(Taken) = TakenTDs
    <3>1. CASE fpc = "scan"
      <4>1. PICK h \in Seq(Numbers), n \in Nat, p \in Nat :
              h = pCachedHead /\ n = cachedProducer /\ p = producerCount /\ p <= n /\ Len(h) = n
        BY <3>1 DEF Base, FilterTypes, ChainTypes
      <4>2. PICK m \in 0 .. Len(h) : m = n - p
        BY <4>1
      <4>3. /\ SubSeq(h, 1, m) \in Seq(Numbers) /\ Len(SubSeq(h, 1, m)) = m
            /\ ToSet(SubSeq(h, 1, m)) = {h[i] : i \in 1 .. m}
        BY CutInTwo
      <4>4. Taken = SubSeq(h, 1, m) /\ Fresh = m /\ TakenTDs = {h[i] : i \in 1 .. m}
        BY <3>1, <4>1, <4>2 DEF Taken, Fresh, TakenTDs
      <4> QED BY <4>3, <4>4
    <3>2. CASE fpc # "scan"
      <4>1. <<>> \in Seq(Numbers) /\ Len(<<>>) = 0 /\ ToSet(<<>>) = {}
        BY DEF ToSet
      <4>2. Fresh = 0 /\ TakenTDs = {} /\ Taken = <<>>
        BY <3>2 DEF Fresh, TakenTDs, Taken
      <4> QED BY <4>1, <4>2
    <3> QED BY <3>1, <3>2
  <2>2. /\ SubSeq(savedDoneQueueHead, 1, producerCount - consumerCount) \in Seq(Numbers)
        /\ Len(SubSeq(savedDoneQueueHead, 1, producerCount - consumerCount)) = producerCount - consumerCount
        /\ ToSet(SubSeq(savedDoneQueueHead, 1, producerCount - consumerCount)) = ChainTDs
    BY ChainedIs DEF Base
  <2>3. toDoList \in Seq(Numbers) /\ doneQueue \in Seq(Numbers) /\ deferredQueue \in Seq(Numbers) /\ returned \in Seq(Numbers)
    BY DEF Base, ListTypes
  <2> QED BY <2>1, <2>2, <2>3
<1>3. PICK a : a = t \o k
  OBVIOUS
<1>4. a \in Seq(Numbers) /\ Len(a) = Len(t) + Len(k) /\ ToSet(a) = ToSet(t) \cup ToSet(k)
  <2>1. t \o k \in Seq(Numbers) /\ Len(t \o k) = Len(t) + Len(k) /\ ToSet(t \o k) = ToSet(t) \cup ToSet(k)
    BY JoinHas
  <2> QED BY <1>3, <2>1, Zenon
<1>5. PICK b : b = a \o s
  OBVIOUS
<1>6. b \in Seq(Numbers) /\ Len(b) = Len(a) + Len(s) /\ ToSet(b) = ToSet(a) \cup ToSet(s)
  <2>2. a \in Seq(Numbers)
    BY <1>4
  <2>1. a \o s \in Seq(Numbers) /\ Len(a \o s) = Len(a) + Len(s) /\ ToSet(a \o s) = ToSet(a) \cup ToSet(s)
    BY <2>2, JoinHas
  <2> QED BY <1>5, <2>1, Zenon
<1>7. PICK c : c = b \o d
  OBVIOUS
<1>8. c \in Seq(Numbers) /\ Len(c) = Len(b) + Len(d) /\ ToSet(c) = ToSet(b) \cup ToSet(d)
  <2>2. b \in Seq(Numbers)
    BY <1>6
  <2>1. b \o d \in Seq(Numbers) /\ Len(b \o d) = Len(b) + Len(d) /\ ToSet(b \o d) = ToSet(b) \cup ToSet(d)
    BY <2>2, JoinHas
  <2> QED BY <1>7, <2>1, Zenon
<1>9. PICK f : f = c \o e
  OBVIOUS
<1>10. f \in Seq(Numbers) /\ Len(f) = Len(c) + Len(e) /\ ToSet(f) = ToSet(c) \cup ToSet(e)
  <2>2. c \in Seq(Numbers)
    BY <1>8
  <2>1. c \o e \in Seq(Numbers) /\ Len(c \o e) = Len(c) + Len(e) /\ ToSet(c \o e) = ToSet(c) \cup ToSet(e)
    BY <2>2, JoinHas
  <2> QED BY <1>9, <2>1, Zenon
<1>11. PICK p : p = f \o r
  OBVIOUS
<1>12. p \in Seq(Numbers) /\ Len(p) = Len(f) + Len(r) /\ ToSet(p) = ToSet(f) \cup ToSet(r)
  <2>2. f \in Seq(Numbers)
    BY <1>10
  <2>1. f \o r \in Seq(Numbers) /\ Len(f \o r) = Len(f) + Len(r) /\ ToSet(f \o r) = ToSet(f) \cup ToSet(r)
    BY <2>2, JoinHas
  <2> QED BY <1>11, <2>1, Zenon
<1>13. ToSet(p) = ToSet(t) \cup TakenTDs \cup ChainTDs \cup Home
  BY <1>2, <1>4, <1>6, <1>8, <1>10, <1>12, Zenon DEF Home
<1>14. PICK lt \in Nat, lk \in Nat, ls \in Nat, ld \in Nat, le \in Nat, lr \in Nat :
         lt = Len(t) /\ lk = Len(k) /\ ls = Len(s) /\ ld = Len(d) /\ le = Len(e) /\ lr = Len(r)
  BY LenProperties
<1>15. Len(p) = lt + lk + ls + ld + le + lr
  BY <1>4, <1>6, <1>8, <1>10, <1>12, <1>14, Zenon
<1>16. PICK n \in Nat, sent \in Nat : n = Len(frame) /\ sent = Sent /\ sent + lt = n /\ ToSet(t) = sent + 1 .. n
  BY <1>2, <1>14, QueuesKnown
<1>17. PICK sc \in Int : sc = scheduledTDs /\ (lr + ld + le) + ls + lk + sc = sent /\ sc = Cardinality(InSlots)
  <2>1. AtHome = lr + ld + le
    BY <1>2, <1>14 DEF AtHome
  <2> QED BY <1>1, <1>2, <1>14, <1>16, <2>1, Counts DEF PlaceInv, WindowInv
<1>18. Len(p) + Cardinality(InSlots) = Len(frame)
  BY <1>15, <1>16, <1>17, SMTT(30)
<1>19. DOMAIN frame = 1 .. n
  BY <1>16, LenProperties DEF Base, ListTypes
<1>20. ToSet(p) \cup SlotTDs = DOMAIN frame
  <2>1. Places = 1 .. sent
    BY <1>1, <1>16 DEF Base, PlaceInv
  <2>2. ToSet(p) \cup SlotTDs = (sent + 1 .. n) \cup Places
    BY <1>13, <1>16 DEF Places
  <2>3. (sent + 1 .. n) \cup (1 .. sent) = 1 .. n
    BY <1>14, <1>16
  <2> QED BY <1>19, <2>1, <2>2, <2>3
<1>21. p = toDoList \o Taken \o SubSeq(savedDoneQueueHead, 1, producerCount - consumerCount)
             \o doneQueue \o deferredQueue \o returned
  BY <1>2, <1>3, <1>5, <1>7, <1>9, <1>11, Zenon
<1>22. scheduledTDs = Cardinality(InSlots) /\ Len(Window) = scheduledTDs
  BY <1>1, WindowOf DEF Base, WindowInv
<1>23. SlotTDs = {tdSlots[x] : x \in InSlots}
  BY DEF SlotTDs
<1> HIDE DEF SlotTDs
<1>24. /\ LET places == p
              slots == SlotTDs
          IN  /\ Len(places) + Cardinality(InSlots) = Len(frame)
              /\ ToSet(places) \cup slots = DOMAIN frame
  BY <1>18, <1>20
<1> QED BY <1>21, <1>22, <1>23, <1>24, Zenon DEF NoTDLost

\* The invariant holds.
THEOREM LostAlways == Spec => [](Base /\ LostInv)
<1>1. Init => Base /\ LostInv
  BY InitLost
<1>2. (Base /\ LostInv) /\ [Next]_vars => (Base /\ LostInv)'
  BY LostStep
<1> QED BY <1>1, <1>2, PTL DEF Spec

\* No TD of a request is lost or in two places, for every number of slots and every number of TDs, as
\* the filter, the gate's side and the xHC interleave.
THEOREM NoTDLostHolds == Spec => []NoTDLost
<1>1. Base /\ LostInv => NoTDLost
  BY LostImplies
<1> QED BY <1>1, LostAlways, PTL

-----------------------------------------------------------------------------
(* Order. TDs are numbered in the order of their frames, so that queues are  *)
(* in order when the numbers on them rise.                                 *)

FrameInv == \A j, k \in 1 .. Len(frame) : j < k => frame[j] < frame[k]

QueuesInOrder(q) == Rising(q.done) /\ Rising(q.def) /\ Before(ToSet(q.done), ToSet(q.def))

\* With frames that increase, the one with the lower frame is the earlier TD.
LEMMA FramesOrder ==
  ASSUME FrameInv, frame \in Seq(Nat), NEW x \in 1 .. Len(frame), NEW y \in 1 .. Len(frame)
  PROVE  (frame[x] < frame[y] => x < y) /\ (frame[x] >= frame[y] => x >= y)
<1>1. PICK f \in Nat, g \in Nat, n \in Nat : f = frame[x] /\ g = frame[y] /\ n = Len(frame)
  BY ElementOfSeq, LenProperties
<1>2. (x < y => f < g) /\ (y < x => g < f) /\ (x = y => f = g)
  BY <1>1 DEF FrameInv
<1>3. x \in Int /\ y \in Int
  BY <1>1
<1> QED BY <1>1, <1>2, <1>3

\* td is in its place in r: behind all that is earlier, and before all that is later.
PutInOrder(q, td, r) ==
  /\ QueuesInOrder(r) /\ ToSet(r.def) \subseteq ToSet(q.def)
  /\ (\A x \in ToSet(r.done) : x <= td) /\ Before({td}, ToSet(r.def))

\* PutTDonDoneQueue keeps the queues in order.
LEMMA PutOneInOrder ==
  ASSUME NEW q, NEW td, FrameInv, frame \in Seq(Nat), q \in QueuesOf(1 .. Len(frame)), td \in 1 .. Len(frame),
         QueuesInOrder(q), Before(ToSet(q.done), {td}), td \notin ToSet(q.def)
  PROVE  PutInOrder(q, td, PutTDonDoneQueue(q, td))
<1> DEFINE r == PutTDonDoneQueue(q, td)
           S == 1 .. Len(frame)
<1>1. PICK n \in 0 .. Len(q.def) :
        /\ PutTDonDoneQueue(q, td) = [done |-> Append(q.done \o SubSeq(q.def, 1, n), td),
                                      def  |-> SubSeq(q.def, n + 1, Len(q.def))]
        /\ \A j \in 1 .. n : frame[q.def[j]] < frame[td]
        /\ n < Len(q.def) => frame[q.def[n + 1]] >= frame[td]
  <2>1. \A x \in S : frame[x] \in Nat
    BY ElementOfSeq
  <2> QED BY <2>1, PutOne
<1> HIDE DEF r
<1>2. PICK d \in Seq(S), e \in Seq(S) : d = q.done /\ e = q.def
  BY DEF QueuesOf
<1>3. S \subseteq Numbers /\ td \in Numbers
  BY DEF Numbers
<1>4. d \in Seq(Numbers) /\ e \in Seq(Numbers)
  BY <1>3, WiderSeq
<1>5. PICK l \in Nat : l = Len(e) /\ DOMAIN e = 1 .. l /\ \A j \in 1 .. l : e[j] \in S
  BY LenProperties, ElementOfSeq
<1>6. n \in 0 .. l
  BY <1>1, <1>2, <1>5
<1>7. Rising(d) /\ Rising(e) /\ Before(ToSet(d), ToSet(e)) /\ Before(ToSet(d), {td}) /\ td \notin ToSet(e)
  BY <1>2 DEF QueuesInOrder
<1>8. PICK a, b : a = SubSeq(e, 1, n) /\ b = SubSeq(e, n + 1, Len(e))
  OBVIOUS
<1>9. /\ a \in Seq(Numbers) /\ b \in Seq(Numbers) /\ ToSet(a) = {e[i] : i \in 1 .. n}
      /\ ToSet(b) = {e[i] : i \in n + 1 .. l}
  <2>0. e \in Seq(Numbers) /\ n \in 0 .. Len(e)
    BY <1>4, <1>5, <1>6
  <2>1. /\ SubSeq(e, 1, n) \in Seq(Numbers) /\ SubSeq(e, n + 1, Len(e)) \in Seq(Numbers)
        /\ ToSet(SubSeq(e, 1, n)) = {e[i] : i \in 1 .. n}
        /\ ToSet(SubSeq(e, n + 1, Len(e))) = {e[i] : i \in n + 1 .. Len(e)}
    BY <2>0, CutIs, Zenon DEF IsCut
  <2> QED BY <1>5, <1>8, <2>1, Zenon
<1>0. ToSet(a) \subseteq ToSet(e) /\ ToSet(b) \subseteq ToSet(e)
  <2>1. (\A i \in 1 .. n : i \in 1 .. l) /\ (\A i \in n + 1 .. l : i \in 1 .. l)
    BY <1>6
  <2>2. \A i \in 1 .. l : e[i] \in ToSet(e)
    BY <1>5 DEF ToSet
  <2> QED BY <1>9, <2>1, <2>2
<1>10. Rising(a) /\ Rising(b) /\ Before(ToSet(a), ToSet(b))
  <2>1. /\ Rising(SubSeq(e, 1, n)) /\ Rising(SubSeq(e, n + 1, Len(e)))
        /\ Before(ToSet(SubSeq(e, 1, n)), ToSet(SubSeq(e, n + 1, Len(e))))
    BY <1>4, <1>5, <1>6, <1>7, RisingCut
  <2> QED BY <1>8, <2>1, Zenon
<1>11. Before(ToSet(a), {td})
  <2>1. ASSUME NEW i \in 1 .. n PROVE e[i] < td
    <3>0. \A j \in 1 .. n : frame[e[j]] < frame[td]
      BY <1>1, <1>2, Zenon
    <3>1. i \in 1 .. l /\ frame[e[i]] < frame[td]
      <4>1. i \in 1 .. l
        BY <1>6
      <4> QED BY <3>0, <4>1, Zenon
    <3>2. PICK y \in S : y = e[i]
      BY <1>5, <3>1
    <3>3. (frame[y] < frame[td] => y < td) /\ frame[y] < frame[td]
      BY <3>1, <3>2, FramesOrder
    <3> QED BY <3>2, <3>3, Zenon
  <2> QED BY <1>9, <2>1 DEF Before
<1>12. Before({td}, ToSet(b))
  <2>1. ASSUME NEW i \in n + 1 .. l PROVE td < e[i]
    <3>1. n + 1 \in 1 .. l /\ n < l /\ (i = n + 1 \/ n + 1 < i) /\ i \in 1 .. l
      BY <1>6
    <3>2. frame[e[n + 1]] >= frame[td]
      BY <1>1, <1>2, <1>5, <3>1
    <3>3. PICK y \in S, z \in S : y = e[n + 1] /\ z = e[i] /\ y \in ToSet(e)
      BY <1>5, <3>1 DEF ToSet
    <3>4. (frame[y] >= frame[td] => y >= td) /\ frame[y] >= frame[td]
      BY <3>2, <3>3, FramesOrder
    <3>5. y # td
      BY <1>7, <3>3
    <3>6. e[i] = e[n + 1] \/ e[n + 1] < e[i]
      BY <1>5, <1>7, <3>1 DEF Rising
    <3>7. y \in Int /\ z \in Int /\ td \in Int
      BY <1>3 DEF Numbers
    <3>8. td < z
      <4>1. PICK u \in Int, v \in Int, w \in Int : u = td /\ v = y /\ w = z
        BY <3>7
      <4>2. v >= u /\ v # u /\ (w = v \/ v < w)
        BY <3>3, <3>4, <3>5, <3>6, <4>1, Zenon
      <4>3. u < w
        BY <4>2
      <4> QED BY <4>1, <4>3, Zenon
    <3> QED BY <3>3, <3>8
  <2> QED BY <1>9, <2>1 DEF Before
<1>13. PICK c : c = d \o a
  OBVIOUS
<1>14. c \in Seq(Numbers) /\ ToSet(c) = ToSet(d) \cup ToSet(a) /\ Rising(c)
  <2>1. d \o a \in Seq(Numbers) /\ ToSet(d \o a) = ToSet(d) \cup ToSet(a)
    BY <1>4, <1>9, JoinHas
  <2>2. Before(ToSet(d), ToSet(a))
    <3> QED BY <1>0, <1>7 DEF Before
  <2>3. Rising(d \o a)
    BY <1>4, <1>7, <1>9, <1>10, <2>2, RisingJoined
  <2> QED BY <1>13, <2>1, <2>3, Zenon
<1>15. PICK f : f = Append(c, td)
  OBVIOUS
<1>16. Before(ToSet(c), {td})
  BY <1>7, <1>11, <1>14 DEF Before
<1>17. f \in Seq(Numbers) /\ ToSet(f) = ToSet(c) \cup {td} /\ Rising(f)
  <2>1. Append(c, td) \in Seq(Numbers) /\ ToSet(Append(c, td)) = ToSet(c) \cup {td}
    BY <1>3, <1>14, AppendHas
  <2>2. Rising(Append(c, td))
    BY <1>3, <1>14, <1>16, RisingAppended
  <2> QED BY <1>15, <2>1, <2>2, Zenon
<1>18. r = [done |-> f, def |-> b]
  BY <1>1, <1>2, <1>8, <1>13, <1>15, Zenon DEF r
<1>19. r.done = f /\ r.def = b
  BY <1>18
<1>20. Before(ToSet(f), ToSet(b))
  <2>1. ASSUME NEW x \in ToSet(f), NEW y \in ToSet(b) PROVE x < y
    <3>1. y \in ToSet(e) /\ td < y
      BY <1>0, <1>12 DEF Before
    <3>2. x \in ToSet(d) \/ x \in ToSet(a) \/ x = td
      BY <1>14, <1>17
    <3> QED BY <1>7, <1>10, <3>1, <3>2 DEF Before
  <2> QED BY <2>1 DEF Before
<1>21. ToSet(b) \subseteq ToSet(e)
  BY <1>0
<1>22. \A x \in ToSet(f) : x <= td
  <2>1. ASSUME NEW x \in ToSet(f) PROVE x <= td
    <3>1. x < td \/ x = td
      BY <1>16, <1>17 DEF Before
    <3>2. x \in Int /\ td \in Int
      <4>1. x \in Numbers
        BY <1>17, LenProperties, ElementOfSeq DEF ToSet
      <4> QED BY <4>1 DEF Numbers
    <3> QED BY <3>1, <3>2
  <2> QED BY <2>1
<1>23. PutInOrder(q, td, r)
  BY <1>2, <1>10, <1>12, <1>17, <1>19, <1>20, <1>21, <1>22 DEF PutInOrder, QueuesInOrder
<1> QED BY <1>23 DEF r

\* All of tds are in their place in r.
AllInOrder(q, tds, r) ==
  /\ QueuesInOrder(r) /\ ToSet(r.def) \subseteq ToSet(q.def)
  /\ \A x \in ToSet(r.done) : x \in ToSet(q.done) \/ \E y \in ToSet(tds) : x <= y

\* So do several, in their order.
LEMMA PutAllInOrder ==
  ASSUME NEW q, NEW tds, FrameInv, frame \in Seq(Nat), q \in QueuesOf(1 .. Len(frame)), tds \in Seq(1 .. Len(frame)),
         Rising(tds), QueuesInOrder(q), Before(ToSet(q.done), ToSet(tds)), ToSet(tds) \cap ToSet(q.def) = {}
  PROVE  AllInOrder(q, tds, PutAll(q, tds))
<1> DEFINE r == PutAll(q, tds)
           S == 1 .. Len(frame)
<1> HIDE DEF r
<1>0. PICK L \in Nat : L = Len(tds) /\ DOMAIN tds = 1 .. L
  BY LenProperties
<1>1. L = Len(tds) /\ \A n \in 1 .. L : tds[n] \in S /\ tds[n] \in ToSet(tds)
  <2>1. \A n \in 1 .. L : tds[n] \in S
    BY <1>0, ElementOfSeq
  <2>2. \A n \in 1 .. L : tds[n] \in ToSet(tds)
    BY <1>0 DEF ToSet
  <2> QED BY <1>0, <2>1, <2>2
<1>2. PICK put : /\ put[0] = q
                 /\ \A n \in 1 .. L : put[n] = PutTDonDoneQueue(put[n - 1], tds[n])
                 /\ r = put[L]
  <2>1. tds \in Seq(S)
    OBVIOUS
  <2> HIDE DEF S
  <2>2. PICK put : /\ put[0] = q
                   /\ \A n \in 1 .. Len(tds) : put[n] = PutTDonDoneQueue(put[n - 1], tds[n])
                   /\ PutAll(q, tds) = put[Len(tds)]
    BY <2>1, PutEach
  <2>3. \A n \in 1 .. L : put[n] = PutTDonDoneQueue(put[n - 1], tds[n])
    BY <1>0, <2>2, Zenon
  <2>4. r = put[L]
    BY <1>0, <2>2, Zenon DEF r
  <2> QED BY <2>2, <2>3, <2>4, Zenon
<1>3. \A x \in S : frame[x] \in Nat
  BY ElementOfSeq
<1> DEFINE Keeps(n, p) == /\ p \in QueuesOf(S) /\ QueuesInOrder(p) /\ ToSet(p.def) \subseteq ToSet(q.def)
                          /\ \A x \in ToSet(p.done) : x \in ToSet(q.done) \/ (n > 0 /\ x <= tds[n])
           Kept == {n \in 0 .. L : Keeps(n, put[n])}
<1>4. 0 \in Kept
  BY <1>2
<1>5. ASSUME NEW n \in 0 .. L - 1, n \in Kept PROVE n + 1 \in Kept
  <2>1. n + 1 \in 1 .. L /\ (n + 1) - 1 = n /\ n + 1 \in 0 .. L /\ n \in Nat /\ n + 1 > 0 /\ (n > 0 => n \in 1 .. L /\ n < n + 1)
    BY <1>1
  <2>2. PICK p, t, x : p = put[n] /\ t = put[n + 1] /\ x = tds[n + 1]
    OBVIOUS
  <2>3. Keeps(n, p)
    BY <1>5, <2>2
  <2>4. t = PutTDonDoneQueue(p, x) /\ x \in S /\ x \in ToSet(tds)
    BY <1>1, <1>2, <2>1, <2>2
  <2>5. Before(ToSet(p.done), {x})
    <3>1. ASSUME NEW y \in ToSet(p.done) PROVE y < x
      <4>1. CASE y \in ToSet(q.done)
        BY <2>4, <4>1 DEF Before
      <4>2. CASE n > 0 /\ y <= tds[n]
        <5>1. tds[n] < x
          BY <1>1, <2>1, <2>2, <4>2 DEF Rising
        <5>2. tds[n] \in S
          BY <1>1, <2>1, <4>2
        <5>3. y \in S
          <6>1. p.done \in Seq(S)
            BY <2>3 DEF QueuesOf
          <6> QED BY SMTT(40), <6>1, LenProperties, ElementOfSeq DEF ToSet
        <5>4. y \in Int /\ x \in Int /\ tds[n] \in Int
          BY <2>4, <5>2, <5>3
        <5> QED BY <4>2, <5>1, <5>4
      <4> QED BY <2>3, <4>1, <4>2
    <3> QED BY <3>1 DEF Before
  <2>6. x \notin ToSet(p.def)
    BY <2>3, <2>4
  <2>7. PutInOrder(p, x, PutTDonDoneQueue(p, x))
    BY <2>3, <2>4, <2>5, <2>6, PutOneInOrder
  <2>8. OnePut(S, p, x, PutTDonDoneQueue(p, x))
    BY <1>3, <2>3, <2>4, PutOneKeeps
  <2>9. PutInOrder(p, x, t) /\ t \in QueuesOf(S)
    BY <2>4, <2>7, <2>8 DEF OnePut
  <2>10. Keeps(n + 1, t)
    BY <2>1, <2>2, <2>3, <2>9 DEF PutInOrder
  <2> HIDE DEF Keeps
  <2> QED BY <2>1, <2>2, <2>10
<1> HIDE DEF Kept
<1>6. L \in Kept
  <2>1. \A n \in 0 .. L : n \in Kept
    BY <1>1, <1>4, <1>5, UpTo
  <2> QED BY <1>1, <2>1
<1>7. Keeps(L, r)
  BY <1>2, <1>6 DEF Kept
<1>8. AllInOrder(q, tds, r)
  <2>1. L > 0 => tds[L] \in ToSet(tds)
    BY <1>1
  <2> QED BY <1>7, <2>1 DEF AllInOrder
<1> QED BY <1>8 DEF r

\* What the queues, the TDs returned and those elsewhere have to do with each other: in the order of the
\* frames come those returned, those on the done queue, those on the endpoint's chain, those on the filter's
\* and those in slots, and the deferred, which are behind the returned and the done.
Away           == ChainTDs \cup TakenTDs \cup SlotTDs
Falling(s, n)  == \A j, k \in 1 .. n : j < k => s[k] < s[j]
HomeOrder ==
  /\ QueuesInOrder(Queues)
  /\ Rising(returned) /\ Before(ToSet(returned), ToSet(doneQueue) \cup ToSet(deferredQueue))
AwayOrder ==
  /\ Before(ToSet(returned) \cup ToSet(doneQueue), Away) /\ ToSet(deferredQueue) \cap Away = {}
  /\ Before(ChainTDs, TakenTDs) /\ Before(ChainTDs \cup TakenTDs, SlotTDs)
  /\ Falling(savedDoneQueueHead, producerCount - consumerCount) /\ Falling(pCachedHead, Fresh)
OrderInv ==
  /\ FrameInv
  /\ "restarted" \notin upset => SlotOrder
  /\ upset \cap {"overtaken", "restarted"} = {} => HomeOrder /\ AwayOrder

\* Everything the steps keep.
OrderBase == Base /\ LostInv /\ OrderInv

\* What is returned comes behind what was, and all of it only when nothing is elsewhere.
LEMMA ReturnInOrder ==
  ASSUME NEW q, NEW c, q \in QueuesOf(Numbers), returned \in Seq(Numbers), ReturnIsochDoneQueue(q, c),
         QueuesInOrder(q), Rising(returned), Before(ToSet(returned), ToSet(q.done) \cup ToSet(q.def))
  PROVE  /\ HomeOrder' /\ ToSet(doneQueue') = {} /\ ToSet(deferredQueue') \subseteq ToSet(q.def)
         /\ \/ ToSet(returned') = ToSet(returned) \cup ToSet(q.done)
            \/ scheduledTDs = 0 /\ c = producerCount /\ fpc = "idle" /\ ToSet(deferredQueue') = {}
<1>1. PICK d \in Seq(Numbers), e \in Seq(Numbers) : d = q.done /\ e = q.def
  BY DEF QueuesOf
<1>2. Rising(d) /\ Rising(e) /\ Before(ToSet(d), ToSet(e)) /\ Before(ToSet(returned), ToSet(d) \cup ToSet(e))
  BY <1>1 DEF QueuesInOrder
<1>3. <<>> \in Seq(Numbers) /\ ToSet(<<>>) = {} /\ Rising(<<>>)
  BY DEF ToSet, Rising
<1>4. PICK r : r = returned \o d
  OBVIOUS
<1>5. r \in Seq(Numbers) /\ ToSet(r) = ToSet(returned) \cup ToSet(d) /\ Rising(r)
  <2>1. returned \o d \in Seq(Numbers) /\ ToSet(returned \o d) = ToSet(returned) \cup ToSet(d)
    BY <1>1, JoinHas
  <2>2. Before(ToSet(returned), ToSet(d))
    BY <1>2 DEF Before
  <2>3. Rising(returned \o d)
    BY <1>2, <2>2, RisingJoined
  <2> QED BY <1>4, <2>1, <2>3, Zenon
<1>6. PICK left :
        /\ returned' = r \o left /\ doneQueue' = <<>> /\ deferredQueue' = IF left = <<>> THEN e ELSE <<>>
        /\ left = <<>> \/ (left = e /\ scheduledTDs = 0 /\ c = producerCount /\ fpc = "idle")
  BY <1>1, <1>4 DEF ReturnIsochDoneQueue
<1>7. left \in Seq(Numbers) /\ Rising(left) /\ ToSet(left) \subseteq ToSet(e)
  BY <1>1, <1>2, <1>3, <1>6
<1>8. Before(ToSet(r), ToSet(e))
  BY <1>2, <1>5 DEF Before
<1>9. Before(ToSet(r), ToSet(left))
  BY <1>7, <1>8 DEF Before
<1>10. PICK b : b = r \o left
  OBVIOUS
<1>11. b \in Seq(Numbers) /\ ToSet(b) = ToSet(r) \cup ToSet(left) /\ Rising(b)
  <2>1. left \in Seq(Numbers) /\ r \in Seq(Numbers)
    BY <1>5, <1>7
  <2>2. r \o left \in Seq(Numbers) /\ ToSet(r \o left) = ToSet(r) \cup ToSet(left)
    BY <2>1, JoinHas
  <2>3. Rising(r \o left)
    BY <1>5, <1>7, <1>9, RisingJoined
  <2> QED BY <1>10, <2>2, <2>3, Zenon
<1>12. PICK f : f = deferredQueue'
  OBVIOUS
<1>13. (left = <<>> /\ f = e) \/ (left = e /\ f = <<>> /\ scheduledTDs = 0 /\ c = producerCount /\ fpc = "idle")
  BY <1>6, <1>12
<1>14. Rising(f) /\ ToSet(f) \subseteq ToSet(e) /\ Before(ToSet(b), ToSet(f))
  <2>1. CASE left = <<>> /\ f = e
    <3>1. ToSet(b) = ToSet(r)
      BY <1>3, <1>11, <2>1
    <3> QED BY <1>2, <1>8, <2>1, <3>1
  <2>2. CASE f = <<>>
    BY <1>3, <2>2 DEF Before
  <2> QED BY <1>13, <2>1, <2>2
<1>15. returned' = b /\ doneQueue' = <<>> /\ deferredQueue' = f
  BY <1>6, <1>10, <1>12
<1>16. HomeOrder'
  <2>1. QueuesInOrder([done |-> <<>>, def |-> f])
    BY <1>3, <1>14 DEF QueuesInOrder, Before
  <2>2. Queues' = [done |-> <<>>, def |-> f]
    BY <1>15 DEF Queues
  <2>3. Before(ToSet(b), ToSet(<<>>) \cup ToSet(f))
    BY <1>3, <1>14
  <2> QED BY <1>11, <1>15, <2>1, <2>2, <2>3, Zenon DEF HomeOrder
<1>17. \/ ToSet(b) = ToSet(returned) \cup ToSet(d)
       \/ scheduledTDs = 0 /\ c = producerCount /\ fpc = "idle" /\ ToSet(f) = {}
  BY <1>3, <1>5, <1>11, <1>13
<1> QED BY <1>1, <1>3, <1>14, <1>15, <1>16, <1>17

\* The TDs of the endpoint's chain rise from the oldest on.
LEMMA ChainedRises ==
  ASSUME ChainTypes, Falling(savedDoneQueueHead, producerCount - consumerCount)
  PROVE  Rising(Chained)
<1>0. PICK n \in Nat : n = producerCount - consumerCount
  BY DEF ChainTypes
<1>1. PICK s, c : n = producerCount - consumerCount /\ s = savedDoneQueueHead /\ c = Chained
  BY <1>0
<1>2. Len(c) = n /\ \A i \in 1 .. n : c[i] = s[n - i + 1]
  BY <1>1, ChainedIs
<1>3. \A j, k \in 1 .. n : j < k => s[k] < s[j]
  BY <1>1 DEF Falling
<1>4. ASSUME NEW j \in 1 .. n, NEW k \in 1 .. n, j < k PROVE c[j] < c[k]
  <2>1. n - j + 1 \in 1 .. n /\ n - k + 1 \in 1 .. n /\ n - k + 1 < n - j + 1
    BY <1>4
  <2>2. s[n - j + 1] < s[n - k + 1]
    BY <1>3, <2>1
  <2> QED BY <1>2, <2>2
<1>5. Rising(c)
  BY <1>2, <1>4 DEF Rising
<1> QED BY <1>1, <1>5

\* Without TDs in slots, on the filter's chain and on the endpoint's, all that is sent is at home.
LEMMA NothingAway ==
  ASSUME Base, WindowInv, scheduledTDs = 0, fpc # "scan"
  PROVE  SlotTDs = {} /\ TakenTDs = {} /\ (producerCount = consumerCount => Away = {})
<1>1. InSlots = {}
  BY InSlotsFinite, FS_EmptySet DEF Base, WindowInv
<1>2. SlotTDs = {}
  BY <1>1 DEF SlotTDs
<1>3. TakenTDs = {}
  BY DEF Fresh, TakenTDs
<1>4. producerCount = consumerCount => ChainTDs = {}
  BY Counts DEF ChainTDs
<1> QED BY <1>2, <1>3, <1>4 DEF Away

\* The order at first.
LEMMA InitOrder == Init => OrderInv
<1> SUFFICES ASSUME Init PROVE OrderInv
  OBVIOUS
<1>1. ToSet(<<>>) = {} /\ Rising(<<>>) /\ Len(<<>>) = 0
  BY DEF ToSet, Rising
<1>2. /\ doneQueue = <<>> /\ deferredQueue = <<>> /\ returned = <<>> /\ frame = <<>>
      /\ producerCount = 0 /\ consumerCount = 0 /\ fpc = "idle" /\ tdSlots = [s \in SlotNumbers |-> 0]
  BY DEF Init, SlotNumbers, Free
<1>3. InSlots = {} /\ Fresh = 0
  BY <1>2 DEF InSlots, Free, Fresh
<1>4. ChainTDs = {} /\ TakenTDs = {} /\ SlotTDs = {}
  BY <1>2, <1>3 DEF ChainTDs, TakenTDs, SlotTDs
<1>5. FrameInv /\ SlotOrder
  BY <1>1, <1>2, <1>3 DEF FrameInv, SlotOrder
<1>6. HomeOrder
  BY <1>1, <1>2 DEF HomeOrder, QueuesInOrder, Queues, Before
<1>7. AwayOrder
  BY <1>1, <1>2, <1>3, <1>4 DEF AwayOrder, Before, Away, Falling
<1> QED BY <1>5, <1>6, <1>7 DEF OrderInv

orderVars == <<doneQueue, deferredQueue, returned, frame, tdSlots, outSlot, savedDoneQueueHead, producerCount,
               consumerCount, fpc, pCachedHead, cachedProducer>>

\* Steps that move no TD.
LEMMA OrderElsewhere ==
  ASSUME OrderBase, UNCHANGED orderVars, upset \subseteq upset'
  PROVE  OrderInv'
<1>1. Fresh' = Fresh /\ InSlots' = InSlots /\ ChainTDs' = ChainTDs /\ \A s : Off(s)' = Off(s)
  BY DEF Fresh, InSlots, ChainTDs, Off, orderVars
<1>2. TakenTDs' = TakenTDs /\ SlotTDs' = SlotTDs
  BY <1>1 DEF TakenTDs, SlotTDs, orderVars
<1>3. FrameInv' /\ (SlotOrder => SlotOrder')
  BY <1>1 DEF OrderBase, OrderInv, FrameInv, SlotOrder, orderVars
<1>4. HomeOrder => HomeOrder'
  BY DEF HomeOrder, Queues, orderVars
<1>5. AwayOrder => AwayOrder'
  BY <1>1, <1>2 DEF AwayOrder, Away, orderVars
<1> QED BY <1>3, <1>4, <1>5 DEF OrderBase, OrderInv

\* The next TD comes behind all that were sent.
LEMMA NextIsLast ==
  ASSUME Base, toDoList # <<>>
  PROVE  /\ Head(toDoList) = Sent + 1 /\ Before(Places, {Sent + 1}) /\ Sent + 1 \notin Places
         /\ Sent + 1 \in Numbers /\ Sent + 1 \in 1 .. Len(frame)
<1>1. Sent \in Nat /\ \A x \in Places : x \in 1 .. Sent
  BY QueuesKnown DEF Base
<1>2. \A x \in 1 .. Sent : x < Sent + 1
  BY <1>1
<1>3. Before(Places, {Sent + 1})
  BY <1>1, <1>2 DEF Before
<1>4. Sent + 1 \notin 1 .. Sent
  BY <1>1
<1> QED BY <1>1, <1>3, <1>4, NextToDo

\* Where the order keeps TDs apart, in single facts.
LEMMA OrderOf ==
  ASSUME HomeOrder, AwayOrder
  PROVE  /\ Rising(doneQueue) /\ Rising(deferredQueue) /\ Rising(returned)
         /\ Before(ToSet(doneQueue), ToSet(deferredQueue)) /\ Before(ToSet(returned), ToSet(doneQueue))
         /\ Before(ToSet(returned), ToSet(deferredQueue))
         /\ Before(ToSet(returned), ChainTDs) /\ Before(ToSet(returned), TakenTDs) /\ Before(ToSet(returned), SlotTDs)
         /\ Before(ToSet(doneQueue), ChainTDs) /\ Before(ToSet(doneQueue), TakenTDs) /\ Before(ToSet(doneQueue), SlotTDs)
         /\ ToSet(deferredQueue) \cap ChainTDs = {} /\ ToSet(deferredQueue) \cap TakenTDs = {}
         /\ ToSet(deferredQueue) \cap SlotTDs = {}
         /\ Before(ChainTDs, TakenTDs) /\ Before(ChainTDs, SlotTDs) /\ Before(TakenTDs, SlotTDs)
         /\ Falling(savedDoneQueueHead, producerCount - consumerCount) /\ Falling(pCachedHead, Fresh)
<1>1. Queues.done = doneQueue /\ Queues.def = deferredQueue
  BY DEF Queues
<1>2. Rising(doneQueue) /\ Rising(deferredQueue) /\ Rising(returned) /\ Before(ToSet(doneQueue), ToSet(deferredQueue))
  BY <1>1 DEF HomeOrder, QueuesInOrder
<1>3. Before(ToSet(returned), ToSet(doneQueue)) /\ Before(ToSet(returned), ToSet(deferredQueue))
  BY DEF HomeOrder, Before
<1>4. /\ Before(ToSet(returned), ChainTDs) /\ Before(ToSet(returned), TakenTDs) /\ Before(ToSet(returned), SlotTDs)
      /\ Before(ToSet(doneQueue), ChainTDs) /\ Before(ToSet(doneQueue), TakenTDs) /\ Before(ToSet(doneQueue), SlotTDs)
  BY DEF AwayOrder, Before, Away
<1>5. /\ ToSet(deferredQueue) \cap ChainTDs = {} /\ ToSet(deferredQueue) \cap TakenTDs = {}
      /\ ToSet(deferredQueue) \cap SlotTDs = {}
  BY DEF AwayOrder, Away
<1>6. Before(ChainTDs, TakenTDs) /\ Before(ChainTDs, SlotTDs) /\ Before(TakenTDs, SlotTDs)
  BY DEF AwayOrder, Before
<1> QED BY <1>2, <1>3, <1>4, <1>5, <1>6 DEF AwayOrder

\* A late TD is the last of the deferred, or of those done when no other is away.
LEMMA LateInOrder ==
  ASSUME OrderBase, AddLate
  PROVE  OrderInv'
<1>1. /\ toDoList # <<>> /\ upset \subseteq upset' /\ (scheduledTDs = 0 /\ Behind => "overtaken" \in upset')
      /\ UNCHANGED <<returned, frame, tdSlots, outSlot, savedDoneQueueHead, producerCount, consumerCount, fpc,
                     pCachedHead, cachedProducer>>
      /\ \/ scheduledTDs > 0 /\ deferredQueue' = Append(deferredQueue, Head(toDoList)) /\ doneQueue' = doneQueue
         \/ /\ ~(scheduledTDs > 0)
            /\ doneQueue' = PutTDonDoneQueue(Queues, Head(toDoList)).done
            /\ deferredQueue' = PutTDonDoneQueue(Queues, Head(toDoList)).def
  BY DEF AddLate, slotVars, schedVars, chainVars, filterVars, Waiting
<1>2. Fresh' = Fresh /\ ChainTDs' = ChainTDs /\ InSlots' = InSlots /\ \A s : Off(s)' = Off(s)
  BY <1>1 DEF Fresh, ChainTDs, InSlots, Off
<1>3. TakenTDs' = TakenTDs /\ SlotTDs' = SlotTDs /\ Away' = Away
  BY <1>1, <1>2 DEF TakenTDs, SlotTDs, Away
<1>4. FrameInv' /\ ("restarted" \notin upset' => SlotOrder')
  BY <1>1, <1>2 DEF OrderBase, OrderInv, FrameInv, SlotOrder
<1>5. PICK td : td = Head(toDoList) /\ td \in Numbers /\ Before(Places, {td}) /\ td \notin Places /\ td \in 1 .. Len(frame)
  BY <1>1, NextIsLast DEF OrderBase
<1>6. SUFFICES ASSUME upset' \cap {"overtaken", "restarted"} = {} PROVE HomeOrder' /\ AwayOrder'
  BY <1>4 DEF OrderInv
<1>7. HomeOrder /\ AwayOrder /\ WindowInv
  BY <1>1, <1>6 DEF OrderBase, OrderInv, LostInv
<1>8. /\ Before(ToSet(returned), {td}) /\ Before(ToSet(doneQueue), {td}) /\ Before(ToSet(deferredQueue), {td})
      /\ td \notin Away /\ td \notin ToSet(deferredQueue)
  BY <1>5 DEF Before, Places, Home, Away
<1>9. CASE scheduledTDs > 0 /\ deferredQueue' = Append(deferredQueue, td) /\ doneQueue' = doneQueue
  <2>1. deferredQueue \in Seq(Numbers)
    BY DEF OrderBase, Base, ListTypes
  <2>2. ToSet(Append(deferredQueue, td)) = ToSet(deferredQueue) \cup {td}
    BY <1>5, <2>1, AppendHas
  <2>3. Rising(Append(deferredQueue, td))
    BY <1>5, <1>7, <1>8, <2>1, RisingAppended, OrderOf
  <2>4. PICK e : e = deferredQueue' /\ ToSet(e) = ToSet(deferredQueue) \cup {td} /\ Rising(e)
    BY <1>9, <2>2, <2>3, Zenon
  <2>5. Before(ToSet(doneQueue), ToSet(e)) /\ Before(ToSet(returned), ToSet(doneQueue) \cup ToSet(e))
    BY <1>7, <1>8, <2>4, OrderOf DEF Before
  <2>6. Queues' = [done |-> doneQueue, def |-> e]
    BY <1>9, <2>4 DEF Queues
  <2>7. QueuesInOrder([done |-> doneQueue, def |-> e])
    BY <1>7, <2>4, <2>5, OrderOf DEF QueuesInOrder
  <2>8. HomeOrder'
    BY <1>1, <1>7, <1>9, <2>4, <2>5, <2>6, <2>7, OrderOf, Zenon DEF HomeOrder
  <2>9. ToSet(e) \cap Away = {}
    BY <1>7, <1>8, <2>4 DEF AwayOrder
  <2>10. AwayOrder'
    BY <1>1, <1>2, <1>3, <1>7, <1>9, <2>4, <2>9 DEF AwayOrder
  <2> QED BY <2>8, <2>10
<1>10. CASE /\ ~(scheduledTDs > 0)
            /\ doneQueue' = PutTDonDoneQueue(Queues, td).done /\ deferredQueue' = PutTDonDoneQueue(Queues, td).def
  <2>1. scheduledTDs = 0
    BY <1>7, <1>10, InSlotsFinite DEF OrderBase, Base, WindowInv
  <2>2. producerCount = consumerCount /\ fpc # "scan"
    BY <1>1, <1>6, <2>1 DEF Behind
  <2>3. Away = {} /\ ChainTDs = {} /\ TakenTDs = {} /\ SlotTDs = {}
    BY <1>7, <2>1, <2>2, NothingAway DEF OrderBase, Away
  <2>4. Queues \in QueuesOf(1 .. Len(frame)) /\ Queues.done = doneQueue /\ Queues.def = deferredQueue
        /\ \A x \in 1 .. Len(frame) : frame[x] \in Nat
    BY QueuesKnown DEF OrderBase
  <2>5. FrameInv /\ frame \in Seq(Nat) /\ QueuesInOrder(Queues)
    BY <1>7 DEF OrderBase, OrderInv, Base, ListTypes, HomeOrder
  <2>6. PutInOrder(Queues, td, PutTDonDoneQueue(Queues, td))
    BY <1>5, <1>8, <2>4, <2>5, PutOneInOrder
  <2>7. OnePut(1 .. Len(frame), Queues, td, PutTDonDoneQueue(Queues, td))
    BY <1>5, <2>4, PutOneKeeps
  <2>8. PICK q : q = PutTDonDoneQueue(Queues, td) /\ PutInOrder(Queues, td, q) /\ OnePut(1 .. Len(frame), Queues, td, q)
    BY <2>6, <2>7
  <2>9. doneQueue' = q.done /\ deferredQueue' = q.def /\ QueuesInOrder(q)
    BY <1>10, <2>8 DEF PutInOrder
  <2>10. ToSet(q.done) \cup ToSet(q.def) = ToSet(doneQueue) \cup ToSet(deferredQueue) \cup {td}
    BY <2>4, <2>8 DEF OnePut
  <2>11. Before(ToSet(returned), ToSet(q.done) \cup ToSet(q.def))
    BY <1>7, <1>8, <2>10, OrderOf DEF Before
  <2>12. QueuesInOrder(Queues')
    BY <2>9 DEF Queues, QueuesInOrder
  <2>13. HomeOrder'
    BY <1>1, <1>7, <2>9, <2>11, <2>12, OrderOf, Zenon DEF HomeOrder
  <2>14. AwayOrder'
    BY <1>1, <1>2, <1>3, <1>7, <2>3 DEF AwayOrder, Before
  <2> QED BY <2>13, <2>14
<1> QED BY <1>1, <1>5, <1>9, <1>10

\* A TD put into the slot at inSlot is the last, and so is the slot.
LEMMA SlotInOrder ==
  ASSUME OrderBase, AddToSlot
  PROVE  OrderInv'
<1>1. /\ gpc = "slots" /\ ~SlotsFull /\ tdSlots' = [tdSlots EXCEPT ![inSlot] = Head(toDoList)] /\ inSlot # outSlot
      /\ outSlot' = (IF Used(outSlot) THEN outSlot ELSE 0)
      /\ UNCHANGED <<doneQueue, deferredQueue, returned, frame, savedDoneQueueHead,
                     producerCount, consumerCount, fpc, pCachedHead, cachedProducer, upset>>
  BY DEF AddToSlot, chainVars, tdVars, filterVars, histVars
<1>2. toDoList # <<>> /\ Used(inSlot)
  BY <1>1 DEF OrderBase, Base, GateTypes
<1>3. PICK td : td = Head(toDoList) /\ td \in Numbers /\ Before(Places, {td}) /\ td \notin Places
  BY <1>2, NextIsLast DEF OrderBase
<1>4. PICK i \in SlotNumbers : i = inSlot
  BY <1>2, UsedIs DEF OrderBase, Base, SlotTypes
<1>5. tdSlots \in [SlotNumbers -> Nat] /\ td \in Nat /\ td # 0 /\ DOMAIN tdSlots = SlotNumbers
  BY <1>3 DEF OrderBase, Base, SlotTypes, Numbers
<1>6. /\ DOMAIN tdSlots' = SlotNumbers /\ tdSlots'[i] = td
      /\ \A s \in SlotNumbers : s # i => tdSlots'[s] = tdSlots[s]
  BY <1>1, <1>3, <1>4, <1>5
<1>7. tdSlots[i] = 0
  BY <1>1, <1>4 DEF SlotsFull, Free
<1>8. InSlots \subseteq SlotNumbers /\ i \notin InSlots /\ InSlots' = InSlots \cup {i}
  BY <1>5, <1>6, <1>7 DEF InSlots, Free
<1>9. SlotTDs' = SlotTDs \cup {td}
  <2>1. SlotTDs' = {tdSlots'[s] : s \in InSlots'}
    BY DEF SlotTDs
  <2>2. \A s \in InSlots : tdSlots'[s] = tdSlots[s]
    BY <1>6, <1>8
  <2> QED BY <1>6, <1>8, <2>1, <2>2 DEF SlotTDs
<1>10. Fresh' = Fresh /\ ChainTDs' = ChainTDs
  BY <1>1 DEF Fresh, ChainTDs
<1>11. TakenTDs' = TakenTDs
  BY <1>1, <1>10 DEF TakenTDs
<1>12. FrameInv'
  BY <1>1 DEF OrderBase, OrderInv, FrameInv
<1>13. "restarted" \notin upset' => SlotOrder'
  <2> SUFFICES ASSUME "restarted" \notin upset PROVE SlotOrder'
    BY <1>1
  <2>1. SlotOrder /\ WindowInv
    BY DEF OrderBase, OrderInv, LostInv
  <2>2. \A s \in InSlots : tdSlots[s] < td
    BY <1>3 DEF Before, Places, SlotTDs
  <2>3. \A s \in InSlots : ~(Offset(outSlot', i) < Offset(outSlot', s))
    <3>1. CASE Used(outSlot)
      <4>1. outSlot' = outSlot /\ outSlot \in SlotNumbers
        BY <1>1, <3>1, UsedIs DEF OrderBase, Base, SlotTypes
      <4>2. ASSUME NEW s \in InSlots PROVE ~(Offset(outSlot', i) < Offset(outSlot', s))
        <5>1. Offset(outSlot, s) < Offset(outSlot, i)
          BY <1>4, <2>1, <3>1 DEF WindowInv, Off
        <5>2. Offset(outSlot, s) \in Int /\ Offset(outSlot, i) \in Int
          BY <1>8, <4>1, OffsetIs
        <5> QED BY <4>1, <5>1, <5>2
      <4> QED BY <4>2
    <3>2. CASE ~Used(outSlot)
      BY <2>1, <3>2 DEF WindowInv
    <3> QED BY <3>1, <3>2
  <2>4. PICK o : o = outSlot' /\ (InSlots # {} => o = outSlot)
    BY <1>1, <2>1 DEF WindowInv
  <2>5. ASSUME NEW s \in InSlots', NEW t \in InSlots', Offset(o, s) < Offset(o, t) PROVE tdSlots'[s] < tdSlots'[t]
    <3>0. Offset(o, i) \in Int
      <4>1. o \in SlotNumbers
        <5>1. 0 \in SlotNumbers
          BY Slots DEF SlotNumbers
        <5> QED BY <1>1, <2>4, <5>1, UsedIs DEF OrderBase, Base, SlotTypes
      <4> QED BY <4>1, OffsetIs
    <3>1. (s = i => t \notin InSlots) /\ ~(s = i /\ t = i)
      BY <2>3, <2>4, <2>5, <3>0
    <3>2. s \in InSlots /\ (t \in InSlots \/ t = i)
      BY <1>8, <3>1
    <3>3. CASE t = i
      BY <1>6, <1>8, <2>2, <3>2, <3>3
    <3>4. CASE t \in InSlots
      BY <1>6, <1>8, <2>1, <2>4, <2>5, <3>2, <3>4 DEF SlotOrder, Off
    <3> QED BY <3>2, <3>3, <3>4
  <2> QED BY <2>4, <2>5 DEF SlotOrder, Off
<1>14. upset' \cap {"overtaken", "restarted"} = {} => HomeOrder' /\ AwayOrder'
  <2> SUFFICES ASSUME upset \cap {"overtaken", "restarted"} = {} PROVE HomeOrder' /\ AwayOrder'
    BY <1>1
  <2>1. HomeOrder /\ AwayOrder
    BY DEF OrderBase, OrderInv
  <2>2. HomeOrder'
    BY <1>1, <2>1 DEF HomeOrder, Queues
  <2>3. /\ Before(ToSet(returned), {td}) /\ Before(ToSet(doneQueue), {td}) /\ td \notin ToSet(deferredQueue)
        /\ Before(ChainTDs, {td}) /\ Before(TakenTDs, {td})
    BY <1>3 DEF Before, Places, Home
  <2>4. Away' = Away \cup {td}
    BY <1>9, <1>10, <1>11 DEF Away
  <2>5. Before(ToSet(returned) \cup ToSet(doneQueue), Away') /\ ToSet(deferredQueue) \cap Away' = {}
    BY <2>1, <2>3, <2>4 DEF AwayOrder, Before
  <2>6. Before(ChainTDs \cup TakenTDs, SlotTDs')
    BY <1>9, <2>1, <2>3 DEF AwayOrder, Before
  <2>7. AwayOrder'
    BY <1>1, <1>10, <1>11, <2>1, <2>5, <2>6 DEF AwayOrder
  <2> QED BY <2>2, <2>7
<1> QED BY <1>12, <1>13, <1>14 DEF OrderInv

\* The TDs of the chain are put behind those done, and what is returned stays before all that is elsewhere.
LEMMA RetireInOrder ==
  ASSUME OrderBase, RetireIsocTransactions
  PROVE  OrderInv'
<1>1. /\ ReturnIsochDoneQueue(PutAll(Queues, Chained), producerCount) /\ consumerCount' = producerCount
      /\ UNCHANGED <<frame, tdSlots, outSlot, savedDoneQueueHead, producerCount, fpc, pCachedHead, cachedProducer, upset>>
  BY DEF RetireIsocTransactions, slotVars, tdVars, filterVars
<1>2. FrameInv' /\ ("restarted" \notin upset' => SlotOrder')
  <2>1. InSlots' = InSlots /\ \A s : Off(s)' = Off(s)
    BY <1>1 DEF InSlots, Off
  <2> QED BY <1>1, <2>1 DEF OrderBase, OrderInv, FrameInv, SlotOrder
<1>3. SUFFICES ASSUME upset \cap {"overtaken", "restarted"} = {} PROVE HomeOrder' /\ AwayOrder'
  BY <1>1, <1>2 DEF OrderInv
<1>4. HomeOrder /\ AwayOrder /\ WindowInv /\ FrameInv /\ frame \in Seq(Nat)
  BY <1>3 DEF OrderBase, OrderInv, LostInv, Base, ListTypes
<1>5. PICK c : c = Chained
  OBVIOUS
<1>6. c \in Seq(Numbers) /\ ToSet(c) = ChainTDs /\ Rising(c)
  BY <1>4, <1>5, ChainedIs, ChainedRises DEF OrderBase, Base, AwayOrder
<1>7. c \in Seq(1 .. Len(frame))
  BY <1>6, SeqOfSet, QueuesKnown DEF OrderBase, Base, Places
<1>8. /\ Queues \in QueuesOf(1 .. Len(frame)) /\ Queues.done = doneQueue /\ Queues.def = deferredQueue
      /\ \A x \in 1 .. Len(frame) : frame[x] \in Nat
  BY QueuesKnown DEF OrderBase
<1>9. QueuesInOrder(Queues) /\ Before(ToSet(Queues.done), ToSet(c)) /\ ToSet(c) \cap ToSet(Queues.def) = {}
  BY <1>4, <1>6, <1>8, OrderOf DEF HomeOrder
<1>10. AllInOrder(Queues, c, PutAll(Queues, c))
  BY <1>4, <1>6, <1>7, <1>8, <1>9, PutAllInOrder
<1>11. AllPut(1 .. Len(frame), Queues, c, PutAll(Queues, c))
  BY <1>7, <1>8, PutAllKeeps
<1>12. PICK q : q = PutAll(Queues, c) /\ AllInOrder(Queues, c, q) /\ AllPut(1 .. Len(frame), Queues, c, q)
  BY <1>10, <1>11
<1>13. ReturnIsochDoneQueue(q, producerCount)
  BY <1>1, <1>5, <1>12
<1>14. /\ QueuesInOrder(q) /\ ToSet(q.def) \subseteq ToSet(deferredQueue)
       /\ \A x \in ToSet(q.done) : x \in ToSet(doneQueue) \/ \E y \in ChainTDs : x <= y
       /\ ToSet(q.done) \cup ToSet(q.def) = ToSet(doneQueue) \cup ToSet(deferredQueue) \cup ChainTDs
  BY <1>6, <1>8, <1>12 DEF AllInOrder, AllPut
<1>15. q \in QueuesOf(Numbers) /\ returned \in Seq(Numbers)
  <2>1. q.done \in Seq(1 .. Len(frame)) /\ q.def \in Seq(1 .. Len(frame)) /\ 1 .. Len(frame) \subseteq Numbers
    BY <1>12 DEF AllPut, QueuesOf, Numbers
  <2>2. q.done \in Seq(Numbers) /\ q.def \in Seq(Numbers)
    BY <2>1, WiderSeq
  <2> QED BY <1>12, <2>2 DEF AllPut, QueuesOf, OrderBase, Base, ListTypes
<1>16. Rising(returned) /\ Before(ToSet(returned), ToSet(q.done) \cup ToSet(q.def))
  BY <1>4, <1>14, OrderOf DEF Before
<1>17. /\ HomeOrder' /\ ToSet(doneQueue') = {} /\ ToSet(deferredQueue') \subseteq ToSet(q.def)
       /\ \/ ToSet(returned') = ToSet(returned) \cup ToSet(q.done)
          \/ scheduledTDs = 0 /\ producerCount = producerCount /\ fpc = "idle" /\ ToSet(deferredQueue') = {}
  BY <1>13, <1>14, <1>15, <1>16, ReturnInOrder
<1>18. ChainTDs' = {} /\ Fresh' = Fresh
  BY <1>1, Counts DEF OrderBase, ChainTDs, Fresh
<1>19. TakenTDs' = TakenTDs /\ SlotTDs' = SlotTDs
  BY <1>1, <1>18 DEF TakenTDs, SlotTDs, InSlots
<1>20. Away' = TakenTDs \cup SlotTDs
  BY <1>18, <1>19 DEF Away
<1>21. Before(ToSet(returned'), TakenTDs \cup SlotTDs)
  <2>1. CASE ToSet(returned') = ToSet(returned) \cup ToSet(q.done)
    <3>1. ASSUME NEW x \in ToSet(q.done), NEW y \in TakenTDs \cup SlotTDs PROVE x < y
      <4>1. CASE x \in ToSet(doneQueue)
        BY <1>4, <3>1, <4>1, OrderOf DEF Before
      <4>2. CASE \E z \in ChainTDs : x <= z
        <5>1. PICK z \in ChainTDs : x <= z
          BY <4>2
        <5>2. z < y
          BY <1>4, <3>1, <5>1, OrderOf DEF Before
        <5>3. x \in Int /\ y \in Int /\ z \in Int
          <6>1. x \in Numbers
            BY <1>15, LenProperties, ElementOfSeq DEF QueuesOf, ToSet
          <6>2. y \in Places /\ z \in Places
            BY <5>1 DEF Places
          <6> QED BY <6>1, <6>2 DEF OrderBase, Base, Numbers
        <5> QED BY <5>1, <5>2, <5>3
      <4> QED BY <1>14, <4>1, <4>2
    <3>2. Before(ToSet(returned), TakenTDs \cup SlotTDs)
      BY <1>4, OrderOf DEF Before
    <3> QED BY <2>1, <3>1, <3>2 DEF Before
  <2>2. CASE scheduledTDs = 0 /\ fpc = "idle"
    <3>1. TakenTDs = {} /\ SlotTDs = {}
      BY <1>4, <2>2, NothingAway DEF OrderBase
    <3> QED BY <3>1 DEF Before
  <2> QED BY <1>17, <2>1, <2>2
<1>22. producerCount' - consumerCount' = 0
  BY <1>1, Counts DEF OrderBase
<1>23. AwayOrder'
  <2>1. Before(ToSet(returned') \cup ToSet(doneQueue'), Away')
    BY <1>17, <1>20, <1>21 DEF Before
  <2>2. ToSet(deferredQueue') \cap Away' = {}
    BY <1>4, <1>14, <1>17, <1>20, OrderOf
  <2>3. Before(ChainTDs', TakenTDs') /\ Before(ChainTDs' \cup TakenTDs', SlotTDs')
    BY <1>4, <1>18, <1>19, OrderOf DEF Before
  <2>4. Falling(savedDoneQueueHead', producerCount' - consumerCount') /\ Falling(pCachedHead', Fresh')
    BY <1>1, <1>4, <1>18, <1>22, OrderOf DEF Falling
  <2> QED BY <2>1, <2>2, <2>3, <2>4 DEF AwayOrder
<1> QED BY <1>17, <1>23

\* The thread returns what is done, and the deferred only when nothing is elsewhere.
LEMMA ThreadInOrder ==
  ASSUME OrderBase, ReturnThread
  PROVE  OrderInv'
<1>1. /\ ReturnIsochDoneQueue(Queues, consumerCount)
      /\ UNCHANGED <<frame, tdSlots, outSlot, savedDoneQueueHead, producerCount, consumerCount, fpc, pCachedHead,
                     cachedProducer, upset>>
  BY DEF ReturnThread, slotVars, tdVars, filterVars, chainVars
<1>2. FrameInv' /\ ("restarted" \notin upset' => SlotOrder')
  <2>1. InSlots' = InSlots /\ \A s : Off(s)' = Off(s)
    BY <1>1 DEF InSlots, Off
  <2> QED BY <1>1, <2>1 DEF OrderBase, OrderInv, FrameInv, SlotOrder
<1>3. SUFFICES ASSUME upset \cap {"overtaken", "restarted"} = {} PROVE HomeOrder' /\ AwayOrder'
  BY <1>1, <1>2 DEF OrderInv
<1>4. HomeOrder /\ AwayOrder /\ WindowInv
  BY <1>3 DEF OrderBase, OrderInv, LostInv
<1>5. Queues \in QueuesOf(Numbers) /\ returned \in Seq(Numbers) /\ Queues.done = doneQueue /\ Queues.def = deferredQueue
  BY DEF OrderBase, Base, ListTypes, Queues, QueuesOf
<1>6. QueuesInOrder(Queues) /\ Rising(returned) /\ Before(ToSet(returned), ToSet(Queues.done) \cup ToSet(Queues.def))
  BY <1>4, <1>5 DEF HomeOrder
<1>7. /\ HomeOrder' /\ ToSet(doneQueue') = {} /\ ToSet(deferredQueue') \subseteq ToSet(deferredQueue)
      /\ \/ ToSet(returned') = ToSet(returned) \cup ToSet(doneQueue)
         \/ scheduledTDs = 0 /\ consumerCount = producerCount /\ fpc = "idle" /\ ToSet(deferredQueue') = {}
  BY <1>1, <1>5, <1>6, ReturnInOrder
<1>8. ChainTDs' = ChainTDs /\ Fresh' = Fresh
  BY <1>1 DEF ChainTDs, Fresh
<1>9. TakenTDs' = TakenTDs /\ SlotTDs' = SlotTDs
  BY <1>1, <1>8 DEF TakenTDs, SlotTDs, InSlots
<1>10. Away' = Away
  BY <1>8, <1>9 DEF Away
<1>11. Before(ToSet(returned'), Away)
  <2>1. CASE ToSet(returned') = ToSet(returned) \cup ToSet(doneQueue)
    BY <1>4, <2>1 DEF AwayOrder
  <2>2. CASE scheduledTDs = 0 /\ consumerCount = producerCount /\ fpc = "idle"
    <3>1. Away = {}
      BY <1>4, <2>2, NothingAway DEF OrderBase
    <3> QED BY <3>1 DEF Before
  <2> QED BY <1>7, <2>1, <2>2
<1>12. AwayOrder'
  <2>1. Before(ToSet(returned') \cup ToSet(doneQueue'), Away') /\ ToSet(deferredQueue') \cap Away' = {}
    BY <1>4, <1>7, <1>10, <1>11 DEF AwayOrder, Before
  <2> QED BY <1>1, <1>4, <1>8, <1>9, <2>1 DEF AwayOrder
<1> QED BY <1>7, <1>12

\* The frames of a request come behind those of the last.
LEMMA RequestInOrder ==
  ASSUME OrderBase, UIMCreateIsochTransfer
  PROVE  OrderInv'
<1>1. PICK n \in 1 .. MaxPerRequest, gap \in BOOLEAN :
        /\ frame' = frame \o [j \in 1 .. n |-> FirstFrame + (IF gap THEN 1 ELSE 0) + j - 1]
        /\ upset \subseteq upset'
  BY DEF UIMCreateIsochTransfer, Upset
<1>2. UNCHANGED <<doneQueue, deferredQueue, returned, tdSlots, outSlot, savedDoneQueueHead, producerCount,
                  consumerCount, fpc, pCachedHead, cachedProducer>>
  BY DEF UIMCreateIsochTransfer, slotVars, chainVars, filterVars
<1>3. PICK lf \in Nat : lf = Len(frame) /\ frame \in Seq(Nat) /\ \A j \in 1 .. lf : frame[j] \in Nat
  BY LenProperties, ElementOfSeq DEF OrderBase, Base, ListTypes
<1>4. n \in Nat /\ n >= 1
  BY BoundsAssumption
<1>5. FirstFrame \in Nat /\ FirstFrame >= 1 /\ (lf > 0 => FirstFrame > frame[lf])
  <2>1. frame # <<>> <=> lf > 0
    BY <1>3, EmptySeq
  <2> QED BY <1>3, <2>1 DEF FirstFrame
<1>6. PICK f \in Nat : f = FirstFrame + (IF gap THEN 1 ELSE 0) /\ f >= 1 /\ (lf > 0 => f > frame[lf])
  <2>1. lf > 0 => frame[lf] \in Nat
    BY <1>3
  <2> QED BY <1>5, <2>1
<1>7. PICK g : g = [j \in 1 .. n |-> f + j - 1] /\ frame' = frame \o g
  BY <1>1, <1>6
<1>8. g \in Seq(Nat) /\ Len(g) = n /\ \A j \in 1 .. n : g[j] = f + j - 1
  <2>1. \A j \in 1 .. n : f + j - 1 \in Nat
    BY <1>4, <1>6
  <2>2. g \in [1 .. n -> Nat]
    BY <1>7, <2>1
  <2>3. g \in Seq(Nat)
    BY <1>4, <2>2, SeqDef
  <2>4. DOMAIN g = 1 .. n /\ DOMAIN g = 1 .. Len(g) /\ Len(g) \in Nat
    BY <2>2, <2>3, LenProperties
  <2> QED BY <1>4, <1>7, <2>3, <2>4
<1>9. PICK h : h = frame \o g
  OBVIOUS
<1>10. Len(h) = lf + n /\ (\A i \in 1 .. lf : h[i] = frame[i]) /\ \A i \in 1 .. n : h[lf + i] = f + i - 1
  <2>0. frame \in Seq(Nat) /\ g \in Seq(Nat)
    BY <1>3, <1>8
  <2>1. /\ Len(frame \o g) = Len(frame) + Len(g)
        /\ \A i \in 1 .. Len(frame) : (frame \o g)[i] = frame[i]
        /\ \A i \in 1 .. Len(g) : (frame \o g)[Len(frame) + i] = g[i]
    BY <2>0, Concatenated
  <2> QED BY <1>3, <1>8, <1>9, <2>1
<1>11. \A j, k \in 1 .. lf : j < k => frame[j] < frame[k]
  BY <1>3 DEF OrderBase, OrderInv, FrameInv
<1>12. \A i \in 1 .. lf : frame[i] < f
  <2>1. ASSUME NEW i \in 1 .. lf PROVE frame[i] < f
    <3>1. lf \in 1 .. lf /\ (i < lf \/ i = lf)
      BY <1>3
    <3>2. frame[i] \in Nat /\ frame[lf] \in Nat /\ f > frame[lf]
      BY <1>3, <1>6, <3>1
    <3>3. frame[i] < frame[lf] \/ i = lf
      BY <1>11, <3>1
    <3> QED BY <3>2, <3>3
  <2> QED BY <2>1
<1>13. ASSUME NEW j \in 1 .. lf + n, NEW k \in 1 .. lf + n, j < k PROVE h[j] < h[k]
  <2>1. CASE k \in 1 .. lf
    <3>1. j \in 1 .. lf
      BY <1>3, <1>13, <2>1
    <3> QED BY <1>10, <1>11, <1>13, <2>1, <3>1
  <2>2. CASE j \in 1 .. lf /\ k \notin 1 .. lf
    <3>1. PICK i \in 1 .. n : k = lf + i
      <4>1. k - lf \in 1 .. n /\ k = lf + (k - lf)
        BY <1>3, <1>4, <2>2
      <4> QED BY <4>1
    <3>2. h[k] = f + i - 1 /\ h[j] = frame[j] /\ frame[j] < f /\ frame[j] \in Nat
      BY <1>3, <1>10, <1>12, <2>2, <3>1
    <3>3. PICK x \in Nat : x = frame[j]
      BY <3>2
    <3>4. x < f + i - 1
      BY <1>4, <3>2, <3>3
    <3> QED BY <3>2, <3>3, <3>4
  <2>3. CASE j \notin 1 .. lf
    <3>1. PICK a \in 1 .. n, b \in 1 .. n : j = lf + a /\ k = lf + b /\ a < b
      <4>1. j - lf \in 1 .. n /\ k - lf \in 1 .. n /\ j = lf + (j - lf) /\ k = lf + (k - lf) /\ j - lf < k - lf
        BY <1>3, <1>4, <1>13, <2>3
      <4> QED BY <4>1
    <3>2. h[j] = f + a - 1 /\ h[k] = f + b - 1
      BY <1>10, <3>1
    <3>3. f + a - 1 < f + b - 1
      BY <1>4, <1>6, <3>1
    <3> QED BY <3>2, <3>3
  <2> QED BY <2>1, <2>2, <2>3
<1>14. FrameInv'
  BY <1>7, <1>9, <1>10, <1>13 DEF FrameInv
<1>15. Fresh' = Fresh /\ InSlots' = InSlots /\ ChainTDs' = ChainTDs /\ \A s : Off(s)' = Off(s)
  BY <1>2 DEF Fresh, InSlots, ChainTDs, Off
<1>16. TakenTDs' = TakenTDs /\ SlotTDs' = SlotTDs
  BY <1>2, <1>15 DEF TakenTDs, SlotTDs
<1>17. (SlotOrder => SlotOrder') /\ (HomeOrder => HomeOrder')
  BY <1>2, <1>15 DEF SlotOrder, HomeOrder, Queues
<1>18. AwayOrder => AwayOrder'
  BY <1>2, <1>15, <1>16 DEF AwayOrder, Away
<1> QED BY <1>1, <1>14, <1>17, <1>18 DEF OrderBase, OrderInv

\* An abort returns all TDs, in the order of the frames.
LEMMA AbortInOrder ==
  ASSUME OrderBase, AbortIsochEP
  PROVE  OrderInv'
<1> DEFINE put == Chained \o (Window \o toDoList)
<1>1. /\ returned' = returned \o PutAll(Queues, put).done \o PutAll(Queues, put).def
      /\ doneQueue' = <<>> /\ deferredQueue' = <<>> /\ consumerCount' = producerCount
      /\ tdSlots' = [s \in DOMAIN tdSlots |-> IF tdSlots[s] \in ToSet(Window) THEN Free ELSE tdSlots[s]]
      /\ fpc = "idle" /\ upset \subseteq upset'
      /\ UNCHANGED <<frame, savedDoneQueueHead, producerCount, fpc, pCachedHead>>
  BY DEF AbortIsochEP, filterVars, Upset
<1> HIDE DEF put
<1>2. FrameInv'
  BY <1>1 DEF OrderBase, OrderInv, FrameInv
<1>3. SUFFICES ASSUME "restarted" \notin upset
      PROVE  SlotOrder' /\ (upset \cap {"overtaken", "restarted"} = {} => HomeOrder' /\ AwayOrder')
  BY <1>1, <1>2 DEF OrderInv
<1>4. SlotOrder /\ WindowInv /\ FrameInv /\ frame \in Seq(Nat)
  BY <1>3 DEF OrderBase, OrderInv, LostInv, Base, ListTypes
<1>5. PICK w, t, c : w = Window /\ t = toDoList /\ c = Chained
  OBVIOUS
<1>6. w \in Seq(Numbers) /\ ToSet(w) = SlotTDs /\ Rising(w)
  BY <1>4, <1>5, WindowOf DEF OrderBase, Base
<1>7. InSlots' = {}
  <2>1. DOMAIN tdSlots' = DOMAIN tdSlots /\ \A s \in DOMAIN tdSlots : tdSlots[s] # Free => tdSlots[s] \in ToSet(w)
    BY <1>1, <1>6 DEF SlotTDs, InSlots
  <2>2. \A s \in DOMAIN tdSlots : tdSlots'[s] = Free
    BY <1>1, <1>5, <2>1
  <2> QED BY <2>1, <2>2 DEF InSlots
<1>8. SlotOrder' /\ SlotTDs' = {}
  BY <1>7 DEF SlotOrder, SlotTDs
<1>9. SUFFICES ASSUME upset \cap {"overtaken", "restarted"} = {} PROVE HomeOrder' /\ AwayOrder'
  BY <1>8
<1>10. HomeOrder /\ AwayOrder
  BY <1>9 DEF OrderBase, OrderInv
<1>11. t \in Seq(Numbers) /\ ToSet(t) = Sent + 1 .. Len(frame) /\ Rising(t) /\ Before(Places, ToSet(t))
  <2>1. PICK sent \in Nat, lf \in Nat, lt \in Nat :
          sent = Sent /\ lf = Len(frame) /\ lt = Len(t) /\ ToSet(t) = sent + 1 .. lf /\ t \in Seq(Numbers)
    BY <1>5, QueuesKnown DEF OrderBase, Base, ListTypes
  <2>2. \A j \in 1 .. lt : t[j] = sent + j
    BY <1>5, <2>1 DEF OrderBase, Base, ListTypes
  <2>3. \A j, k \in 1 .. lt : j < k => sent + j < sent + k
    BY <2>1
  <2>4. \A j, k \in 1 .. lt : j < k => t[j] < t[k]
    BY <2>2, <2>3
  <2>5. Rising(t)
    BY <2>1, <2>4 DEF Rising
  <2>6. \A x \in 1 .. sent, y \in sent + 1 .. lf : x < y
    BY <2>1
  <2>7. Before(Places, ToSet(t))
    BY <2>1, <2>6 DEF Before, OrderBase, Base
  <2> QED BY <2>1, <2>5, <2>7
<1>12. c \in Seq(Numbers) /\ ToSet(c) = ChainTDs /\ Rising(c)
  BY <1>5, <1>10, ChainedIs, ChainedRises DEF OrderBase, Base, AwayOrder
<1>13. PICK u : u = w \o t
  OBVIOUS
<1>14. u \in Seq(Numbers) /\ ToSet(u) = ToSet(w) \cup ToSet(t) /\ Rising(u)
  <2>1. w \in Seq(Numbers) /\ t \in Seq(Numbers)
    BY <1>6, <1>11
  <2>2. w \o t \in Seq(Numbers) /\ ToSet(w \o t) = ToSet(w) \cup ToSet(t)
    BY <2>1, JoinHas
  <2>3. Before(ToSet(w), ToSet(t))
    BY <1>6, <1>11 DEF Before, Places
  <2>4. Rising(w \o t)
    BY <1>6, <1>11, <2>1, <2>3, RisingJoined
  <2> QED BY <1>13, <2>2, <2>4, Zenon
<1>15. PICK v : v = c \o u
  OBVIOUS
<1>16. v \in Seq(Numbers) /\ ToSet(v) = ToSet(c) \cup ToSet(u) /\ Rising(v)
  <2>1. c \in Seq(Numbers) /\ u \in Seq(Numbers)
    BY <1>12, <1>14
  <2>2. c \o u \in Seq(Numbers) /\ ToSet(c \o u) = ToSet(c) \cup ToSet(u)
    BY <2>1, JoinHas
  <2>3. Before(ToSet(c), ToSet(u))
    <3>1. Before(ChainTDs, SlotTDs)
      BY <1>10, OrderOf
    <3>2. Before(ChainTDs, ToSet(t))
      BY <1>11 DEF Before, Places
    <3> QED BY <1>6, <1>12, <1>14, <3>1, <3>2 DEF Before
  <2>4. Rising(c \o u)
    BY <1>12, <1>14, <2>3, RisingJoined
  <2> QED BY <1>15, <2>2, <2>4, Zenon
<1>17. put = v
  BY <1>5, <1>13, <1>15 DEF put
<1>18. ToSet(v) = ChainTDs \cup SlotTDs \cup (Sent + 1 .. Len(frame))
  BY <1>6, <1>11, <1>12, <1>14, <1>16, Zenon
<1>19. v \in Seq(1 .. Len(frame))
  <2>1. ChainTDs \subseteq 1 .. Len(frame) /\ SlotTDs \subseteq 1 .. Len(frame)
    BY QueuesKnown DEF OrderBase, Base, Places
  <2>2. Sent + 1 .. Len(frame) \subseteq 1 .. Len(frame)
    BY QueuesKnown DEF OrderBase
  <2>3. ToSet(v) \subseteq 1 .. Len(frame)
    BY <1>18, <2>1, <2>2
  <2> QED BY <1>16, <2>3, SeqOfSet
<1>20. /\ Queues \in QueuesOf(1 .. Len(frame)) /\ Queues.done = doneQueue /\ Queues.def = deferredQueue
       /\ \A x \in 1 .. Len(frame) : frame[x] \in Nat
  BY QueuesKnown DEF OrderBase
<1>21. QueuesInOrder(Queues) /\ Before(ToSet(Queues.done), ToSet(v)) /\ ToSet(v) \cap ToSet(Queues.def) = {}
  <2>1. Before(ToSet(doneQueue), ChainTDs) /\ Before(ToSet(doneQueue), SlotTDs)
    BY <1>10, OrderOf
  <2>2. Before(ToSet(doneQueue), ToSet(t))
    BY <1>11 DEF Before, Places, Home
  <2>3. ToSet(deferredQueue) \cap ChainTDs = {} /\ ToSet(deferredQueue) \cap SlotTDs = {}
    BY <1>10, OrderOf
  <2>4. ToSet(deferredQueue) \cap ToSet(t) = {}
    <3>1. ASSUME NEW x \in ToSet(deferredQueue), x \in ToSet(t) PROVE FALSE
      <4>1. x < x /\ x \in Int
        BY <1>11, <3>1 DEF Before, Places, Home
      <4> QED BY <4>1
    <3> QED BY <3>1
  <2>5. ToSet(v) = ChainTDs \cup SlotTDs \cup ToSet(t)
    BY <1>6, <1>12, <1>14, <1>16, Zenon
  <2> QED BY <1>10, <1>20, <2>1, <2>2, <2>3, <2>4, <2>5 DEF Before, HomeOrder
<1>22. AllInOrder(Queues, v, PutAll(Queues, v))
  BY <1>4, <1>16, <1>19, <1>20, <1>21, PutAllInOrder
<1>23. AllPut(1 .. Len(frame), Queues, v, PutAll(Queues, v))
  BY <1>19, <1>20, PutAllKeeps
<1>24. PICK q : q = PutAll(Queues, v) /\ AllInOrder(Queues, v, q) /\ AllPut(1 .. Len(frame), Queues, v, q)
  BY <1>22, <1>23
<1>25. returned' = returned \o q.done \o q.def
  BY <1>1, <1>17, <1>24
<1>26. /\ QueuesInOrder(q)
       /\ ToSet(q.done) \cup ToSet(q.def) = ToSet(doneQueue) \cup ToSet(deferredQueue) \cup ToSet(v)
  BY <1>20, <1>24 DEF AllInOrder, AllPut
<1>27. PICK d \in Seq(Numbers), e \in Seq(Numbers) : d = q.done /\ e = q.def
  <2>1. q.done \in Seq(1 .. Len(frame)) /\ q.def \in Seq(1 .. Len(frame)) /\ 1 .. Len(frame) \subseteq Numbers
    BY <1>24 DEF AllPut, QueuesOf, Numbers
  <2>2. q.done \in Seq(Numbers) /\ q.def \in Seq(Numbers)
    BY <2>1, WiderSeq
  <2> QED BY <2>2
<1>28. Before(ToSet(returned), ToSet(d) \cup ToSet(e))
  <2>1. Before(ToSet(returned), ToSet(doneQueue)) /\ Before(ToSet(returned), ToSet(deferredQueue))
        /\ Before(ToSet(returned), ChainTDs) /\ Before(ToSet(returned), SlotTDs)
    BY <1>10, OrderOf
  <2>2. Before(ToSet(returned), ToSet(t))
    BY <1>11 DEF Before, Places, Home
  <2>3. ToSet(d) \cup ToSet(e) = ToSet(doneQueue) \cup ToSet(deferredQueue) \cup ChainTDs \cup SlotTDs \cup ToSet(t)
    BY <1>11, <1>18, <1>26, <1>27
  <2> QED BY <2>1, <2>2, <2>3 DEF Before
<1>29. PICK g : g = returned \o d
  OBVIOUS
<1>30. g \in Seq(Numbers) /\ ToSet(g) = ToSet(returned) \cup ToSet(d) /\ Rising(g)
  <2>1. returned \in Seq(Numbers) /\ d \in Seq(Numbers)
    BY <1>27 DEF OrderBase, Base, ListTypes
  <2>2. returned \o d \in Seq(Numbers) /\ ToSet(returned \o d) = ToSet(returned) \cup ToSet(d)
    BY <2>1, JoinHas
  <2>3. Rising(returned) /\ Rising(d) /\ Before(ToSet(returned), ToSet(d))
    BY <1>10, <1>26, <1>27, <1>28, OrderOf DEF QueuesInOrder, Before
  <2>4. Rising(returned \o d)
    BY <2>1, <2>3, RisingJoined
  <2> QED BY <1>29, <2>2, <2>4, Zenon
<1>31. PICK h : h = g \o e
  OBVIOUS
<1>32. Rising(h)
  <2>1. g \in Seq(Numbers) /\ e \in Seq(Numbers)
    BY <1>27, <1>30
  <2>2. Rising(g) /\ Rising(e) /\ Before(ToSet(g), ToSet(e))
    BY <1>26, <1>27, <1>28, <1>30 DEF QueuesInOrder, Before
  <2>3. Rising(g \o e)
    BY <2>1, <2>2, RisingJoined
  <2> QED BY <1>31, <2>3, Zenon
<1>33. returned' = h
  BY <1>25, <1>27, <1>29, <1>31
<1>34. ToSet(<<>>) = {} /\ Rising(<<>>)
  BY DEF ToSet, Rising
<1>35. HomeOrder'
  <2>1. QueuesInOrder([done |-> <<>>, def |-> <<>>])
    BY <1>34 DEF QueuesInOrder, Before
  <2>2. Queues' = [done |-> <<>>, def |-> <<>>]
    BY <1>1 DEF Queues
  <2>3. Before(ToSet(h), ToSet(<<>>) \cup ToSet(<<>>))
    BY <1>34 DEF Before
  <2> QED BY <1>1, <1>32, <1>33, <2>1, <2>2, <2>3, Zenon DEF HomeOrder
<1>36. producerCount' - consumerCount' = 0 /\ Fresh' = 0
  BY <1>1, Counts DEF OrderBase, Fresh
<1>37. ChainTDs' = {} /\ TakenTDs' = {}
  BY <1>36 DEF ChainTDs, TakenTDs
<1>38. AwayOrder'
  BY <1>8, <1>36, <1>37 DEF AwayOrder, Away, Before, Falling
<1> QED BY <1>35, <1>38

\* The filter begins with a copy of the endpoint's chain, to which it has added nothing.
LEMMA FilterBeginInOrder ==
  ASSUME OrderBase, FilterBegin
  PROVE  OrderInv'
<1>1. /\ fpc = "idle" /\ fpc' = "scan" /\ cachedProducer' = producerCount
      /\ UNCHANGED <<doneQueue, deferredQueue, returned, frame, tdSlots, outSlot, savedDoneQueueHead, consumerCount,
                     producerCount, upset>>
  BY DEF FilterBegin, listVars, slotVars, tdVars, chainVars, histVars
<1>2. Fresh = 0 /\ Fresh' = 0
  BY <1>1, Counts DEF OrderBase, Fresh
<1>3. TakenTDs = {} /\ TakenTDs' = {}
  BY <1>2 DEF TakenTDs
<1>4. ChainTDs' = ChainTDs /\ InSlots' = InSlots /\ \A s : Off(s)' = Off(s)
  BY <1>1 DEF ChainTDs, InSlots, Off
<1>5. SlotTDs' = SlotTDs
  BY <1>1, <1>4 DEF SlotTDs
<1>6. FrameInv' /\ (SlotOrder => SlotOrder') /\ (HomeOrder => HomeOrder')
  BY <1>1, <1>4 DEF OrderBase, OrderInv, FrameInv, SlotOrder, HomeOrder, Queues
<1>7. Falling(pCachedHead', Fresh')
  BY <1>2 DEF Falling
<1>8. AwayOrder => AwayOrder'
  BY <1>1, <1>3, <1>4, <1>5, <1>7 DEF AwayOrder, Away
<1> QED BY <1>1, <1>6, <1>8 DEF OrderBase, OrderInv

\* The filter takes the TD in the slot it looks at, which is the first with one.
Takes(t, td) ==
  /\ t = testSlot /\ t \in InSlots /\ td = tdSlots[t] /\ td \in SlotTDs /\ outSlot' = t
  /\ InSlots' = InSlots \ {t} /\ \A s \in InSlots' : tdSlots'[s] = tdSlots[s]
  /\ SlotTDs = SlotTDs' \cup {td} /\ TakenTDs' = TakenTDs \cup {td}
  /\ Fresh \in Nat /\ Fresh' = Fresh + 1 /\ pCachedHead'[1] = td
  /\ \A j \in 1 .. Fresh : pCachedHead'[1 + j] = pCachedHead[j] /\ pCachedHead[j] \in TakenTDs

\* It takes a TD, or leaves all as it is.
LEMMA TestTakes ==
  ASSUME Base, FilterTest
  PROVE  \/ UNCHANGED <<tdSlots, pCachedHead, cachedProducer, outSlot>>
         \/ \E t \in SlotNumbers, td \in Numbers : Takes(t, td)
<1> DEFINE Taking == /\ tdSlots' = [tdSlots EXCEPT ![testSlot] = 0]
                     /\ pCachedHead' = <<tdSlots[testSlot]>> \o pCachedHead /\ cachedProducer' = cachedProducer + 1
                     /\ outSlot' = testSlot
<1>1. /\ fpc = "scan" /\ testSlot # stopSlot /\ tdSlots[testSlot] # 0
      /\ Taking \/ UNCHANGED <<tdSlots, pCachedHead, cachedProducer, outSlot>>
      /\ UNCHANGED <<fpc, producerCount>>
  BY DEF FilterTest, chainVars, Free
<1>2. SUFFICES ASSUME Taking PROVE \E t \in SlotNumbers, td \in Numbers : Takes(t, td)
  BY <1>1
<1>3. PICK t \in SlotNumbers : t = testSlot
  BY <1>1 DEF Base, FilterTypes
<1>4. tdSlots \in [SlotNumbers -> Nat] /\ InSlots \subseteq SlotNumbers
  BY InSlotsFinite DEF Base, SlotTypes
<1>5. PICK td \in Numbers : td = tdSlots[t]
  BY <1>1, <1>3, <1>4 DEF Numbers
<1>6. t \in InSlots /\ td \in SlotTDs
  BY <1>1, <1>3, <1>4, <1>5 DEF InSlots, Free, SlotTDs
<1>7. DOMAIN tdSlots' = SlotNumbers /\ tdSlots'[t] = 0 /\ \A s \in SlotNumbers : s # t => tdSlots'[s] = tdSlots[s]
  BY <1>2, <1>3, <1>4
<1>8. InSlots' = InSlots \ {t}
  BY <1>4, <1>7 DEF InSlots, Free
<1>9. \A s \in InSlots' : tdSlots'[s] = tdSlots[s]
  BY <1>4, <1>7, <1>8
<1>10. SlotTDs = SlotTDs' \cup {td}
  <2>1. SlotTDs' = {tdSlots'[s] : s \in InSlots'}
    BY DEF SlotTDs
  <2>2. \A s \in InSlots : s = t \/ s \in InSlots'
    BY <1>8
  <2> QED BY <1>5, <1>6, <1>8, <1>9, <2>1, <2>2 DEF SlotTDs
<1>0. PICK h \in Seq(Numbers), n \in Nat : h = pCachedHead /\ n = cachedProducer /\ Len(h) = n
  BY <1>1 DEF Base, FilterTypes
<1>11. PICK f \in 0 .. n : h = pCachedHead /\ n = cachedProducer /\ Len(h) = n /\ f = cachedProducer - producerCount
  BY <1>0, <1>1, Counts DEF Base, FilterTypes
<1>12. PICK g : g = <<td>> \o h
  OBVIOUS
<1>13. g[1] = td /\ \A i \in 1 .. n : g[1 + i] = h[i]
  <2>1. <<td>> \in Seq(Numbers) /\ Len(<<td>>) = 1 /\ <<td>>[1] = td
    OBVIOUS
  <2>2. /\ \A i \in 1 .. Len(<<td>>) : (<<td>> \o h)[i] = <<td>>[i]
        /\ \A i \in 1 .. Len(h) : (<<td>> \o h)[Len(<<td>>) + i] = h[i]
    BY <2>1, Concatenated
  <2> QED BY <1>11, <1>12, <2>1, <2>2
<1>14. pCachedHead' = g
  BY <1>2, <1>3, <1>5, <1>11, <1>12
<1>15. Fresh = f /\ Fresh' = f + 1
  <2>1. PICK p \in Nat : p = producerCount /\ f = n - p
    BY <1>11, Counts
  <2>2. (n + 1) - p = f + 1
    BY <2>1
  <2> QED BY <1>1, <1>2, <1>11, <2>1, <2>2 DEF Fresh
<1>16. \A i \in 1 .. f : i \in 1 .. n /\ 1 + i \in 1 .. f + 1
  BY <1>11
<1>17. TakenTDs = {h[j] : j \in 1 .. f} /\ TakenTDs' = {g[j] : j \in 1 .. f + 1}
  BY <1>11, <1>14, <1>15 DEF TakenTDs
<1>18. TakenTDs' = TakenTDs \cup {td}
  <2>1. \A j \in 1 .. f + 1 : j = 1 \/ (j - 1 \in 1 .. f /\ j = 1 + (j - 1))
    BY <1>11
  <2>2. ASSUME NEW j \in 1 .. f + 1 PROVE g[j] = td \/ \E i \in 1 .. f : g[j] = h[i]
    <3>1. CASE j = 1
      BY <1>13, <3>1
    <3>2. CASE j - 1 \in 1 .. f /\ j = 1 + (j - 1)
      <4>1. PICK i \in 1 .. f : j = 1 + i
        BY <3>2
      <4> QED BY <1>13, <1>16, <4>1
    <3> QED BY <2>1, <3>1, <3>2
  <2>3. \A i \in 1 .. f : \E j \in 1 .. f + 1 : h[i] = g[j]
    BY <1>13, <1>16
  <2>4. 1 \in 1 .. f + 1
    BY <1>11
  <2>5. \A x \in TakenTDs' : x \in TakenTDs \cup {td}
    BY <1>17, <2>2
  <2>6. \A x \in TakenTDs : x \in TakenTDs'
    BY <1>17, <2>3
  <2>7. td \in TakenTDs'
    BY <1>13, <1>17, <2>4
  <2> QED BY <2>5, <2>6, <2>7
<1>19. \A j \in 1 .. f : g[1 + j] = h[j] /\ h[j] \in TakenTDs
  BY <1>13, <1>16, <1>17
<1>20. Takes(t, td)
  BY <1>2, <1>3, <1>5, <1>6, <1>8, <1>9, <1>10, <1>11, <1>13, <1>14, <1>15, <1>18, <1>19 DEF Takes
<1> QED BY <1>20

\* The TD the filter takes is behind those it took, and before those left in slots.
LEMMA FilterTestInOrder ==
  ASSUME OrderBase, FilterTest
  PROVE  OrderInv'
<1>1. /\ fpc = "scan" /\ testSlot # stopSlot
      /\ UNCHANGED <<doneQueue, deferredQueue, returned, frame, savedDoneQueueHead, consumerCount, producerCount, fpc, upset>>
  BY DEF FilterTest, listVars, chainVars, histVars
<1>2. CASE UNCHANGED <<tdSlots, pCachedHead, cachedProducer, outSlot>>
  <2>1. UNCHANGED orderVars
    BY <1>1, <1>2 DEF orderVars
  <2> QED BY <1>1, <2>1, OrderElsewhere
<1>3. CASE \E t \in SlotNumbers, td \in Numbers : Takes(t, td)
  <2>1. PICK t \in SlotNumbers, td \in Numbers : Takes(t, td)
    BY <1>3
  <2>2. FrameInv' /\ ChainTDs' = ChainTDs /\ (HomeOrder => HomeOrder')
    BY <1>1 DEF OrderBase, OrderInv, FrameInv, ChainTDs, HomeOrder, Queues
  <2>3. SUFFICES ASSUME "restarted" \notin upset
        PROVE  SlotOrder' /\ (upset \cap {"overtaken", "restarted"} = {} => AwayOrder')
    BY <1>1, <2>2 DEF OrderBase, OrderInv
  <2>4. SlotOrder /\ WindowInv
    BY <2>3 DEF OrderBase, OrderInv, LostInv
  <2>5. outSlot \in SlotNumbers /\ InSlots \subseteq SlotNumbers
    BY <1>1, <2>4, UsedIs, InSlotsFinite DEF OrderBase, Base, SlotTypes, WindowInv
  <2>6. \A s \in InSlots : Off(t) <= Off(s)
    BY <1>1, <2>1, <2>4 DEF WindowInv, Takes
  <2>7. \A s \in InSlots : s # t => Off(t) < Off(s)
    <3>1. ASSUME NEW s \in InSlots, s # t PROVE Off(t) < Off(s)
      <4>1. Off(t) \in Int /\ Off(s) \in Int /\ Off(t) # Off(s)
        BY <2>5, <3>1, OffsetIs DEF Off
      <4> QED BY <2>6, <4>1
    <3> QED BY <3>1
  <2>8. \A s \in InSlots' : s \in InSlots /\ s # t /\ tdSlots'[s] = tdSlots[s] /\ td < tdSlots[s]
    BY <2>1, <2>4, <2>7 DEF Takes, SlotOrder
  <2>9. SlotOrder'
    <3>1. ASSUME NEW x \in InSlots', NEW y \in InSlots', Offset(t, x) < Offset(t, y) PROVE tdSlots'[x] < tdSlots'[y]
      <4>1. x \in SlotNumbers /\ y \in SlotNumbers /\ x \in InSlots /\ y \in InSlots
        BY <2>5, <2>8
      <4>2. Offset(t, x) = Off(x) - Off(t) /\ Offset(t, y) = Off(y) - Off(t)
        BY <2>5, <2>6, <4>1, OffsetMoved DEF Off
      <4>3. Off(x) \in Int /\ Off(y) \in Int /\ Off(t) \in Int
        BY <2>5, <4>1, OffsetIs DEF Off
      <4>4. Off(x) < Off(y)
        <5>1. PICK a \in Int, b \in Int, c \in Int : a = Off(x) /\ b = Off(y) /\ c = Off(t)
          BY <4>3
        <5>2. a - c < b - c
          BY <3>1, <4>2, <5>1
        <5> QED BY <5>1, <5>2
      <4> QED BY <2>4, <2>8, <4>1, <4>4 DEF SlotOrder
    <3>2. outSlot' = t
      BY <2>1 DEF Takes
    <3> QED BY <3>1, <3>2 DEF SlotOrder, Off
  <2>10. SUFFICES ASSUME upset \cap {"overtaken", "restarted"} = {} PROVE AwayOrder'
    BY <2>9
  <2>11. HomeOrder /\ AwayOrder
    BY <2>10 DEF OrderBase, OrderInv
  <2>12. /\ SlotTDs = SlotTDs' \cup {td} /\ TakenTDs' = TakenTDs \cup {td} /\ td \in SlotTDs
    BY <2>1 DEF Takes
  <2>13. Before({td}, SlotTDs')
    <3>1. SlotTDs' = {tdSlots'[s] : s \in InSlots'}
      BY DEF SlotTDs
    <3> QED BY <2>8, <3>1 DEF Before
  <2>14. Away' = Away
    BY <2>2, <2>12 DEF Away
  <2>15. Before(ChainTDs, TakenTDs') /\ Before(ChainTDs \cup TakenTDs', SlotTDs')
    <3>1. Before(ChainTDs, TakenTDs) /\ Before(ChainTDs, SlotTDs) /\ Before(TakenTDs, SlotTDs)
      BY <2>11, OrderOf
    <3> QED BY <2>12, <2>13, <3>1 DEF Before
  <2>16. Falling(pCachedHead', Fresh')
    <3>0. PICK f \in Nat : f = Fresh
      BY <2>1 DEF Takes
    <3>1. PICK g, h :
            /\ f = Fresh /\ Fresh' = f + 1 /\ g = pCachedHead' /\ h = pCachedHead /\ g[1] = td
            /\ \A j \in 1 .. f : g[1 + j] = h[j] /\ h[j] < td
      <4>1. \A x \in TakenTDs : x < td
        BY <2>11, <2>12, OrderOf DEF Before
      <4> QED BY <2>1, <3>0, <4>1 DEF Takes
    <3>2. \A j, k \in 1 .. f : j < k => h[k] < h[j]
      BY <2>11, <3>1, OrderOf DEF Falling
    <3>3. ASSUME NEW j \in 1 .. f + 1, NEW k \in 1 .. f + 1, j < k PROVE g[k] < g[j]
      <4>1. PICK b \in 1 .. f : k = 1 + b
        <5>1. k - 1 \in 1 .. f /\ k = 1 + (k - 1)
          BY <3>1, <3>3
        <5> QED BY <5>1
      <4>2. CASE j = 1
        BY <3>1, <4>1, <4>2
      <4>3. CASE j # 1
        <5>1. PICK a \in 1 .. f : j = 1 + a
          <6>1. j - 1 \in 1 .. f /\ j = 1 + (j - 1)
            BY <3>1, <4>3
          <6> QED BY <6>1
        <5>2. a < b
          BY <3>1, <3>3, <4>1, <5>1
        <5> QED BY <3>1, <3>2, <4>1, <5>1, <5>2
      <4> QED BY <4>2, <4>3
    <3> QED BY <3>1, <3>3 DEF Falling
  <2> QED BY <1>1, <2>2, <2>11, <2>14, <2>15, <2>16 DEF AwayOrder
<1> QED BY <1>2, <1>3, TestTakes DEF OrderBase

\* What the filter publishes is the endpoint's chain behind its own.
LEMMA PublishInOrder ==
  ASSUME OrderBase, FilterPublish
  PROVE  OrderInv'
<1>1. /\ fpc = "scan" /\ fpc' = "idle" /\ savedDoneQueueHead' = pCachedHead /\ producerCount' = cachedProducer
      /\ UNCHANGED <<doneQueue, deferredQueue, returned, frame, tdSlots, outSlot, consumerCount, upset>>
  BY DEF FilterPublish, Published, listVars, slotVars, tdVars, histVars
<1>2. ChainTDs' = ChainTDs \cup TakenTDs
  BY PublishedChain DEF OrderBase
<1>3. Fresh' = 0 /\ InSlots' = InSlots /\ \A s : Off(s)' = Off(s)
  BY <1>1 DEF Fresh, InSlots, Off
<1>4. TakenTDs' = {} /\ SlotTDs' = SlotTDs
  BY <1>1, <1>3 DEF TakenTDs, SlotTDs
<1>5. Away' = Away
  BY <1>2, <1>4 DEF Away
<1>6. FrameInv' /\ (SlotOrder => SlotOrder') /\ (HomeOrder => HomeOrder')
  BY <1>1, <1>3 DEF OrderBase, OrderInv, FrameInv, SlotOrder, HomeOrder, Queues
<1>7. SUFFICES ASSUME HomeOrder, AwayOrder PROVE AwayOrder'
  BY <1>1, <1>6 DEF OrderBase, OrderInv
<1>8. Falling(pCachedHead', Fresh')
  BY <1>3 DEF Falling
<1>9. Before(ChainTDs', TakenTDs') /\ Before(ChainTDs' \cup TakenTDs', SlotTDs')
  <2>1. Before(ChainTDs', TakenTDs')
    BY <1>4 DEF Before
  <2>2. ChainTDs' \cup TakenTDs' = ChainTDs \cup TakenTDs
    BY <1>2, <1>4
  <2> QED BY <1>4, <1>7, <2>1, <2>2 DEF AwayOrder
<1>10. Falling(savedDoneQueueHead', producerCount' - consumerCount')
  <2>1. PICK h \in Seq(Numbers), s \in Seq(Numbers), n \in Nat, p \in Nat, c \in Nat :
          h = pCachedHead /\ s = savedDoneQueueHead /\ n = cachedProducer /\ p = producerCount /\ c = consumerCount
          /\ c <= p /\ p <= n
    BY <1>1 DEF OrderBase, Base, FilterTypes, ChainTypes
  <2>2. \A j \in 1 .. p : h[n - p + j] = s[j]
    BY <1>1, <2>1 DEF OrderBase, Base, FilterTypes
  <2>3. /\ \A j, k \in 1 .. n - p : j < k => h[k] < h[j]
        /\ \A j, k \in 1 .. p - c : j < k => s[k] < s[j]
        /\ \A j \in 1 .. n - p, k \in 1 .. p - c : s[k] < h[j]
    <3>1. Fresh = n - p
      BY <1>1, <2>1 DEF Fresh
    <3>2. TakenTDs = {h[j] : j \in 1 .. n - p} /\ ChainTDs = {s[j] : j \in 1 .. p - c}
      BY <2>1, <3>1 DEF TakenTDs, ChainTDs
    <3>3. Falling(s, p - c) /\ Falling(h, n - p) /\ Before(ChainTDs, TakenTDs)
      BY <1>7, <2>1, <3>1 DEF AwayOrder
    <3> QED BY <3>2, <3>3 DEF Falling, Before
  <2>4. \A j \in 1 .. n - c : j \in 1 .. n - p \/ \E i \in 1 .. p - c : j = n - p + i
    <3>1. ASSUME NEW j \in 1 .. n - c, j \notin 1 .. n - p PROVE \E i \in 1 .. p - c : j = n - p + i
      <4>1. j - (n - p) \in 1 .. p - c /\ j = n - p + (j - (n - p))
        BY <2>1, <3>1
      <4> QED BY <4>1
    <3> QED BY <3>1
  <2>5. ASSUME NEW j \in 1 .. n - c, NEW k \in 1 .. n - c, j < k PROVE h[k] < h[j]
    <3>1. CASE k \in 1 .. n - p
      <4>1. j \in 1 .. n - p
        BY <2>1, <2>5, <3>1
      <4> QED BY <2>3, <2>5, <3>1, <4>1
    <3>2. CASE \E i \in 1 .. p - c : k = n - p + i
      <4>1. PICK i \in 1 .. p - c : k = n - p + i
        BY <3>2
      <4>2. h[k] = s[i]
        BY <2>1, <2>2, <4>1
      <4>3. CASE j \in 1 .. n - p
        BY <2>3, <4>2, <4>3
      <4>4. CASE \E x \in 1 .. p - c : j = n - p + x
        <5>1. PICK x \in 1 .. p - c : j = n - p + x
          BY <4>4
        <5>2. h[j] = s[x] /\ x < i
          BY <2>1, <2>2, <2>5, <4>1, <5>1
        <5> QED BY <2>3, <4>2, <5>2
      <4> QED BY <2>4, <4>3, <4>4
    <3> QED BY <2>4, <3>1, <3>2
  <2> QED BY <1>1, <2>1, <2>5 DEF Falling
<1> QED BY <1>1, <1>5, <1>7, <1>8, <1>9, <1>10 DEF AwayOrder

\* An underrun event that starts the slots again finds none with a TD.
LEMMA PolledInOrder ==
  ASSUME OrderBase, PollBounced
  PROVE  OrderInv'
<1>1. /\ upset \subseteq upset' /\ (outSlot' = outSlot \/ outSlot' = Unset)
      /\ UNCHANGED <<doneQueue, deferredQueue, returned, frame, tdSlots, savedDoneQueueHead, producerCount,
                     consumerCount, fpc, pCachedHead, cachedProducer>>
  BY DEF PollBounced, listVars, tdVars, filterVars, chainVars
<1>2. CASE outSlot' = outSlot
  BY <1>1, <1>2, OrderElsewhere DEF orderVars
<1>3. CASE outSlot' = Unset
  <2>1. ~Used(outSlot')
    BY <1>3, Slots DEF Used
  <2>2. "restarted" \notin upset' => InSlots' = {}
    BY <2>1, PolledKeeps DEF OrderBase, LostInv, WindowInv
  <2>3. "restarted" \notin upset' => SlotOrder'
    BY <2>2 DEF SlotOrder
  <2>4. Fresh' = Fresh /\ InSlots' = InSlots /\ ChainTDs' = ChainTDs
    BY <1>1 DEF Fresh, InSlots, ChainTDs
  <2>5. TakenTDs' = TakenTDs /\ SlotTDs' = SlotTDs
    BY <1>1, <2>4 DEF TakenTDs, SlotTDs
  <2>6. FrameInv' /\ (HomeOrder => HomeOrder')
    BY <1>1 DEF OrderBase, OrderInv, FrameInv, HomeOrder, Queues
  <2>7. AwayOrder => AwayOrder'
    BY <1>1, <2>4, <2>5 DEF AwayOrder, Away
  <2>8. upset' \cap {"overtaken", "restarted"} = {} => upset \cap {"overtaken", "restarted"} = {}
    BY <1>1
  <2> QED BY <2>3, <2>6, <2>7, <2>8 DEF OrderBase, OrderInv
<1> QED BY <1>1, <1>2, <1>3

\* The steps that move no TD.
LEMMA OthersInOrder ==
  ASSUME OrderBase,
         \/ AddNothing \/ AddBegin \/ AddDelayed \/ AddNoRoom \/ AddToRing \/ AddStart \/ AddMark \/ Abort
         \/ FilterPass \/ FilterSkip \/ Xhc \/ HwPart \/ HwMiss \/ UNCHANGED vars
  PROVE  OrderInv'
<1> SUFFICES UNCHANGED orderVars /\ upset \subseteq upset'
  BY OrderElsewhere
<1>1. CASE AddNothing \/ AddBegin \/ AddDelayed
  BY <1>1 DEF AddNothing, AddBegin, AddDelayed, orderVars, listVars, slotVars, chainVars, tdVars, filterVars, histVars
<1>2. CASE AddNoRoom
  BY <1>2 DEF AddNoRoom, Upset, orderVars, listVars, slotVars, chainVars, tdVars, filterVars
<1>3. CASE AddToRing
  BY <1>3 DEF AddToRing, Upset, orderVars, listVars, slotVars, chainVars, tdVars, filterVars
<1>4. CASE AddStart \/ AddMark
  BY <1>4 DEF AddStart, AddMark, orderVars, listVars, slotVars, chainVars, tdVars, filterVars, histVars
<1>5. CASE Abort
  BY <1>5 DEF Abort, orderVars, listVars, slotVars, chainVars, tdVars, filterVars
<1>6. CASE FilterPass
  BY <1>6 DEF FilterPass, Upset, orderVars, listVars, slotVars, chainVars, tdVars, filterVars
<1>7. CASE FilterSkip
  BY <1>7 DEF FilterSkip, orderVars, listVars, slotVars, chainVars, tdVars, histVars
<1>8. CASE HwTransfer
  BY <1>8 DEF HwTransfer, Upset, orderVars, listVars, slotVars, chainVars, tdVars, filterVars
<1>9. CASE HwUnderrun \/ HwPart
  BY <1>9 DEF HwUnderrun, HwPart, orderVars, listVars, slotVars, chainVars, tdVars, filterVars, histVars
<1>10. CASE HwMiss
  BY <1>10 DEF HwMiss, Upset, orderVars, listVars, slotVars, chainVars, tdVars, filterVars
<1>11. CASE UNCHANGED vars
  <2>1. /\ UNCHANGED listVars /\ UNCHANGED slotVars /\ UNCHANGED chainVars /\ UNCHANGED tdVars
        /\ UNCHANGED filterVars /\ UNCHANGED histVars
    BY <1>11 DEF vars
  <2>2. UNCHANGED <<doneQueue, deferredQueue, tdSlots, outSlot, savedDoneQueueHead, producerCount, consumerCount, frame>>
    BY <2>1 DEF listVars, slotVars, chainVars, tdVars
  <2>3. UNCHANGED <<fpc, pCachedHead, cachedProducer, upset, returned>>
    BY <2>1 DEF filterVars, histVars
  <2> QED BY <2>2, <2>3 DEF orderVars
<1> QED BY <1>1, <1>2, <1>3, <1>4, <1>5, <1>6, <1>7, <1>8, <1>9, <1>10, <1>11 DEF Xhc

\* Every step keeps the order.
LEMMA OrderStep == OrderBase /\ [Next]_vars => OrderBase'
<1> SUFFICES ASSUME OrderBase, [Next]_vars PROVE OrderBase'
  OBVIOUS
<1>1. Base' /\ LostInv'
  BY LostStep DEF OrderBase
<1> SUFFICES OrderInv'
  BY <1>1 DEF OrderBase
<1>2. CASE UIMCreateIsochTransfer
  BY <1>2, RequestInOrder
<1>3. CASE AddLate
  BY <1>3, LateInOrder
<1>4. CASE AddToSlot
  BY <1>4, SlotInOrder
<1>5. CASE RetireIsocTransactions
  BY <1>5, RetireInOrder
<1>6. CASE PollBounced
  BY <1>6, PolledInOrder
<1>7. CASE ReturnThread
  BY <1>7, ThreadInOrder
<1>8. CASE AbortIsochEP
  BY <1>8, AbortInOrder
<1>9. CASE FilterBegin
  BY <1>9, FilterBeginInOrder
<1>10. CASE FilterTest
  BY <1>10, FilterTestInOrder
<1>11. CASE FilterPublish
  BY <1>11, PublishInOrder
<1>12. CASE \/ AddNothing \/ AddBegin \/ AddDelayed \/ AddNoRoom \/ AddToRing \/ AddStart \/ AddMark \/ Abort
            \/ FilterPass \/ FilterSkip \/ Xhc \/ HwPart \/ HwMiss \/ UNCHANGED vars
  BY <1>12, OthersInOrder
<1> QED BY <1>2, <1>3, <1>4, <1>5, <1>6, <1>7, <1>8, <1>9, <1>10, <1>11, <1>12
        DEF Next, AddIsocFramesToSchedule, PollEventRing2, Filter

\* ReturnedInOrder follows: the numbers returned rise, and frames with them.
LEMMA OrderImplies == OrderBase => ReturnedInOrder
<1> SUFFICES ASSUME OrderBase, upset \cap {"overtaken", "restarted"} = {},
                    NEW j \in DOMAIN returned, NEW k \in DOMAIN returned, j < k
             PROVE  frame[returned[j]] < frame[returned[k]]
  BY DEF ReturnedInOrder
<1>1. PICK r \in Seq(Numbers) : r = returned
  BY DEF OrderBase, Base, ListTypes
<1>2. j \in 1 .. Len(r) /\ k \in 1 .. Len(r)
  BY <1>1
<1>3. Rising(r)
  BY <1>1 DEF OrderBase, OrderInv, HomeOrder
<1>4. r[j] < r[k]
  BY <1>2, <1>3 DEF Rising
<1>5. r[j] \in ToSet(r) /\ r[k] \in ToSet(r)
  BY <1>2 DEF ToSet
<1>6. r[j] \in 1 .. Sent /\ r[k] \in 1 .. Sent
  BY <1>1, <1>5 DEF OrderBase, Base, Places, Home
<1>7. Sent \in Nat /\ Len(frame) \in Nat /\ Sent <= Len(frame)
  <2>1. PICK a \in Nat, b \in Nat : a = Len(frame) /\ b = Len(toDoList) /\ b <= a
    BY LenProperties DEF OrderBase, Base, ListTypes
  <2> QED BY <2>1 DEF Sent
<1>8. r[j] \in 1 .. Len(frame) /\ r[k] \in 1 .. Len(frame)
  BY <1>6, <1>7
<1>9. frame[r[j]] < frame[r[k]]
  BY <1>4, <1>8 DEF OrderBase, OrderInv, FrameInv
<1> QED BY <1>1, <1>9

\* The order is kept.
THEOREM OrderAlways == Spec => []OrderBase
<1>1. Init => OrderBase
  BY InitLost, InitOrder DEF OrderBase
<1>2. OrderBase /\ [Next]_vars => OrderBase'
  BY OrderStep
<1> QED BY <1>1, <1>2, PTL DEF Spec

\* TDs are returned in the order of their frames, the deferred among them, unless a late TD overtook those
\* the filter held or the slots were restarted under it: for every number of slots and of TDs.
THEOREM ReturnedInOrderHolds == Spec => []ReturnedInOrder
<1>1. OrderBase => ReturnedInOrder
  BY OrderImplies
<1> QED BY <1>1, OrderAlways, PTL

-----------------------------------------------------------------------------
(* Success. Events are for TDs in slots, in the order in which the ring has  *)
(* them, so that the filter stops at the TD an event is for.                *)

Statuses == {"none", "ok", "assumed", "notSent"}
EventSet == [kind : {"done", "underrun", "off"}, td : Nat, last : BOOLEAN]
RingTypes ==
  /\ hwRing \in Seq(Numbers) /\ events \in Seq(EventSet) /\ status \in Seq(Statuses)
  /\ gpc = "lay" => pIsochTd \in Numbers
  /\ fpc = "scan" => fEvent \in EventSet

\* What event e is about is before the TD: an event for a part of a TD can be followed by another.
Earlier(e, td) == e.td < td \/ (~e.last /\ e.td = td)
DoneEvents     == {e \in ToSet(events) : e.kind = "done"}
\* The TDs on the ring are in slots, and the one to be laid out is behind them.
RingOrder ==
  /\ Rising(hwRing) /\ ToSet(hwRing) \subseteq SlotTDs
  /\ gpc = "lay" => pIsochTd \in SlotTDs /\ \A x \in ToSet(hwRing) : x < pIsochTd
Ahead(e) ==
  /\ \A x \in ToSet(hwRing) : Earlier(e, x)
  /\ gpc = "lay" => e.td < pIsochTd
EventsRise ==
  \A i, j \in 1 .. Len(events) :
    i < j /\ events[i].kind = "done" /\ events[j].kind = "done" => Earlier(events[i], events[j].td)
EventsOrder == EventsRise /\ \A e \in DoneEvents : e.td \in SlotTDs /\ Ahead(e)
\* The filter will come to the slot of the TD its event is for.
Reaches == \E s \in InSlots : tdSlots[s] = fEvent.td /\ Off(testSlot) <= Off(s) /\ Off(s) < Off(stopSlot)
FilterOrder == fpc = "scan" =>
  /\ testSlot # stopSlot => Reaches
  /\ InSlots # {} \/ Fresh > 0
  /\ fEvent.td <= Sent /\ Ahead(fEvent) /\ \A e \in DoneEvents : Earlier(fEvent, e.td)
RegularInv == "second" \notin upset => "restarted" \notin upset /\ RingOrder /\ EventsOrder /\ FilterOrder

\* A TD in a slot has been carried out, is on the ring, or is about to be laid out.
RanInv == upset \cap {"second", "missed", "notLaid"} = {} =>
  /\ \A td \in SlotTDs : td \in ran \/ td \in ToSet(hwRing) \/ (gpc = "lay" /\ td = pIsochTd)
  /\ \A e \in DoneEvents : e.last => e.td \in ran
  /\ SuccessIsDone

\* Everything the steps keep.
RunBase == OrderBase /\ RingTypes /\ RegularInv /\ RanInv

\* The events in the queue, and those of them that report TDs.
LEMMA EventsKnown ==
  ASSUME events \in Seq(EventSet)
  PROVE  /\ Len(events) \in Nat /\ \A i \in 1 .. Len(events) : events[i] \in EventSet
         /\ \A i \in 1 .. Len(events) : events[i].kind = "done" => events[i] \in DoneEvents
         /\ \A e \in DoneEvents : e \in EventSet /\ e.kind = "done" /\ e.td \in Nat /\ \E i \in 1 .. Len(events) : e = events[i]
<1>1. Len(events) \in Nat /\ DOMAIN events = 1 .. Len(events)
  BY LenProperties
<1>2. \A i \in 1 .. Len(events) : events[i] \in EventSet
  BY ElementOfSeq
<1>3. ToSet(events) = {events[i] : i \in 1 .. Len(events)}
  BY <1>1 DEF ToSet
<1>4. \A e \in EventSet : e.td \in Nat
  BY DEF EventSet
<1> QED BY <1>1, <1>2, <1>3, <1>4 DEF DoneEvents

\* An event is posted behind the others.
Posted(e) ==
  /\ events' \in Seq(EventSet) /\ Len(events') = Len(events) + 1
  /\ \A i \in 1 .. Len(events) : events'[i] = events[i]
  /\ events'[Len(events) + 1] = e

\* That is what both ways to do it come to.
LEMMA PostedOne ==
  ASSUME NEW e \in EventSet, events \in Seq(EventSet), events' = events \o <<e>> \/ events' = Append(events, e)
  PROVE  Posted(e)
<1>1. CASE events' = Append(events, e)
  BY <1>1, AppendProperties DEF Posted
<1>2. CASE events' = events \o <<e>>
  <2>1. <<e>> \in Seq(EventSet) /\ Len(<<e>>) = 1 /\ <<e>>[1] = e
    OBVIOUS
  <2>2. /\ events \o <<e>> \in Seq(EventSet) /\ Len(events \o <<e>>) = Len(events) + Len(<<e>>)
        /\ \A i \in 1 .. Len(events) : (events \o <<e>>)[i] = events[i]
        /\ \A i \in 1 .. Len(<<e>>) : (events \o <<e>>)[Len(events) + i] = <<e>>[i]
    BY <2>1, Concatenated
  <2>3. 1 \in 1 .. Len(<<e>>)
    BY <2>1
  <2> QED BY <1>2, <2>1, <2>2, <2>3 DEF Posted
<1> QED BY <1>1, <1>2

\* It keeps the order when it is about what comes later.
LEMMA PostedRises ==
  ASSUME NEW e \in EventSet, events \in Seq(EventSet), Posted(e)
  PROVE  /\ \A d \in DoneEvents' : d \in DoneEvents \/ (d = e /\ e.kind = "done")
         /\ EventsRise /\ (e.kind = "done" => \A d \in DoneEvents : Earlier(d, e.td)) => EventsRise'
<1>1. PICK n \in Nat, old \in Seq(EventSet), new \in Seq(EventSet) :
        /\ n = Len(events) /\ old = events /\ new = events' /\ Len(new) = n + 1
        /\ (\A i \in 1 .. n : new[i] = old[i]) /\ new[n + 1] = e
  BY LenProperties DEF Posted
<1>2. \A i \in 1 .. n + 1 : i \in 1 .. n \/ i = n + 1
  BY <1>1
<1>3. DoneEvents' = {d \in ToSet(new) : d.kind = "done"} /\ ToSet(new) = {new[i] : i \in 1 .. n + 1}
  <2>1. DOMAIN new = 1 .. n + 1
    BY <1>1, LenProperties
  <2> QED BY <1>1, <2>1 DEF DoneEvents, ToSet
<1>4. \A i \in 1 .. n : old[i].kind = "done" => old[i] \in DoneEvents
  BY <1>1, EventsKnown
<1>5. \A d \in DoneEvents' : d \in DoneEvents \/ (d = e /\ e.kind = "done")
  BY <1>1, <1>2, <1>3, <1>4
<1>6. ASSUME EventsRise, e.kind = "done" => \A d \in DoneEvents : Earlier(d, e.td) PROVE EventsRise'
  <2>1. \A i, j \in 1 .. n : i < j /\ old[i].kind = "done" /\ old[j].kind = "done" => Earlier(old[i], old[j].td)
    BY <1>1, <1>6 DEF EventsRise
  <2>2. ASSUME NEW i \in 1 .. n + 1, NEW j \in 1 .. n + 1, i < j, new[i].kind = "done", new[j].kind = "done"
        PROVE  Earlier(new[i], new[j].td)
    <3>1. i \in 1 .. n
      BY <1>1, <2>2
    <3>2. CASE j \in 1 .. n
      BY <1>1, <2>1, <2>2, <3>1, <3>2
    <3>3. CASE j = n + 1
      BY <1>1, <1>4, <1>6, <2>2, <3>1, <3>3
    <3> QED BY <1>2, <3>2, <3>3
  <2> QED BY <1>1, <2>2 DEF EventsRise
<1> QED BY <1>5, <1>6

\* The first event is taken off, and what is left is about what comes later.
LEMMA EventTaken ==
  ASSUME events \in Seq(EventSet), events # <<>>, events' = Tail(events)
  PROVE  /\ events' \in Seq(EventSet) /\ Head(events) \in EventSet
         /\ Head(events).kind = "done" => Head(events) \in DoneEvents
         /\ DoneEvents' \subseteq DoneEvents
         /\ EventsRise => EventsRise' /\ (Head(events).kind = "done" => \A d \in DoneEvents' : Earlier(Head(events), d.td))
<1>0. PICK n \in Nat : n + 1 = Len(events)
  <2>1. PICK m \in Nat : m = Len(events) /\ m # 0
    BY LenProperties, EmptySeq
  <2>2. m - 1 \in Nat /\ m - 1 + 1 = m
    BY <2>1
  <2> QED BY <2>1, <2>2
<1>9. /\ Tail(events) \in Seq(EventSet) /\ Len(Tail(events)) = n
      /\ \A i \in 1 .. n : Tail(events)[i] = events[i + 1]
  <2>1. /\ Tail(events) \in Seq(EventSet) /\ Len(Tail(events)) = Len(events) - 1
        /\ \A i \in 1 .. Len(Tail(events)) : Tail(events)[i] = events[i + 1]
    BY HeadTailProperties
  <2>2. Len(Tail(events)) = n
    BY <1>0, <2>1
  <2> QED BY <2>1, <2>2
<1>1. PICK old \in Seq(EventSet), new \in Seq(EventSet) :
        /\ n + 1 = Len(events) /\ old = events /\ new = events' /\ Len(new) = n
        /\ \A i \in 1 .. n : new[i] = old[i + 1]
  BY <1>0, <1>9, Zenon
<1>2. Head(events) = old[1] /\ old[1] \in EventSet
  BY <1>1, EventsKnown
<1>3. \A i \in 1 .. n : i + 1 \in 1 .. n + 1
  BY <1>1
<1>4. DoneEvents' = {d \in ToSet(new) : d.kind = "done"} /\ ToSet(new) = {new[i] : i \in 1 .. n}
  <2>1. DOMAIN new = 1 .. n
    BY <1>1, LenProperties
  <2> QED BY <1>1, <2>1 DEF DoneEvents, ToSet
<1>5. \A i \in 1 .. n + 1 : old[i].kind = "done" => old[i] \in DoneEvents
  BY <1>1, EventsKnown
<1>6. DoneEvents' \subseteq DoneEvents
  BY <1>1, <1>3, <1>4, <1>5
<1>7. 1 \in 1 .. n + 1 /\ (Head(events).kind = "done" => Head(events) \in DoneEvents)
  BY <1>1, <1>2, <1>5
<1>8. ASSUME EventsRise
      PROVE  EventsRise' /\ (Head(events).kind = "done" => \A d \in DoneEvents' : Earlier(Head(events), d.td))
  <2>1. \A i, j \in 1 .. n + 1 : i < j /\ old[i].kind = "done" /\ old[j].kind = "done" => Earlier(old[i], old[j].td)
    BY <1>1, <1>8 DEF EventsRise
  <2>2. ASSUME NEW i \in 1 .. n, NEW j \in 1 .. n, i < j, new[i].kind = "done", new[j].kind = "done"
        PROVE  Earlier(new[i], new[j].td)
    <3>1. i + 1 < j + 1 /\ new[i] = old[i + 1] /\ new[j] = old[j + 1]
      BY <1>1, <2>2
    <3> QED BY <1>3, <2>1, <2>2, <3>1
  <2>3. ASSUME old[1].kind = "done", NEW j \in 1 .. n, new[j].kind = "done" PROVE Earlier(old[1], new[j].td)
    <3>1. 1 < j + 1 /\ new[j] = old[j + 1]
      BY <1>1, <2>3
    <3> QED BY <1>3, <1>7, <2>1, <2>3, <3>1
  <2>4. EventsRise'
    BY <1>1, <2>2 DEF EventsRise
  <2> QED BY <1>2, <1>4, <2>3, <2>4
<1> QED BY <1>1, <1>2, <1>6, <1>7, <1>8

\* The first TD is taken off the ring, and is before those left.
LEMMA RingTaken ==
  ASSUME hwRing \in Seq(Numbers), hwRing # <<>>, hwRing' = Tail(hwRing)
  PROVE  /\ hwRing' \in Seq(Numbers) /\ Head(hwRing) \in Numbers
         /\ ToSet(hwRing) = ToSet(hwRing') \cup {Head(hwRing)}
         /\ Rising(hwRing) => Rising(hwRing') /\ \A x \in ToSet(hwRing') : Head(hwRing) < x
<1>0. PICK n \in Nat : n + 1 = Len(hwRing)
  <2>1. PICK m \in Nat : m = Len(hwRing) /\ m # 0
    BY LenProperties, EmptySeq
  <2>2. m - 1 \in Nat /\ m - 1 + 1 = m
    BY <2>1
  <2> QED BY <2>1, <2>2
<1>9. /\ Tail(hwRing) \in Seq(Numbers) /\ Len(Tail(hwRing)) = n
      /\ \A i \in 1 .. n : Tail(hwRing)[i] = hwRing[i + 1]
  <2>1. /\ Tail(hwRing) \in Seq(Numbers) /\ Len(Tail(hwRing)) = Len(hwRing) - 1
        /\ \A i \in 1 .. Len(Tail(hwRing)) : Tail(hwRing)[i] = hwRing[i + 1]
    BY HeadTailProperties
  <2>2. Len(Tail(hwRing)) = n
    BY <1>0, <2>1
  <2> QED BY <2>1, <2>2
<1>1. PICK old \in Seq(Numbers), new \in Seq(Numbers) :
        /\ n + 1 = Len(hwRing) /\ old = hwRing /\ new = hwRing' /\ Len(new) = n
        /\ \A i \in 1 .. n : new[i] = old[i + 1]
  BY <1>0, <1>9, Zenon
<1>2. Head(hwRing) = old[1] /\ old[1] \in Numbers /\ 1 \in 1 .. n + 1
  BY <1>1, HeadTailProperties
<1>3. \A i \in 1 .. n : i + 1 \in 1 .. n + 1 /\ 1 < i + 1
  BY <1>1
<1>4. ToSet(old) = {old[i] : i \in 1 .. n + 1} /\ ToSet(new) = {new[i] : i \in 1 .. n}
  <2>1. DOMAIN new = 1 .. n /\ DOMAIN old = 1 .. n + 1
    BY <1>1, LenProperties
  <2> QED BY <1>1, <2>1 DEF ToSet
<1>5. ToSet(old) = ToSet(new) \cup {old[1]}
  <2>1. \A j \in 1 .. n + 1 : j = 1 \/ \E i \in 1 .. n : j = i + 1
    <3>1. \A j \in 1 .. n + 1 : j = 1 \/ (j - 1 \in 1 .. n /\ j = (j - 1) + 1)
      BY <1>1
    <3> QED BY <3>1
  <2>2. \A j \in 1 .. n + 1 : old[j] = old[1] \/ \E i \in 1 .. n : old[j] = new[i]
    BY ZenonT(40), <1>1, <2>1
  <2>3. \A i \in 1 .. n : \E j \in 1 .. n + 1 : new[i] = old[j]
    BY <1>1, <1>3
  <2>4. \A x \in ToSet(old) : x \in ToSet(new) \cup {old[1]}
    BY ZenonT(40), <1>4, <2>2
  <2>5. \A x \in ToSet(new) : x \in ToSet(old)
    BY <1>4, <2>3
  <2>6. old[1] \in ToSet(old)
    BY <1>2, <1>4
  <2> QED BY <2>4, <2>5, <2>6
<1>6. ASSUME Rising(old) PROVE Rising(new) /\ \A x \in ToSet(new) : old[1] < x
  <2>1. \A i, j \in 1 .. n + 1 : i < j => old[i] < old[j]
    BY <1>1, <1>6 DEF Rising
  <2>2. ASSUME NEW i \in 1 .. n, NEW j \in 1 .. n, i < j PROVE new[i] < new[j]
    <3>1. i + 1 < j + 1
      BY <2>2
    <3> QED BY <1>1, <1>3, <2>1, <3>1
  <2>3. \A i \in 1 .. n : old[1] < new[i]
    BY <1>1, <1>2, <1>3, <2>1
  <2> QED BY <1>1, <1>4, <2>2, <2>3 DEF Rising
<1> QED BY <1>1, <1>2, <1>5, <1>6

\* At first there is nothing on the ring, and no event.
LEMMA InitRun == Init => RingTypes /\ RegularInv /\ RanInv
<1> SUFFICES ASSUME Init PROVE RingTypes /\ RegularInv /\ RanInv
  OBVIOUS
<1>1. /\ hwRing = <<>> /\ events = <<>> /\ status = <<>> /\ gpc = "idle" /\ fpc = "idle" /\ upset = {}
      /\ tdSlots = [s \in SlotNumbers |-> 0]
  BY DEF Init, SlotNumbers, Free
<1>2. ToSet(<<>>) = {} /\ Len(<<>>) = 0 /\ DOMAIN <<>> = {}
  BY DEF ToSet
<1>3. InSlots = {}
  BY <1>1 DEF InSlots, Free
<1>4. SlotTDs = {} /\ DoneEvents = {}
  BY <1>1, <1>2, <1>3 DEF SlotTDs, DoneEvents
<1>5. RingTypes
  BY <1>1 DEF RingTypes
<1>6. RegularInv
  BY <1>1, <1>2, <1>4 DEF RegularInv, RingOrder, EventsOrder, EventsRise, FilterOrder, Rising
<1>7. RanInv
  BY <1>1, <1>2, <1>4 DEF RanInv, SuccessIsDone
<1> QED BY <1>5, <1>6, <1>7

\* What the filter and the slots have to do with it.
regularVars == <<tdSlots, outSlot, fpc, fEvent, testSlot, stopSlot, cachedProducer, producerCount>>

\* Nothing comes on the ring, into the events or in sight of the filter.
LEMMA RegularElsewhere ==
  ASSUME RegularInv, UNCHANGED regularVars,
         ToSet(hwRing') \subseteq ToSet(hwRing), Rising(hwRing) => Rising(hwRing'),
         DoneEvents' \subseteq DoneEvents, EventsRise => EventsRise',
         gpc' = "lay" => gpc = "lay" /\ pIsochTd' = pIsochTd,
         fpc = "scan" => fEvent.td <= Sent',
         upset \subseteq upset', "restarted" \in upset' => "restarted" \in upset
  PROVE  RegularInv'
<1>1. InSlots' = InSlots /\ Fresh' = Fresh /\ \A s : Off(s)' = Off(s)
  BY DEF InSlots, Fresh, Off, regularVars
<1>2. SlotTDs' = SlotTDs /\ (Reaches' <=> Reaches)
  BY <1>1 DEF SlotTDs, Reaches, regularVars
<1>3. \A e : Ahead(e) => Ahead(e)'
  BY DEF Ahead
<1>4. RingOrder => RingOrder'
  BY <1>2 DEF RingOrder
<1>5. EventsOrder => EventsOrder'
  BY <1>2, <1>3 DEF EventsOrder
<1>6. FilterOrder => FilterOrder'
  <2>1. PICK f : f = fEvent /\ f = fEvent'
    BY DEF regularVars
  <2>2. Ahead(fEvent) => Ahead(f)
    BY <2>1
  <2>3. Ahead(f)' => Ahead(fEvent)'
    BY <2>1 DEF Ahead
  <2> QED BY <1>1, <1>2, <1>3, <2>1, <2>2, <2>3 DEF FilterOrder, regularVars
<1> QED BY <1>4, <1>5, <1>6 DEF RegularInv

\* No TD is put in a slot or reported.
LEMMA RanElsewhere ==
  ASSUME RanInv, SlotTDs' \subseteq SlotTDs, ran \subseteq ran', DoneEvents' \subseteq DoneEvents, upset \subseteq upset',
         \A td \in SlotTDs' : td \in ToSet(hwRing) => td \in ToSet(hwRing') \/ td \in ran',
         \A td \in SlotTDs' : gpc = "lay" /\ td = pIsochTd => gpc' = "lay" /\ pIsochTd' = pIsochTd,
         \A td \in DOMAIN status' : status'[td] \in {"ok", "assumed"} => td \in DOMAIN status /\ status'[td] = status[td]
  PROVE  RanInv'
<1> SUFFICES ASSUME upset' \cap {"second", "missed", "notLaid"} = {} PROVE RanInv'
  BY DEF RanInv
<1>1. upset \cap {"second", "missed", "notLaid"} = {}
  OBVIOUS
<1>2. /\ \A td \in SlotTDs : td \in ran \/ td \in ToSet(hwRing) \/ (gpc = "lay" /\ td = pIsochTd)
      /\ \A e \in DoneEvents : e.last => e.td \in ran
      /\ \A td \in DOMAIN status : status[td] \in {"ok", "assumed"} => td \in ran
  BY <1>1 DEF RanInv, SuccessIsDone
<1>3. \A td \in SlotTDs' : td \in ran' \/ td \in ToSet(hwRing') \/ (gpc' = "lay" /\ td = pIsochTd')
  BY <1>2
<1>4. \A e \in DoneEvents' : e.last => e.td \in ran'
  BY <1>2
<1>5. SuccessIsDone'
  BY <1>2 DEF SuccessIsDone
<1> QED BY <1>3, <1>4, <1>5 DEF RanInv

\* An event is posted, and if it reports a TD, one that was on the ring, which is before those left on it.
LEMMA PostedRegular ==
  ASSUME RingTypes, RegularInv, NEW e \in EventSet, Posted(e), UNCHANGED regularVars, UNCHANGED <<gpc, pIsochTd, frame, toDoList>>,
         ToSet(hwRing') \subseteq ToSet(hwRing), Rising(hwRing) => Rising(hwRing'),
         e.kind = "done" => e.td \in ToSet(hwRing) /\ (Rising(hwRing) => \A x \in ToSet(hwRing') : Earlier(e, x)),
         upset \subseteq upset', "restarted" \in upset' => "restarted" \in upset
  PROVE  RegularInv'
<1> SUFFICES ASSUME "second" \notin upset' PROVE RegularInv'
  BY DEF RegularInv
<1>1. RingOrder /\ EventsOrder /\ FilterOrder /\ "restarted" \notin upset'
  BY DEF RegularInv
<1>2. InSlots' = InSlots /\ Fresh' = Fresh /\ Sent' = Sent /\ \A s : Off(s)' = Off(s)
  BY DEF InSlots, Fresh, Off, Sent, regularVars
<1>3. SlotTDs' = SlotTDs /\ (Reaches' <=> Reaches)
  BY <1>2 DEF SlotTDs, Reaches, regularVars
<1>4. \A d : Ahead(d) => Ahead(d)'
  BY DEF Ahead
<1>5. RingOrder'
  BY <1>1, <1>3 DEF RingOrder
<1>6. e.kind = "done" => \A d \in DoneEvents : Earlier(d, e.td)
  BY <1>1 DEF EventsOrder, Ahead
<1>7. (\A d \in DoneEvents' : d \in DoneEvents \/ (d = e /\ e.kind = "done")) /\ EventsRise'
  BY <1>1, <1>6, PostedRises DEF RingTypes, EventsOrder
<1>8. e.kind = "done" => e.td \in SlotTDs' /\ Ahead(e)'
  BY <1>1, <1>3 DEF RingOrder, Ahead
<1>9. EventsOrder'
  BY <1>1, <1>3, <1>4, <1>7, <1>8 DEF EventsOrder
<1>10. FilterOrder'
  <2>1. PICK f : f = fEvent /\ f = fEvent'
    BY DEF regularVars
  <2> SUFFICES ASSUME fpc = "scan" PROVE FilterOrder'
    BY DEF FilterOrder, regularVars
  <2>2. /\ testSlot # stopSlot => Reaches
        /\ InSlots # {} \/ Fresh > 0
        /\ f.td <= Sent /\ Ahead(f) /\ \A d \in DoneEvents : Earlier(f, d.td)
    BY <1>1, <2>1 DEF FilterOrder
  <2>3. \A d \in DoneEvents' : Earlier(f, d.td)
    BY <1>7, <2>2 DEF Ahead
  <2>4. Ahead(f)' => Ahead(fEvent)'
    BY <2>1 DEF Ahead
  <2> QED BY <1>2, <1>3, <1>4, <2>1, <2>2, <2>3, <2>4 DEF FilterOrder, regularVars
<1> QED BY <1>1, <1>5, <1>9, <1>10 DEF RegularInv

\* What a step has to keep besides order.
RunInv == RingTypes /\ RegularInv /\ RanInv

\* What a TD without a status is told, it is told of its own.
LEMMA StatusKept ==
  ASSUME status \in Seq(Statuses), NEW T, status' = NotSent(T)
  PROVE  /\ status' \in Seq(Statuses)
         /\ \A td \in DOMAIN status' : status'[td] \in {"ok", "assumed"} => td \in DOMAIN status /\ status'[td] = status[td]
<1>1. PICK n \in Nat : n = Len(status) /\ DOMAIN status = 1 .. n
  BY LenProperties
<1>2. \A td \in 1 .. n : status[td] \in Statuses
  BY <1>1, ElementOfSeq
<1>3. status' = [td \in 1 .. n |-> IF td \in T /\ status[td] = "none" THEN "notSent" ELSE status[td]]
  BY <1>1 DEF NotSent
<1>4. status' \in [1 .. n -> Statuses]
  BY <1>2, <1>3 DEF Statuses
<1>5. status' \in Seq(Statuses)
  BY <1>4, SeqDef
<1>6. DOMAIN status' = 1 .. n
  BY <1>3
<1>7. \A td \in 1 .. n : status'[td] = IF td \in T /\ status[td] = "none" THEN "notSent" ELSE status[td]
  BY <1>3
<1> QED BY <1>1, <1>5, <1>6, <1>7

\* TDs of a request have no status yet.
LEMMA StatusAdded ==
  ASSUME status \in Seq(Statuses), NEW n \in Nat, status' = status \o [j \in 1 .. n |-> "none"]
  PROVE  /\ status' \in Seq(Statuses)
         /\ \A td \in DOMAIN status' : status'[td] \in {"ok", "assumed"} => td \in DOMAIN status /\ status'[td] = status[td]
<1>1. PICK m \in Nat : m = Len(status) /\ DOMAIN status = 1 .. m
  BY LenProperties
<1>2. PICK g : g = [j \in 1 .. n |-> "none"]
  OBVIOUS
<1>3. g \in [1 .. n -> Statuses]
  BY <1>2 DEF Statuses
<1>4. g \in Seq(Statuses)
  BY <1>3, SeqDef
<1>5. Len(g) = n /\ \A j \in 1 .. n : g[j] = "none"
  <2>1. DOMAIN g = 1 .. n /\ DOMAIN g = 1 .. Len(g) /\ Len(g) \in Nat
    BY <1>3, <1>4, LenProperties
  <2> QED BY <1>2, <2>1
<1>6. /\ status \o g \in Seq(Statuses) /\ Len(status \o g) = Len(status) + Len(g)
      /\ \A i \in 1 .. Len(status) : (status \o g)[i] = status[i]
      /\ \A i \in 1 .. Len(g) : (status \o g)[Len(status) + i] = g[i]
  BY <1>4, Concatenated
<1>7. status' = status \o g
  BY <1>2
<1>8. /\ status' \in Seq(Statuses) /\ Len(status') = m + n
      /\ \A i \in 1 .. m : status'[i] = status[i]
      /\ \A i \in 1 .. n : status'[m + i] = "none"
  BY <1>1, <1>5, <1>6, <1>7
<1>9. DOMAIN status' = 1 .. m + n
  BY <1>8, LenProperties
<1>10. ASSUME NEW td \in DOMAIN status', status'[td] \in {"ok", "assumed"}
       PROVE  td \in DOMAIN status /\ status'[td] = status[td]
  <2>1. td \in 1 .. m \/ (td - m \in 1 .. n /\ m + (td - m) = td)
    BY <1>1, <1>9
  <2>2. td \notin 1 .. m => status'[td] = "none"
    <3>1. ASSUME td - m \in 1 .. n, m + (td - m) = td PROVE status'[td] = "none"
      <4>1. PICK i \in 1 .. n : m + i = td
        BY <3>1
      <4> QED BY <1>8, <4>1
    <3> QED BY <2>1, <3>1
  <2>3. td \in 1 .. m
    BY <1>10, <2>2
  <2> QED BY <1>1, <1>8, <2>3
<1> QED BY <1>8, <1>10

\* Steps that leave slots, ring, events and filter alone.
LEMMA QuietRuns ==
  ASSUME RunBase, UNCHANGED regularVars, UNCHANGED <<hwRing, events, ran>>,
         gpc' = "lay" <=> gpc = "lay", gpc = "lay" => pIsochTd' = pIsochTd,
         upset \subseteq upset', "restarted" \in upset' => "restarted" \in upset,
         Sent' = Sent \/ Sent' = Sent + 1,
         status' \in Seq(Statuses),
         \A td \in DOMAIN status' : status'[td] \in {"ok", "assumed"} => td \in DOMAIN status /\ status'[td] = status[td]
  PROVE  RunInv'
<1>1. RingTypes'
  BY DEF RunBase, RingTypes, regularVars
<1>2. DoneEvents' = DoneEvents /\ (EventsRise => EventsRise') /\ (Rising(hwRing) => Rising(hwRing'))
  BY DEF DoneEvents, EventsRise
<1>3. InSlots' = InSlots
  BY DEF InSlots, regularVars
<1>4. SlotTDs' = SlotTDs
  BY <1>3 DEF SlotTDs, regularVars
<1>5. fpc = "scan" /\ "second" \notin upset => fEvent.td <= Sent'
  <2>1. Sent \in Nat
    BY Counts DEF RunBase, OrderBase
  <2>2. fpc = "scan" => fEvent.td \in Nat
    BY DEF RunBase, RingTypes, EventSet
  <2>3. fpc = "scan" /\ "second" \notin upset => fEvent.td <= Sent
    BY DEF RunBase, RegularInv, FilterOrder
  <2> QED BY <2>1, <2>2, <2>3
<1>6. RegularInv'
  <2>1. CASE "second" \in upset
    BY <2>1 DEF RegularInv
  <2>2. CASE "second" \notin upset
    BY <1>2, <1>5, <2>2, RegularElsewhere DEF RunBase
  <2> QED BY <2>1, <2>2
<1>7. RanInv'
  BY <1>2, <1>4, RanElsewhere DEF RunBase
<1> QED BY <1>1, <1>6, <1>7 DEF RunInv

\* A request's TDs are to do.
LEMMA RequestRuns ==
  ASSUME RunBase, UIMCreateIsochTransfer
  PROVE  RunInv'
<1>1. PICK n \in 1 .. MaxPerRequest : status' = status \o [j \in 1 .. n |-> "none"]
  BY DEF UIMCreateIsochTransfer
<1>2. /\ gpc = "idle" /\ gpc' \in {"idle", "add"} /\ upset' \in {upset, upset \cup {"orphan"}}
      /\ UNCHANGED regularVars /\ UNCHANGED <<hwRing, events, ran>>
  BY DEF UIMCreateIsochTransfer, GateFree, Upset, regularVars, slotVars, filterVars, chainVars, hwVars
<1>3. n \in Nat /\ status \in Seq(Statuses)
  BY BoundsAssumption DEF RunBase, RingTypes
<1>4. /\ status' \in Seq(Statuses)
      /\ \A td \in DOMAIN status' : status'[td] \in {"ok", "assumed"} => td \in DOMAIN status /\ status'[td] = status[td]
  BY <1>1, <1>3, StatusAdded
<1>5. Sent' = Sent
  BY RequestKeeps DEF RunBase, OrderBase
<1>6. /\ upset \subseteq upset' /\ ("restarted" \in upset' => "restarted" \in upset)
      /\ gpc # "lay" /\ gpc' # "lay"
  BY <1>2
<1> QED BY <1>2, <1>4, <1>5, <1>6, QuietRuns

\* A late TD is not sent.
LEMMA LateRuns ==
  ASSUME RunBase, AddLate
  PROVE  RunInv'
<1>1. /\ gpc = "add" /\ gpc' \in {"idle", "start", "add"} /\ toDoList # <<>> /\ toDoList' = Tail(toDoList) /\ frame' = frame
      /\ status' = NotSent({Head(toDoList)}) /\ upset' \subseteq upset \cup {"overtaken", "halted"} /\ upset \subseteq upset'
      /\ UNCHANGED regularVars /\ UNCHANGED <<hwRing, events, ran>>
  BY DEF AddLate, regularVars, slotVars, filterVars, chainVars, hwVars
<1>2. /\ status' \in Seq(Statuses)
      /\ \A td \in DOMAIN status' : status'[td] \in {"ok", "assumed"} => td \in DOMAIN status /\ status'[td] = status[td]
  BY <1>1, StatusKept DEF RunBase, RingTypes
<1>3. Sent' = Sent + 1
  BY <1>1, TakesNext DEF RunBase, OrderBase
<1>4. /\ "restarted" \in upset' => "restarted" \in upset
      /\ gpc # "lay" /\ gpc' # "lay"
  BY <1>1
<1> QED BY <1>1, <1>2, <1>3, <1>4, QuietRuns

\* Scheduling that does not touch a TD, and what is done with TDs that are finished.
LEMMA OthersRun ==
  ASSUME RunBase,
         \/ AddNothing \/ AddBegin \/ AddDelayed \/ AddNoRoom \/ AddStart \/ AddMark \/ RetireIsocTransactions
         \/ ReturnThread \/ UNCHANGED vars
  PROVE  RunInv'
<1> DEFINE Kept == /\ UNCHANGED regularVars /\ UNCHANGED <<hwRing, events, ran, frame, toDoList, status>>
                   /\ upset' \in {upset, upset \cup {"roomUnseen"}}
                   /\ (gpc # "lay" /\ gpc' # "lay") \/ UNCHANGED <<gpc, pIsochTd>>
<1>1. Kept
  <2>1. CASE AddNothing \/ AddBegin
    BY <2>1 DEF AddNothing, AddBegin, regularVars, listVars, slotVars, chainVars, tdVars, filterVars, histVars, hwVars
  <2>2. CASE AddDelayed
    BY <2>2 DEF AddDelayed, regularVars, listVars, slotVars, chainVars, tdVars, filterVars, histVars, hwVars
  <2>3. CASE AddNoRoom
    BY <2>3 DEF AddNoRoom, Upset, regularVars, listVars, slotVars, chainVars, tdVars, filterVars, hwVars
  <2>4. CASE AddStart \/ AddMark
    BY <2>4 DEF AddStart, AddMark, regularVars, listVars, slotVars, chainVars, tdVars, filterVars, histVars, hwVars
  <2>5. CASE RetireIsocTransactions
    BY <2>5 DEF RetireIsocTransactions, GateFree, regularVars, slotVars, tdVars, filterVars, hwVars
  <2>6. CASE ReturnThread
    BY <2>6 DEF ReturnThread, GateFree, regularVars, slotVars, chainVars, tdVars, filterVars, hwVars
  <2>7. CASE UNCHANGED vars
    <3>1. /\ UNCHANGED listVars /\ UNCHANGED slotVars /\ UNCHANGED chainVars /\ UNCHANGED tdVars
          /\ UNCHANGED filterVars /\ UNCHANGED histVars /\ UNCHANGED gateVars /\ UNCHANGED hwVars /\ UNCHANGED events
      BY <2>7 DEF vars
    <3>2. UNCHANGED <<toDoList, tdSlots, outSlot, producerCount, frame, status>>
      BY <3>1 DEF listVars, slotVars, chainVars, tdVars
    <3>3. UNCHANGED <<fpc, fEvent, testSlot, stopSlot, cachedProducer, upset, ran>>
      BY <3>1 DEF filterVars, histVars
    <3>4. UNCHANGED <<gpc, pIsochTd, hwRing, events>>
      BY <3>1 DEF gateVars, hwVars
    <3> QED BY <3>2, <3>3, <3>4 DEF regularVars
  <2> QED BY <2>1, <2>2, <2>3, <2>4, <2>5, <2>6, <2>7
<1>2. Sent' = Sent
  BY <1>1 DEF Sent
<1>3. /\ gpc' = "lay" <=> gpc = "lay"
      /\ gpc = "lay" => pIsochTd' = pIsochTd
  BY <1>1
<1>4. upset \subseteq upset' /\ ("restarted" \in upset' => "restarted" \in upset)
  BY <1>1
<1>5. status' \in Seq(Statuses) /\ UNCHANGED regularVars /\ UNCHANGED <<hwRing, events, ran, status>>
  BY <1>1 DEF RunBase, RingTypes
<1> QED BY <1>2, <1>3, <1>4, <1>5, QuietRuns

\* A TD is put in a free slot.
LEMMA SlotFilled ==
  ASSUME Base, AddToSlot
  PROVE  \E i \in SlotNumbers, td \in Numbers :
           /\ td = Sent + 1 /\ Before(Places, {td}) /\ pIsochTd' = td /\ Sent' = Sent + 1
           /\ i \notin InSlots /\ InSlots' = InSlots \cup {i} /\ \A s \in InSlots : tdSlots'[s] = tdSlots[s]
           /\ SlotTDs' = SlotTDs \cup {td}
<1>1. /\ gpc = "slots" /\ ~SlotsFull /\ tdSlots' = [tdSlots EXCEPT ![inSlot] = Head(toDoList)]
      /\ pIsochTd' = Head(toDoList) /\ toDoList' = Tail(toDoList) /\ frame' = frame
  BY DEF AddToSlot, tdVars
<1>2. toDoList # <<>> /\ Used(inSlot)
  BY <1>1 DEF Base, GateTypes
<1>3. PICK td \in Numbers : td = Head(toDoList) /\ td = Sent + 1 /\ Before(Places, {td})
  BY <1>2, NextIsLast
<1>4. PICK i \in SlotNumbers : i = inSlot
  BY <1>2, UsedIs DEF Base, SlotTypes
<1>5. tdSlots \in [SlotNumbers -> Nat] /\ td \in Nat /\ td # 0 /\ DOMAIN tdSlots = SlotNumbers
  BY <1>3 DEF Base, SlotTypes, Numbers
<1>6. /\ DOMAIN tdSlots' = SlotNumbers /\ tdSlots'[i] = td
      /\ \A s \in SlotNumbers : s # i => tdSlots'[s] = tdSlots[s]
  BY <1>1, <1>3, <1>4, <1>5
<1>7. tdSlots[i] = 0
  BY <1>1, <1>4 DEF SlotsFull, Free
<1>8. InSlots \subseteq SlotNumbers /\ i \notin InSlots /\ InSlots' = InSlots \cup {i}
  BY <1>5, <1>6, <1>7 DEF InSlots, Free
<1>9. \A s \in InSlots : tdSlots'[s] = tdSlots[s]
  BY <1>6, <1>8
<1>10. SlotTDs' = SlotTDs \cup {td}
  <2>1. SlotTDs' = {tdSlots'[s] : s \in InSlots'}
    BY DEF SlotTDs
  <2> QED BY <1>6, <1>8, <1>9, <2>1 DEF SlotTDs
<1>11. Sent' = Sent + 1
  BY <1>1, <1>2, TakesNext
<1> QED BY <1>1, <1>3, <1>8, <1>9, <1>10, <1>11

\* It is behind all on the ring and all that events report.
LEMMA SlotRuns ==
  ASSUME RunBase, AddToSlot
  PROVE  RunInv'
<1>1. /\ gpc = "slots" /\ gpc' = "lay" /\ outSlot' = (IF Used(outSlot) THEN outSlot ELSE 0)
      /\ UNCHANGED <<hwRing, events, status, ran, upset, fpc, fEvent, testSlot, stopSlot, cachedProducer, producerCount>>
  BY DEF AddToSlot, chainVars, tdVars, filterVars, histVars, hwVars
<1>2. PICK i \in SlotNumbers, td \in Numbers :
        /\ td = Sent + 1 /\ Before(Places, {td}) /\ pIsochTd' = td /\ Sent' = Sent + 1
        /\ i \notin InSlots /\ InSlots' = InSlots \cup {i} /\ \A s \in InSlots : tdSlots'[s] = tdSlots[s]
        /\ SlotTDs' = SlotTDs \cup {td}
  BY SlotFilled DEF RunBase, OrderBase
<1>3. RingTypes'
  BY <1>1, <1>2 DEF RunBase, RingTypes
<1>4. DoneEvents' = DoneEvents /\ (EventsRise => EventsRise') /\ (Rising(hwRing) => Rising(hwRing')) /\ Fresh' = Fresh
  BY <1>1 DEF DoneEvents, EventsRise, Fresh
<1>5. \A x \in SlotTDs : x < td
  BY <1>2 DEF Before, Places
<1>6. RegularInv'
  <2> SUFFICES ASSUME "second" \notin upset PROVE RegularInv'
    BY <1>1 DEF RegularInv
  <2>1. RingOrder /\ EventsOrder /\ FilterOrder /\ WindowInv /\ "restarted" \notin upset'
    BY <1>1 DEF RunBase, RegularInv, OrderBase, LostInv
  <2>2. RingOrder'
    BY <1>1, <1>2, <1>4, <1>5, <2>1 DEF RingOrder
  <2>3. \A e : Ahead(e) /\ e.td < td => Ahead(e)'
    BY <1>1, <1>2 DEF Ahead
  <2>4. EventsOrder'
    BY <1>2, <1>4, <1>5, <2>1, <2>3 DEF EventsOrder
  <2>5. FilterOrder'
    <3> SUFFICES ASSUME fpc = "scan" PROVE FilterOrder'
      BY <1>1 DEF FilterOrder
    <3>1. PICK f \in EventSet : f = fEvent /\ f = fEvent'
      BY <1>1 DEF RunBase, RingTypes
    <3>2. outSlot' = outSlot
      BY <1>1, <2>1 DEF WindowInv
    <3>3. /\ testSlot # stopSlot => Reaches
          /\ InSlots # {} \/ Fresh > 0
          /\ f.td <= Sent /\ Ahead(f) /\ \A d \in DoneEvents : Earlier(f, d.td)
      BY <2>1, <3>1 DEF FilterOrder
    <3>4. f.td <= Sent + 1 /\ f.td < td
      <4>1. Sent \in Nat /\ f.td \in Nat
        BY Counts DEF RunBase, OrderBase, EventSet
      <4> QED BY <1>2, <3>3, <4>1
    <3>5. Reaches => Reaches'
      <4>1. \A s : Off(s)' = Off(s)
        BY <3>2 DEF Off
      <4>2. ASSUME NEW s \in InSlots, tdSlots[s] = fEvent.td, Off(testSlot) <= Off(s), Off(s) < Off(stopSlot)
            PROVE  Reaches'
        <5>1. s \in InSlots' /\ tdSlots'[s] = fEvent'.td
          BY <1>1, <1>2, <4>2
        <5>2. Off(testSlot)' <= Off(s)' /\ Off(s)' < Off(stopSlot)'
          BY <1>1, <3>2, <4>2 DEF Off
        <5> QED BY <5>1, <5>2 DEF Reaches
      <4> QED BY <4>2 DEF Reaches
    <3>6. Ahead(f)' => Ahead(fEvent)'
      BY <3>1 DEF Ahead
    <3>7. Ahead(f)'
      BY <2>3, <3>3, <3>4
    <3> QED BY <1>1, <1>2, <1>4, <3>1, <3>3, <3>4, <3>5, <3>6, <3>7 DEF FilterOrder
  <2> QED BY <2>1, <2>2, <2>4, <2>5 DEF RegularInv
<1>7. RanInv'
  BY <1>1, <1>2, <1>4 DEF RunBase, RanInv, SuccessIsDone
<1> QED BY <1>3, <1>6, <1>7 DEF RunInv

\* The TD to be laid out is the next on the ring.
LEMMA RingRuns ==
  ASSUME RunBase, AddToRing
  PROVE  RunInv'
<1>1. /\ gpc = "lay" /\ gpc' # "lay" /\ upset \subseteq upset' /\ ("restarted" \in upset' => "restarted" \in upset)
      /\ hwRing' = Append(hwRing, pIsochTd) \/ (hwRing' = hwRing /\ "notLaid" \in upset')
      /\ UNCHANGED regularVars /\ UNCHANGED <<events, status, ran, frame, toDoList>>
  BY DEF AddToRing, Upset, regularVars, listVars, slotVars, chainVars, tdVars, filterVars
<1>2. PICK p \in Numbers, r \in Seq(Numbers) : p = pIsochTd /\ r = hwRing
  BY <1>1 DEF RunBase, RingTypes
<1>3. Append(r, p) \in Seq(Numbers) /\ ToSet(Append(r, p)) = ToSet(r) \cup {p}
  BY AppendHas
<1>4. PICK q : q = hwRing'
  OBVIOUS
<1>5. q \in Seq(Numbers) /\ ToSet(q) \subseteq ToSet(r) \cup {p} /\ (ToSet(q) = ToSet(r) \cup {p} \/ "notLaid" \in upset')
  <2>1. q = Append(r, p) \/ (q = r /\ "notLaid" \in upset')
    BY <1>1, <1>2, <1>4
  <2> QED BY <1>2, <1>3, <2>1, Zenon
<1>6. RingTypes'
  BY <1>1, <1>4, <1>5 DEF RunBase, RingTypes, regularVars
<1>7. /\ DoneEvents' = DoneEvents /\ (EventsRise => EventsRise') /\ Fresh' = Fresh /\ InSlots' = InSlots /\ Sent' = Sent
      /\ \A s : Off(s)' = Off(s)
  BY <1>1 DEF DoneEvents, EventsRise, Fresh, InSlots, Sent, Off, regularVars
<1>8. SlotTDs' = SlotTDs /\ (Reaches' <=> Reaches)
  BY <1>1, <1>7 DEF SlotTDs, Reaches, regularVars
<1>9. RegularInv'
  <2> SUFFICES ASSUME "second" \notin upset PROVE RegularInv'
    BY <1>1 DEF RegularInv
  <2>1. RingOrder /\ EventsOrder /\ FilterOrder /\ "restarted" \notin upset'
    BY <1>1 DEF RunBase, RegularInv
  <2>2. Rising(r) /\ Before(ToSet(r), {p}) /\ ToSet(r) \subseteq SlotTDs /\ p \in SlotTDs
    BY <1>1, <1>2, <2>1 DEF RingOrder, Before
  <2>3. Rising(q)
    <3>1. Rising(Append(r, p))
      BY <2>2, RisingAppended
    <3>2. q = Append(r, p) \/ q = r
      BY <1>1, <1>2, <1>4
    <3> QED BY <2>2, <3>1, <3>2, Zenon
  <2>4. RingOrder'
    BY <1>1, <1>4, <1>5, <1>8, <2>2, <2>3 DEF RingOrder
  <2>5. \A e : Ahead(e) => Ahead(e)'
    <3>1. ASSUME NEW e, Ahead(e) PROVE Ahead(e)'
      <4>1. \A x \in ToSet(r) : Earlier(e, x)
        BY <1>2, <3>1 DEF Ahead
      <4>2. Earlier(e, p)
        BY <1>1, <1>2, <3>1 DEF Ahead, Earlier
      <4> QED BY <1>1, <1>4, <1>5, <4>1, <4>2 DEF Ahead
    <3> QED BY <3>1
  <2>6. EventsOrder'
    BY <1>7, <1>8, <2>1, <2>5 DEF EventsOrder
  <2>7. FilterOrder'
    <3>1. PICK f : f = fEvent /\ f = fEvent'
      BY <1>1 DEF regularVars
    <3>2. Ahead(fEvent) => Ahead(f)
      BY <3>1
    <3>3. Ahead(f)' => Ahead(fEvent)'
      BY <3>1 DEF Ahead
    <3> QED BY <1>1, <1>7, <1>8, <2>1, <2>5, <3>1, <3>2, <3>3 DEF FilterOrder, regularVars
  <2> QED BY <2>1, <2>4, <2>6, <2>7 DEF RegularInv
<1>10. RanInv'
  <2> SUFFICES ASSUME upset' \cap {"second", "missed", "notLaid"} = {} PROVE RanInv'
    BY DEF RanInv
  <2>1. upset \cap {"second", "missed", "notLaid"} = {} /\ ToSet(q) = ToSet(r) \cup {p}
    BY <1>1, <1>5
  <2>2. /\ \A td \in SlotTDs : td \in ran \/ td \in ToSet(r) \/ td = p
        /\ \A e \in DoneEvents : e.last => e.td \in ran
        /\ SuccessIsDone
    BY <1>2, <2>1 DEF RunBase, RanInv
  <2>3. SuccessIsDone'
    BY <1>1, <2>2 DEF SuccessIsDone
  <2> QED BY <1>1, <1>4, <1>7, <1>8, <2>1, <2>2, <2>3 DEF RanInv
<1> QED BY <1>6, <1>9, <1>10 DEF RunInv

\* While the filter is at work a TD is in a slot or in its hands.
LEMMA ScanIsActive ==
  ASSUME RunBase, "second" \notin upset, activeTDs = 0
  PROVE  fpc = "idle"
<1>1. WindowInv /\ PlaceInv /\ FilterOrder
  BY DEF RunBase, OrderBase, LostInv, RegularInv
<1>2. SUFFICES ASSUME fpc = "scan" PROVE FALSE
  BY DEF RunBase, OrderBase, Base, FilterTypes
<1>3. PICK r \in Nat, d \in Nat, e \in Nat, lf \in Nat, lt \in Nat, c \in Nat, f \in Nat, m \in Nat :
        /\ r = Len(returned) /\ d = Len(doneQueue) /\ e = Len(deferredQueue) /\ lf = Len(frame)
        /\ lt = Len(toDoList) /\ c = producerCount - consumerCount /\ f = Fresh /\ m = scheduledTDs
  <2>1. scheduledTDs \in Nat
    BY <1>1, InSlotsFinite DEF RunBase, OrderBase, Base, WindowInv
  <2> QED BY <2>1, Counts, LenProperties DEF RunBase, OrderBase, Base, ListTypes
<1>4. r + d + e + c + f + m = lf - lt
  BY <1>1, <1>3 DEF PlaceInv, AtHome, Sent
<1>5. lf - r = 0
  BY <1>3 DEF activeTDs
<1>6. m = 0 /\ f = 0
  BY <1>4, <1>5
<1>7. InSlots = {}
  BY <1>1, <1>3, <1>6, InSlotsFinite, FS_EmptySet DEF RunBase, OrderBase, Base, WindowInv
<1>8. Fresh = 0 /\ ~(0 > 0)
  BY <1>3, <1>6
<1> QED BY <1>1, <1>2, <1>7, <1>8 DEF FilterOrder

\* So the slots are not restarted under the filter while the xHC posts one event for a TD.
LEMMA PolledRuns ==
  ASSUME RunBase, PollBounced
  PROVE  RunInv'
<1>1. /\ gpc = "idle" /\ gpc' \in {"idle", "add"}
      /\ \/ outSlot' = outSlot /\ upset' = upset
         \/ activeTDs = 0 /\ upset' = IF fpc = "scan" THEN upset \cup {"restarted"} ELSE upset
      /\ UNCHANGED <<tdSlots, fpc, fEvent, testSlot, stopSlot, cachedProducer, producerCount, hwRing, events, ran, status,
                     frame, toDoList>>
  BY DEF PollBounced, listVars, tdVars, filterVars, chainVars, hwVars, GateFree
<1>2. /\ Sent' = Sent /\ status' \in Seq(Statuses) /\ gpc # "lay" /\ gpc' # "lay" /\ status' = status
      /\ DoneEvents' = DoneEvents /\ (EventsRise => EventsRise') /\ InSlots' = InSlots
  BY <1>1 DEF Sent, RunBase, RingTypes, DoneEvents, EventsRise, InSlots
<1>3. SlotTDs' = SlotTDs
  BY <1>1, <1>2 DEF SlotTDs
<1>4. CASE outSlot' = outSlot /\ upset' = upset
  <2>1. UNCHANGED regularVars /\ UNCHANGED <<hwRing, events, ran>>
    BY <1>1, <1>4 DEF regularVars
  <2> QED BY <1>2, <1>4, <2>1, QuietRuns
<1>5. CASE activeTDs = 0 /\ upset' = IF fpc = "scan" THEN upset \cup {"restarted"} ELSE upset
  <2>1. RingTypes'
    BY <1>1, <1>2 DEF RunBase, RingTypes
  <2>2. RegularInv'
    <3> SUFFICES ASSUME "second" \notin upset PROVE RegularInv'
      BY <1>5 DEF RegularInv
    <3>1. fpc = "idle"
      BY <1>5, ScanIsActive
    <3>2. RingOrder /\ EventsOrder /\ "restarted" \notin upset'
      BY <1>5, <3>1 DEF RunBase, RegularInv
    <3>3. RingOrder'
      BY <1>1, <1>2, <1>3, <3>2 DEF RingOrder
    <3>4. \A e : Ahead(e) => Ahead(e)'
      BY <1>1, <1>2 DEF Ahead
    <3>5. EventsOrder'
      BY <1>2, <1>3, <3>2, <3>4 DEF EventsOrder
    <3>6. FilterOrder'
      BY <1>1, <3>1 DEF FilterOrder
    <3> QED BY <3>2, <3>3, <3>5, <3>6 DEF RegularInv
  <2>3. RanInv'
    <3>1. upset \subseteq upset'
      BY <1>5
    <3> QED BY <1>1, <1>2, <1>3, <3>1, RanElsewhere DEF RunBase
  <2> QED BY <2>1, <2>2, <2>3 DEF RunInv
<1> QED BY <1>1, <1>4, <1>5

\* Events the xHC can post.
LEMMA EventOf ==
  ASSUME NEW k \in {"done", "underrun", "off"}, NEW td \in Nat, NEW last \in BOOLEAN
  PROVE  /\ Event(k, td, last) \in EventSet
         /\ Event(k, td, last).kind = k /\ Event(k, td, last).td = td /\ Event(k, td, last).last = last
BY DEF EventSet, Event

\* The endpoint is stopped, which is an event.
LEMMA AbortRuns ==
  ASSUME RunBase, Abort
  PROVE  RunInv'
<1>1. /\ events' = events \/ events' = Append(events, Event("off", 0, FALSE))
      /\ UNCHANGED regularVars /\ UNCHANGED <<hwRing, ran, status, frame, toDoList, gpc, pIsochTd, upset>>
  BY DEF Abort, regularVars, listVars, slotVars, chainVars, tdVars, filterVars, GateFree
<1>2. Sent' = Sent /\ status' \in Seq(Statuses) /\ InSlots' = InSlots
  BY <1>1 DEF Sent, RunBase, RingTypes, InSlots, regularVars
<1>3. SlotTDs' = SlotTDs
  BY <1>1, <1>2 DEF SlotTDs, regularVars
<1>4. CASE events' = events
  BY <1>1, <1>2, <1>4, QuietRuns
<1>5. CASE events' = Append(events, Event("off", 0, FALSE))
  <2>1. PICK e \in EventSet : e = Event("off", 0, FALSE) /\ e.kind # "done"
    BY EventOf
  <2>2. events' = Append(events, e) /\ events \in Seq(EventSet)
    BY <1>5, <2>1 DEF RunBase, RingTypes
  <2>3. Posted(e)
    BY <2>2, PostedOne
  <2>4. DoneEvents' \subseteq DoneEvents
    BY <2>1, <2>2, <2>3, PostedRises
  <2>5. RingTypes'
    BY <1>1, <1>2, <2>3 DEF RunBase, RingTypes, Posted, regularVars
  <2>6. RegularInv'
    BY <1>1, <2>1, <2>3, PostedRegular DEF RunBase
  <2>7. RanInv'
    BY <1>1, <1>3, <2>4, RanElsewhere DEF RunBase
  <2> QED BY <2>5, <2>6, <2>7 DEF RunInv
<1> QED BY <1>1, <1>4, <1>5

\* After an abort nothing is in slots, on the ring or in the events.
LEMMA AbortedRuns ==
  ASSUME RunBase, AbortIsochEP, Base', LostInv'
  PROVE  RunInv'
<1>1. /\ events = <<>> /\ events' = <<>> /\ fpc = "idle" /\ fpc' = "idle" /\ hwRing' = <<>> /\ stopping /\ gpc' = gpc
      /\ UNCHANGED <<ran, fEvent>> /\ upset' \in {upset, upset \cup {"delayed"}}
      /\ outSlot' = Unset
  BY DEF AbortIsochEP, filterVars, Upset
<1>2. gpc' = "idle"
  BY <1>1 DEF RunBase, OrderBase, Base, GateTypes
<1>3. \E T : status' = NotSent(T)
  BY DEF AbortIsochEP
<1>4. /\ status' \in Seq(Statuses)
      /\ \A td \in DOMAIN status' : status'[td] \in {"ok", "assumed"} => td \in DOMAIN status /\ status'[td] = status[td]
  BY <1>3, StatusKept DEF RunBase, RingTypes
<1>5. RingTypes'
  BY <1>1, <1>2, <1>4 DEF RingTypes
<1>6. ToSet(<<>>) = {} /\ Len(<<>>) = 0
  BY DEF ToSet
<1>7. DoneEvents' = {} /\ ToSet(hwRing') = {} /\ EventsRise' /\ Rising(hwRing')
  BY <1>1, <1>6 DEF DoneEvents, EventsRise, Rising
<1>8. RegularInv'
  <2> SUFFICES ASSUME "second" \notin upset' PROVE RegularInv'
    BY DEF RegularInv
  <2>1. "restarted" \notin upset'
    BY <1>1 DEF RunBase, RegularInv
  <2> QED BY <1>1, <1>2, <1>7, <2>1 DEF RegularInv, RingOrder, EventsOrder, FilterOrder
<1>9. RanInv'
  <2> SUFFICES ASSUME upset' \cap {"second", "missed", "notLaid"} = {} PROVE RanInv'
    BY DEF RanInv
  <2>1. upset \cap {"second", "missed", "notLaid"} = {} /\ "second" \notin upset'
    BY <1>1
  <2>2. WindowInv'
    BY <1>8, <2>1 DEF RegularInv, LostInv
  <2>3. InSlots' = {}
    <3>1. ~Used(outSlot')
      BY <1>1, Slots DEF Used
    <3> QED BY <2>2, <3>1 DEF WindowInv
  <2>4. SlotTDs' = {}
    BY <2>3 DEF SlotTDs
  <2>5. SuccessIsDone'
    <3>1. SuccessIsDone
      BY <2>1 DEF RunBase, RanInv
    <3> QED BY <1>1, <1>4, <2>1, <3>1 DEF SuccessIsDone
  <2> QED BY <1>7, <2>4, <2>5 DEF RanInv
<1> QED BY <1>5, <1>8, <1>9 DEF RunInv

\* Events the filter leaves to the work loop.
LEMMA PassRuns ==
  ASSUME RunBase, FilterPass
  PROVE  RunInv'
<1>1. /\ fpc = "idle" /\ events # <<>> /\ events' = Tail(events)
      /\ UNCHANGED regularVars /\ UNCHANGED <<hwRing, ran, status, frame, toDoList, gpc, pIsochTd>>
      /\ upset' \in {upset, upset \cup {"deaf"}}
  BY DEF FilterPass, Upset, regularVars, listVars, slotVars, chainVars, tdVars, filterVars, gateVars, hwVars
<1>2. InSlots' = InSlots /\ events \in Seq(EventSet)
  BY <1>1 DEF RunBase, RingTypes, InSlots, regularVars
<1>3. SlotTDs' = SlotTDs
  BY <1>1, <1>2 DEF SlotTDs, regularVars
<1>4. events' \in Seq(EventSet) /\ DoneEvents' \subseteq DoneEvents /\ (EventsRise => EventsRise')
  BY <1>1, <1>2, EventTaken
<1>5. RingTypes'
  BY <1>1, <1>4 DEF RunBase, RingTypes, regularVars
<1>6. upset \subseteq upset' /\ ("restarted" \in upset' => "restarted" \in upset) /\ (Rising(hwRing) => Rising(hwRing'))
  BY <1>1
<1>7. RegularInv'
  BY <1>1, <1>4, <1>6, RegularElsewhere DEF RunBase
<1>8. RanInv'
  BY <1>1, <1>3, <1>4, <1>6, RanElsewhere DEF RunBase
<1> QED BY <1>5, <1>7, <1>8 DEF RunInv

\* The filter begins with an event for a TD between the slots it will look at.
LEMMA BeginRuns ==
  ASSUME RunBase, FilterBegin
  PROVE  RunInv'
<1>1. /\ fpc = "idle" /\ fpc' = "scan" /\ events # <<>> /\ events' = Tail(events) /\ Head(events).kind = "done"
      /\ fEvent' = Head(events) /\ Used(outSlot) /\ testSlot' = outSlot /\ stopSlot' = inSlot % NumSlots
      /\ UNCHANGED <<tdSlots, outSlot, inSlot, hwRing, ran, status, frame, toDoList, gpc, pIsochTd, upset>>
  BY DEF FilterBegin, listVars, slotVars, chainVars, tdVars, gateVars, hwVars, histVars
<1>2. InSlots' = InSlots /\ Sent' = Sent /\ events \in Seq(EventSet)
  BY <1>1 DEF RunBase, RingTypes, InSlots, Sent
<1>3. SlotTDs' = SlotTDs
  BY <1>1, <1>2 DEF SlotTDs
<1>4. PICK f \in EventSet : f = Head(events) /\ f = fEvent'
  BY <1>1, <1>2, EventTaken
<1>5. /\ events' \in Seq(EventSet) /\ DoneEvents' \subseteq DoneEvents /\ f \in DoneEvents
      /\ EventsRise => EventsRise' /\ \A d \in DoneEvents' : Earlier(f, d.td)
  BY <1>1, <1>2, <1>4, EventTaken
<1>6. RingTypes'
  BY <1>1, <1>4, <1>5 DEF RunBase, RingTypes
<1>7. RegularInv'
  <2> SUFFICES ASSUME "second" \notin upset PROVE RegularInv'
    BY <1>1 DEF RegularInv
  <2>1. RingOrder /\ EventsOrder /\ WindowInv /\ "restarted" \notin upset'
    BY <1>1 DEF RunBase, RegularInv, OrderBase, LostInv
  <2>2. RingOrder'
    BY <1>1, <1>3, <2>1 DEF RingOrder
  <2>3. \A e : Ahead(e) => Ahead(e)'
    BY <1>1 DEF Ahead
  <2>4. EventsOrder'
    BY <1>3, <1>5, <2>1, <2>3 DEF EventsOrder
  <2>5. f.td \in SlotTDs /\ Ahead(f)
    BY <1>5, <2>1 DEF EventsOrder
  <2>6. PICK s \in InSlots : tdSlots[s] = f.td
    BY <2>5 DEF SlotTDs
  <2>7. PICK o \in SlotNumbers, i \in SlotNumbers : o = outSlot /\ i = inSlot /\ Used(outSlot)
    BY <1>1, <2>1, UsedIs DEF RunBase, OrderBase, Base, SlotTypes, WindowInv
  <2>8. stopSlot' = i
    <3>1. i \in Int /\ i \in 0 .. NumSlots - 1
      BY DEF SlotNumbers
    <3>2. i % NumSlots = i
      BY <3>1, Remainders
    <3> QED BY <1>1, <2>7, <3>2
  <2>9. Offset(o, o) <= Offset(o, s) /\ Offset(o, s) < Offset(o, i)
    <3>1. s \in SlotNumbers
      BY InSlotsFinite DEF RunBase, OrderBase, Base
    <3>2. Offset(o, o) = 0 /\ Offset(o, s) \in SlotNumbers
      BY <3>1, OffsetIs
    <3>3. Offset(o, s) < Offset(o, i)
      BY <2>1, <2>7 DEF WindowInv, Off
    <3> QED BY <3>2, <3>3 DEF SlotNumbers
  <2>10. Reaches'
    <3>1. s \in InSlots' /\ tdSlots'[s] = fEvent'.td
      BY <1>1, <1>2, <1>4, <2>6
    <3>2. Offset(outSlot', testSlot') <= Offset(outSlot', s) /\ Offset(outSlot', s) < Offset(outSlot', stopSlot')
      BY <1>1, <2>7, <2>8, <2>9
    <3> QED BY <3>1, <3>2 DEF Reaches, Off
  <2>11. f.td <= Sent' /\ InSlots' # {}
    <3>1. f.td \in 1 .. Sent /\ Sent \in Nat
      BY <2>5, Counts DEF RunBase, OrderBase, Base, Places
    <3> QED BY <1>2, <3>1
  <2>12. Ahead(f)' => Ahead(fEvent)'
    BY <1>4 DEF Ahead
  <2>13. \A d \in DoneEvents' : Earlier(f, d.td)
    BY <1>5, <2>1 DEF EventsOrder
  <2>14. FilterOrder'
    BY <1>4, <2>3, <2>5, <2>10, <2>11, <2>12, <2>13 DEF FilterOrder
  <2> QED BY <2>1, <2>2, <2>4, <2>14 DEF RegularInv
<1>8. RanInv'
  BY <1>1, <1>3, <1>5, RanElsewhere DEF RunBase
<1> QED BY <1>6, <1>7, <1>8 DEF RunInv

\* It passes an empty slot, not the one it will come to.
LEMMA SkipRuns ==
  ASSUME RunBase, FilterSkip
  PROVE  RunInv'
<1>0. Base
  BY DEF RunBase, OrderBase
<1>1. /\ fpc = "scan" /\ testSlot # stopSlot /\ tdSlots[testSlot] = 0 /\ testSlot' = NextSlot(testSlot)
      /\ UNCHANGED <<fpc, fEvent, stopSlot, cachedProducer, producerCount, tdSlots, outSlot, hwRing, events, ran, status,
                     frame, toDoList, gpc, pIsochTd, upset>>
  BY <1>0 DEF FilterSkip, listVars, slotVars, chainVars, tdVars, gateVars, hwVars, histVars, Free, Base, FilterTypes
<1>2. InSlots' = InSlots /\ Sent' = Sent /\ Fresh' = Fresh /\ DoneEvents' = DoneEvents /\ (EventsRise => EventsRise')
  BY <1>1 DEF InSlots, Sent, Fresh, DoneEvents, EventsRise
<1>3. SlotTDs' = SlotTDs
  BY <1>1, <1>2 DEF SlotTDs
<1>4. PICK t \in SlotNumbers, p \in SlotNumbers : t = testSlot /\ p = stopSlot
  BY <1>0, <1>1 DEF Base, FilterTypes
<1>5. PICK n \in SlotNumbers : n = NextSlot(t) /\ testSlot' = n
  BY <1>1, <1>4, NextIs
<1>6. RingTypes'
  BY <1>1 DEF RunBase, RingTypes
<1>7. RegularInv'
  <2> SUFFICES ASSUME "second" \notin upset PROVE RegularInv'
    BY <1>1 DEF RegularInv
  <2>1. RingOrder /\ EventsOrder /\ FilterOrder /\ WindowInv /\ "restarted" \notin upset'
    BY <1>1 DEF RunBase, RegularInv, OrderBase, LostInv
  <2>2. RingOrder'
    BY <1>1, <1>3, <2>1 DEF RingOrder
  <2>3. \A e : Ahead(e) => Ahead(e)'
    BY <1>1 DEF Ahead
  <2>4. EventsOrder'
    BY <1>2, <1>3, <2>1, <2>3 DEF EventsOrder
  <2>5. PICK f \in EventSet : f = fEvent /\ f = fEvent'
    BY <1>1 DEF RunBase, RingTypes
  <2>6. PICK o \in SlotNumbers : o = outSlot
    BY <1>0, <1>1, <2>1, UsedIs DEF Base, SlotTypes, WindowInv
  <2>7. PICK s \in InSlots : tdSlots[s] = f.td /\ Offset(o, t) <= Offset(o, s) /\ Offset(o, s) < Offset(o, p)
    BY <1>1, <1>4, <2>1, <2>5, <2>6 DEF FilterOrder, Reaches, Off
  <2>8. s \in SlotNumbers /\ s # t
    BY <1>0, <1>1, <1>4, InSlotsFinite DEF Base
  <2>9. /\ Offset(o, t) \in Int /\ Offset(o, s) \in Int /\ Offset(o, s) # Offset(o, t)
        /\ Offset(o, p) \in Int /\ Offset(o, p) < NumSlots
    BY <2>8, OffsetIs
  <2>10. Offset(o, n) = Offset(o, t) + 1
    <3>1. n # o
      <4>1. ASSUME n = o PROVE FALSE
        <5>1. o = IF t = NumSlots - 1 THEN 0 ELSE t + 1
          BY <1>5, <4>1, NextIs
        <5>2. Offset(o, t) = NumSlots - 1
          BY <5>1, Slots DEF Offset, SlotNumbers
        <5> QED BY <2>7, <2>9, <5>2, Slots
      <4> QED BY <4>1
    <3> QED BY <1>5, <3>1, OffsetNext
  <2>11. Offset(o, n) <= Offset(o, s)
    BY <2>7, <2>9, <2>10
  <2>12. Reaches'
    <3>1. s \in InSlots' /\ tdSlots'[s] = fEvent'.td
      BY <1>1, <1>2, <2>5, <2>7
    <3>2. Offset(outSlot', testSlot') <= Offset(outSlot', s) /\ Offset(outSlot', s) < Offset(outSlot', stopSlot')
      BY <1>1, <1>4, <1>5, <2>6, <2>7, <2>11
    <3> QED BY <3>1, <3>2 DEF Reaches, Off
  <2>13. Ahead(fEvent) => Ahead(f)
    BY <2>5
  <2>14. Ahead(f)' => Ahead(fEvent)'
    BY <2>5 DEF Ahead
  <2>15. FilterOrder'
    BY <1>1, <1>2, <2>1, <2>3, <2>5, <2>12, <2>13, <2>14 DEF FilterOrder
  <2> QED BY <2>1, <2>2, <2>4, <2>15 DEF RegularInv
<1>8. RanInv'
  BY <1>1, <1>2, <1>3, RanElsewhere DEF RunBase
<1> QED BY <1>6, <1>7, <1>8 DEF RunInv

\* A TD is told that it has succeeded.
LEMMA StatusSet ==
  ASSUME status \in Seq(Statuses), NEW td, NEW own, status' = UpdateFrameList(td, own)
  PROVE  /\ status' \in Seq(Statuses)
         /\ \A x \in DOMAIN status' : x \in DOMAIN status /\ (x # td => status'[x] = status[x])
<1>1. PICK n \in Nat : n = Len(status) /\ DOMAIN status = 1 .. n
  BY LenProperties
<1>2. \A x \in 1 .. n : status[x] \in Statuses
  BY <1>1, ElementOfSeq
<1>3. status' = [status EXCEPT ![td] = IF own THEN "ok" ELSE "assumed"]
  BY DEF UpdateFrameList
<1>4. status \in [1 .. n -> Statuses]
  BY <1>1, <1>2, SeqDef, LenProperties
<1>5. "ok" \in Statuses /\ "assumed" \in Statuses
  BY DEF Statuses
<1>6. status' \in [1 .. n -> Statuses]
  BY <1>3, <1>4, <1>5
<1>7. status' \in Seq(Statuses)
  BY <1>6, SeqDef
<1> QED BY <1>3, <1>4, <1>7

\* The TD the filter takes is not after that of its event: it comes before whatever is ahead.
LEMMA TakenFirst ==
  ASSUME RunBase, "second" \notin upset, fpc = "scan", testSlot # stopSlot, NEW t \in InSlots, t = testSlot
  PROVE  \E s \in InSlots : /\ tdSlots[s] = fEvent.td /\ Off(t) <= Off(s) /\ Off(s) < Off(stopSlot)
                            /\ tdSlots[t] = fEvent.td \/ tdSlots[t] < fEvent.td
<1>1. FilterOrder /\ WindowInv /\ SlotOrder
  BY DEF RunBase, RegularInv, OrderBase, LostInv, OrderInv
<1>2. PICK s \in InSlots : tdSlots[s] = fEvent.td /\ Off(t) <= Off(s) /\ Off(s) < Off(stopSlot)
  BY <1>1 DEF FilterOrder, Reaches
<1>3. PICK o \in SlotNumbers : o = outSlot
  BY <1>1, UsedIs DEF RunBase, OrderBase, Base, SlotTypes, WindowInv
<1>4. s \in SlotNumbers /\ t \in SlotNumbers
  BY InSlotsFinite DEF RunBase, OrderBase, Base
<1>5. Off(t) \in Int /\ Off(s) \in Int /\ (Off(s) = Off(t) => s = t)
  BY <1>3, <1>4, OffsetIs DEF Off
<1>6. s = t \/ Off(t) < Off(s)
  BY <1>2, <1>5
<1> QED BY <1>1, <1>2, <1>6 DEF SlotOrder

\* The filter looks at a TD. What it takes has been carried out, and is neither on the ring nor in the events.
LEMMA TestRuns ==
  ASSUME RunBase, FilterTest
  PROVE  RunInv'
<1>0. Base
  BY DEF RunBase, OrderBase
<1> DEFINE own == tdSlots[testSlot] = fEvent.td
<1>1. /\ fpc = "scan" /\ testSlot # stopSlot /\ tdSlots[testSlot] # 0
      /\ \/ /\ UNCHANGED <<tdSlots, cachedProducer, outSlot, status>> /\ testSlot' = stopSlot
         \/ /\ tdSlots' = [tdSlots EXCEPT ![testSlot] = 0]
            /\ status' = UpdateFrameList(tdSlots[testSlot], own)
            /\ ~own \/ (fEvent.last /\ testSlot' = stopSlot)
            /\ testSlot' = IF own THEN stopSlot ELSE NextSlot(testSlot)
      /\ UNCHANGED <<fpc, fEvent, stopSlot, producerCount, hwRing, events, ran, frame, toDoList, gpc, pIsochTd, upset>>
  BY DEF FilterTest, listVars, chainVars, gateVars, hwVars, histVars, Free, Passed
<1>2. Sent' = Sent /\ DoneEvents' = DoneEvents /\ (EventsRise => EventsRise')
  BY <1>1 DEF Sent, DoneEvents, EventsRise
<1>3. PICK f \in EventSet : f = fEvent /\ f = fEvent'
  BY <1>1 DEF RunBase, RingTypes
<1>4. \A e : Ahead(e) => Ahead(e)'
  BY <1>1 DEF Ahead
<1>5. (Ahead(fEvent) => Ahead(f)) /\ (Ahead(f)' => Ahead(fEvent)')
  BY <1>3 DEF Ahead
<1>6. CASE UNCHANGED <<tdSlots, cachedProducer, outSlot, status>> /\ testSlot' = stopSlot
  <2>1. RingTypes'
    BY <1>1, <1>6 DEF RunBase, RingTypes
  <2>2. InSlots' = InSlots /\ Fresh' = Fresh
    BY <1>1, <1>6 DEF InSlots, Fresh
  <2>3. SlotTDs' = SlotTDs
    BY <1>6, <2>2 DEF SlotTDs
  <2>4. RegularInv'
    <3> SUFFICES ASSUME "second" \notin upset PROVE RegularInv'
      BY <1>1 DEF RegularInv
    <3>1. RingOrder /\ EventsOrder /\ FilterOrder /\ "restarted" \notin upset'
      BY <1>1 DEF RunBase, RegularInv
    <3>2. RingOrder'
      BY <1>1, <2>3, <3>1 DEF RingOrder
    <3>3. EventsOrder'
      BY <1>2, <1>4, <2>3, <3>1 DEF EventsOrder
    <3>4. FilterOrder'
      BY <1>1, <1>2, <1>3, <1>4, <1>5, <1>6, <2>2, <3>1 DEF FilterOrder
    <3> QED BY <3>1, <3>2, <3>3, <3>4 DEF RegularInv
  <2>5. RanInv'
    BY <1>1, <1>2, <1>6, <2>3, RanElsewhere DEF RunBase
  <2> QED BY <2>1, <2>4, <2>5 DEF RunInv
<1>7. CASE /\ tdSlots' = [tdSlots EXCEPT ![testSlot] = 0] /\ status' = UpdateFrameList(tdSlots[testSlot], own)
           /\ ~own \/ (fEvent.last /\ testSlot' = stopSlot)
           /\ testSlot' = IF own THEN stopSlot ELSE NextSlot(testSlot)
  <2>1. PICK t \in SlotNumbers, td \in Numbers : Takes(t, td)
    <3>1. tdSlots \in [SlotNumbers -> Nat] /\ testSlot \in SlotNumbers
      BY <1>0, <1>1 DEF Base, SlotTypes, FilterTypes
    <3>2. tdSlots'[testSlot] # tdSlots[testSlot]
      BY <1>1, <1>7, <3>1
    <3> QED BY <1>0, <3>2, TestTakes
  <2>2. /\ t = testSlot /\ t \in InSlots /\ td = tdSlots[t] /\ td \in SlotTDs /\ outSlot' = t
        /\ InSlots' = InSlots \ {t} /\ (\A s \in InSlots' : tdSlots'[s] = tdSlots[s])
        /\ SlotTDs = SlotTDs' \cup {td} /\ Fresh \in Nat /\ Fresh' = Fresh + 1
    BY <2>1 DEF Takes
  <2>3. /\ status' \in Seq(Statuses)
        /\ \A x \in DOMAIN status' : x \in DOMAIN status /\ (x # td => status'[x] = status[x])
    <3>1. status \in Seq(Statuses)
      BY DEF RunBase, RingTypes
    <3>2. status' = UpdateFrameList(td, own)
      BY <1>7, <2>2
    <3> QED BY <3>1, <3>2, StatusSet
  <2>4. RingTypes'
    BY <1>1, <2>3 DEF RunBase, RingTypes
  <2>5. RegularInv'
    <3> SUFFICES ASSUME "second" \notin upset PROVE RegularInv'
      BY <1>1 DEF RegularInv
    <3>1. RingOrder /\ EventsOrder /\ FilterOrder /\ WindowInv /\ "restarted" \notin upset'
      BY <1>1 DEF RunBase, RegularInv, OrderBase, LostInv
    <3>2. PICK s \in InSlots : /\ tdSlots[s] = f.td /\ Off(t) <= Off(s) /\ Off(s) < Off(stopSlot)
                               /\ td = f.td \/ td < f.td
      BY <1>1, <1>3, <2>2, TakenFirst
    <3>3. td = f.td => f.last /\ testSlot' = stopSlot
      BY <1>3, <1>7, <2>2
    <3>4. \A x \in Numbers : Earlier(f, x) => x # td
      <4>1. f.td \in Nat
        BY DEF EventSet
      <4> QED BY <3>2, <3>3, <4>1 DEF Earlier, Numbers
    <3>5. RingOrder'
      <4>1. \A x \in ToSet(hwRing) : x \in Numbers /\ Earlier(f, x)
        <5>1. Ahead(f) /\ SlotTDs \subseteq Numbers
          BY <1>0, <1>1, <1>5, <3>1, InSlotsFinite DEF FilterOrder, Base
        <5> QED BY <3>1, <5>1 DEF Ahead, RingOrder
      <4>2. gpc = "lay" => pIsochTd # td
        <5>1. gpc = "lay" => f.td < pIsochTd /\ pIsochTd \in Numbers /\ f.td \in Nat
          BY <1>1, <1>5, <3>1 DEF FilterOrder, Ahead, RunBase, RingTypes, EventSet
        <5>2. gpc = "lay" => Earlier(f, pIsochTd) /\ pIsochTd \in Numbers
          BY <5>1 DEF Earlier
        <5> QED BY <3>4, <5>2
      <4> QED BY <1>1, <2>2, <3>1, <3>4, <4>1, <4>2 DEF RingOrder
    <3>6. EventsOrder'
      <4>1. \A d \in DoneEvents : d.td # td
        <5>1. \A d \in DoneEvents : Earlier(f, d.td) /\ d.td \in SlotTDs
          BY <1>1, <1>3, <3>1 DEF FilterOrder, EventsOrder
        <5>2. SlotTDs \subseteq Numbers
          BY <1>0, InSlotsFinite DEF Base
        <5> QED BY <3>4, <5>1, <5>2
      <4> QED BY <1>2, <1>4, <2>2, <3>1, <4>1 DEF EventsOrder
    <3>7. testSlot' # stopSlot' => Reaches'
      <4> SUFFICES ASSUME testSlot' # stopSlot PROVE Reaches'
        BY <1>1
      <4>1. td # f.td /\ testSlot' = NextSlot(t)
        BY <1>3, <1>7, <2>2, <3>3
      <4>2. s # t /\ s \in InSlots' /\ tdSlots'[s] = f.td
        BY <2>2, <3>2, <4>1
      <4>3. PICK o \in SlotNumbers, p \in SlotNumbers : o = outSlot /\ p = stopSlot
        BY <1>0, <1>1, <3>1, UsedIs DEF Base, SlotTypes, FilterTypes, WindowInv
      <4>4. s \in SlotNumbers
        BY <1>0, InSlotsFinite DEF Base
      <4>5. Offset(o, t) <= Offset(o, s) /\ Offset(o, s) < Offset(o, p)
        BY <3>2, <4>3 DEF Off
      <4>6. /\ Offset(o, t) \in Int /\ Offset(o, s) \in Int /\ Offset(o, p) \in Int /\ Offset(o, s) # Offset(o, t)
        BY <4>2, <4>4, OffsetIs
      <4>7. Offset(t, s) = Offset(o, s) - Offset(o, t) /\ Offset(t, p) = Offset(o, p) - Offset(o, t)
        <5>1. Offset(o, t) <= Offset(o, p)
          BY <4>5, <4>6
        <5> QED BY <4>4, <4>5, <5>1, OffsetMoved
      <4>8. 1 <= Offset(t, s) /\ Offset(t, s) < Offset(t, p)
        BY <4>5, <4>6, <4>7
      <4>9. Offset(t, NextSlot(t)) = 1
        <5>1. NextSlot(t) # t
          <6>1. NextSlot(t) = IF t = NumSlots - 1 THEN 0 ELSE t + 1
            BY NextIs
          <6> QED BY <6>1, Slots DEF SlotNumbers
        <5>2. Offset(t, t) = 0
          BY Slots DEF Offset, SlotNumbers
        <5>3. t \in SlotNumbers
          OBVIOUS
        <5> QED BY <5>1, <5>2, <5>3, OffsetNext
      <4>10. Offset(outSlot', testSlot') <= Offset(outSlot', s) /\ Offset(outSlot', s) < Offset(outSlot', stopSlot')
        BY <1>1, <2>2, <4>1, <4>3, <4>8, <4>9
      <4> QED BY <1>3, <4>2, <4>10 DEF Reaches, Off
    <3>8. FilterOrder'
      <4>1. Fresh' > 0
        BY <2>2
      <4> QED BY <1>1, <1>2, <1>3, <1>4, <1>5, <3>1, <3>7, <4>1 DEF FilterOrder
    <3> QED BY <3>1, <3>5, <3>6, <3>8 DEF RegularInv
  <2>6. RanInv'
    <3> SUFFICES ASSUME upset' \cap {"second", "missed", "notLaid"} = {} PROVE RanInv'
      BY DEF RanInv
    <3>1. upset \cap {"second", "missed", "notLaid"} = {} /\ "second" \notin upset
      BY <1>1
    <3>2. /\ \A x \in SlotTDs : x \in ran \/ x \in ToSet(hwRing) \/ (gpc = "lay" /\ x = pIsochTd)
          /\ \A e \in DoneEvents : e.last => e.td \in ran
          /\ SuccessIsDone
      BY <3>1 DEF RunBase, RanInv
    <3>3. td = f.td \/ td < f.td
      BY <1>1, <1>3, <2>2, <3>1, TakenFirst
    <3>4. td = f.td => f.last
      BY <1>3, <1>7, <2>2
    <3>5. \A x \in Numbers : Earlier(f, x) => x # td
      <4>1. f.td \in Nat
        BY DEF EventSet
      <4> QED BY <3>3, <3>4, <4>1 DEF Earlier, Numbers
    <3>6. td \in Numbers /\ Ahead(f)
      BY <1>1, <1>5, <3>1 DEF RunBase, RegularInv, FilterOrder
    <3>7. td \notin ToSet(hwRing)
      BY <3>5, <3>6 DEF Ahead
    <3>8. gpc = "lay" => td # pIsochTd
      <4>1. gpc = "lay" => Earlier(f, pIsochTd) /\ pIsochTd \in Numbers
        BY <3>6 DEF Ahead, Earlier, RunBase, RingTypes
      <4> QED BY <3>5, <4>1
    <3>9. td \in ran
      BY <2>2, <3>2, <3>7, <3>8
    <3>10. SuccessIsDone'
      BY <1>1, <2>3, <3>1, <3>2, <3>9 DEF SuccessIsDone
    <3> QED BY <1>1, <1>2, <2>2, <3>2, <3>10 DEF RanInv
  <2> QED BY <2>4, <2>5, <2>6 DEF RunInv
<1> QED BY <1>1, <1>6, <1>7

\* The chain the filter publishes is out of its hands.
LEMMA PublishRuns ==
  ASSUME RunBase, FilterPublish
  PROVE  RunInv'
<1>1. /\ fpc' = "idle"
      /\ UNCHANGED <<tdSlots, outSlot, hwRing, events, ran, status, frame, toDoList, gpc, pIsochTd, upset>>
  BY DEF FilterPublish, listVars, slotVars, tdVars, gateVars, hwVars, histVars
<1>2. InSlots' = InSlots /\ DoneEvents' = DoneEvents /\ (EventsRise => EventsRise')
  BY <1>1 DEF InSlots, DoneEvents, EventsRise
<1>3. SlotTDs' = SlotTDs
  BY <1>1, <1>2 DEF SlotTDs
<1>4. RingTypes'
  BY <1>1 DEF RunBase, RingTypes
<1>5. RegularInv'
  <2>1. \A e : Ahead(e) => Ahead(e)'
    BY <1>1 DEF Ahead
  <2>2. RingOrder => RingOrder'
    BY <1>1, <1>3 DEF RingOrder
  <2>3. EventsOrder => EventsOrder'
    BY <1>2, <1>3, <2>1 DEF EventsOrder
  <2>4. FilterOrder'
    BY <1>1 DEF FilterOrder
  <2> QED BY <1>1, <2>2, <2>3, <2>4 DEF RunBase, RegularInv
<1>6. RanInv'
  BY <1>1, <1>2, <1>3, RanElsewhere DEF RunBase
<1> QED BY <1>4, <1>5, <1>6 DEF RunInv

\* The first TD on a ring in order is not behind any other.
LEMMA RingFirst ==
  ASSUME hwRing \in Seq(Numbers), hwRing # <<>>
  PROVE  /\ Head(hwRing) \in Numbers /\ Head(hwRing) \in ToSet(hwRing)
         /\ Rising(hwRing) => \A x \in ToSet(hwRing) : Head(hwRing) = x \/ Head(hwRing) < x
<1>1. PICK n \in Nat : n = Len(hwRing) /\ n # 0
  BY LenProperties, EmptySeq
<1>2. Head(hwRing) = hwRing[1] /\ Head(hwRing) \in Numbers /\ 1 \in 1 .. n
  BY <1>1, HeadTailProperties
<1>3. ToSet(hwRing) = {hwRing[i] : i \in 1 .. n}
  <2>1. DOMAIN hwRing = 1 .. n
    BY <1>1, LenProperties
  <2> QED BY <2>1 DEF ToSet
<1>4. \A j \in 1 .. n : j = 1 \/ 1 < j
  BY <1>1
<1>5. ASSUME Rising(hwRing), NEW j \in 1 .. n PROVE hwRing[1] = hwRing[j] \/ hwRing[1] < hwRing[j]
  BY <1>1, <1>2, <1>4, <1>5 DEF Rising
<1> QED BY <1>2, <1>3, <1>5

\* An event is posted for a TD that has been carried out, or for none.
LEMMA PostedRan ==
  ASSUME RanInv, NEW e \in EventSet, events \in Seq(EventSet), Posted(e), UNCHANGED <<tdSlots, status, gpc, pIsochTd>>,
         ran \subseteq ran', upset \subseteq upset', \A x \in ToSet(hwRing) : x \in ToSet(hwRing') \/ x \in ran',
         e.kind = "done" /\ e.last => e.td \in ran'
  PROVE  RanInv'
<1> SUFFICES ASSUME upset' \cap {"second", "missed", "notLaid"} = {} PROVE RanInv'
  BY DEF RanInv
<1>1. upset \cap {"second", "missed", "notLaid"} = {}
  OBVIOUS
<1>2. /\ \A td \in SlotTDs : td \in ran \/ td \in ToSet(hwRing) \/ (gpc = "lay" /\ td = pIsochTd)
      /\ \A d \in DoneEvents : d.last => d.td \in ran
      /\ SuccessIsDone
  BY <1>1 DEF RanInv
<1>3. \A d \in DoneEvents' : d \in DoneEvents \/ (d = e /\ e.kind = "done")
  BY PostedRises
<1>4. InSlots' = InSlots
  BY DEF InSlots
<1>5. SlotTDs' = SlotTDs
  BY <1>4 DEF SlotTDs
<1>6. \A td \in SlotTDs' : td \in ran' \/ td \in ToSet(hwRing') \/ (gpc' = "lay" /\ td = pIsochTd')
  BY <1>2, <1>5
<1>7. \A d \in DoneEvents' : d.last => d.td \in ran'
  BY <1>2, <1>3
<1>8. SuccessIsDone'
  BY <1>1, <1>2 DEF SuccessIsDone
<1> QED BY <1>6, <1>7, <1>8 DEF RanInv

\* The xHC carries out the first TD on the ring, with an event, two, or none.
LEMMA TransferRuns ==
  ASSUME RunBase, HwTransfer
  PROVE  RunInv'
<1>1. /\ hwRing # <<>> /\ hwRing' = Tail(hwRing) /\ ran' = ran \cup {Head(hwRing)}
      /\ LET e == Event("done", Head(hwRing), TRUE)
         IN  \/ events' = events \o <<e>> /\ upset' = upset
             \/ events' = events \o <<>> /\ upset' = upset
             \/ events' = events \o <<e, e>> /\ upset' = upset \cup {"second"}
      /\ UNCHANGED regularVars /\ UNCHANGED <<status, frame, toDoList, gpc, pIsochTd>>
  BY DEF HwTransfer, HwRuns, Post, Upset, regularVars, listVars, slotVars, chainVars, tdVars, filterVars, gateVars
<1>2. hwRing \in Seq(Numbers) /\ events \in Seq(EventSet)
  BY DEF RunBase, RingTypes
<1>3. /\ hwRing' \in Seq(Numbers) /\ ToSet(hwRing) = ToSet(hwRing') \cup {Head(hwRing)}
      /\ Rising(hwRing) => Rising(hwRing') /\ \A x \in ToSet(hwRing') : Head(hwRing) < x
  BY <1>1, <1>2, RingTaken
<1>4. Head(hwRing) \in Numbers
  BY <1>1, <1>2, RingFirst
<1>5. PICK e \in EventSet : /\ e = Event("done", Head(hwRing), TRUE)
                            /\ e.kind = "done" /\ e.td = Head(hwRing) /\ e.last = TRUE
  <2>1. PICK h \in Nat : h = Head(hwRing)
    BY <1>4 DEF Numbers
  <2>2. Event("done", h, TRUE) \in EventSet
    BY EventOf
  <2>3. Event("done", h, TRUE).kind = "done" /\ Event("done", h, TRUE).td = h /\ Event("done", h, TRUE).last = TRUE
    BY DEF Event
  <2> QED BY <2>1, <2>2, <2>3, Zenon
<1>6. \/ events' = events \o <<e>> /\ upset' = upset
      \/ events' = events \o <<>> /\ upset' = upset
      \/ events' = events \o <<e, e>> /\ upset' = upset \cup {"second"}
  BY <1>1, <1>5
<1>7. Sent' = Sent /\ InSlots' = InSlots
  BY <1>1 DEF Sent, InSlots, regularVars
<1>8. SlotTDs' = SlotTDs
  BY <1>1, <1>7 DEF SlotTDs, regularVars
<1>9. events' \in Seq(EventSet) => RingTypes'
  BY <1>1, <1>3 DEF RunBase, RingTypes, regularVars
<1>10. CASE events' = events \o <<e>> /\ upset' = upset
  <2>1. Posted(e)
    BY <1>2, <1>10, PostedOne
  <2>2. RegularInv'
    <3>1. Rising(hwRing) => \A x \in ToSet(hwRing') : Earlier(e, x)
      BY <1>3, <1>5 DEF Earlier
    <3>2. ToSet(hwRing') \subseteq ToSet(hwRing) /\ e.td \in ToSet(hwRing) /\ (Rising(hwRing) => Rising(hwRing'))
      BY <1>3, <1>5
    <3> QED BY <1>1, <1>10, <2>1, <3>1, <3>2, PostedRegular DEF RunBase
  <2>3. RanInv'
    <3>1. UNCHANGED <<tdSlots, status, gpc, pIsochTd>> /\ ran \subseteq ran' /\ upset \subseteq upset' /\ e.td \in ran'
      BY <1>1, <1>5, <1>10 DEF regularVars
    <3>2. \A x \in ToSet(hwRing) : x \in ToSet(hwRing') \/ x \in ran'
      BY <1>1, <1>3
    <3> QED BY <1>2, <2>1, <3>1, <3>2, PostedRan DEF RunBase
  <2>4. RingTypes'
    BY <1>9, <2>1 DEF Posted
  <2> QED BY <2>2, <2>3, <2>4 DEF RunInv
<1>11. CASE events' = events \o <<>> /\ upset' = upset
  <2>1. events' = events
    BY <1>2, <1>11, ConcatEmptySeq
  <2>2. DoneEvents' = DoneEvents /\ (EventsRise => EventsRise')
    BY <2>1 DEF DoneEvents, EventsRise
  <2>3. RegularInv'
    <3> SUFFICES ASSUME "second" \notin upset PROVE RegularInv'
      BY <1>11 DEF RegularInv
    <3>1. fpc = "scan" => fEvent.td <= Sent'
      BY <1>7 DEF RunBase, RegularInv, FilterOrder
    <3>2. ToSet(hwRing') \subseteq ToSet(hwRing) /\ (Rising(hwRing) => Rising(hwRing'))
      BY <1>3
    <3> QED BY <1>1, <1>11, <2>2, <3>1, <3>2, RegularElsewhere DEF RunBase
  <2>4. RanInv'
    <3>1. ran \subseteq ran' /\ upset \subseteq upset' /\ \A x \in ToSet(hwRing) : x \in ToSet(hwRing') \/ x \in ran'
      BY <1>1, <1>3, <1>11
    <3> QED BY <1>1, <1>8, <2>2, <3>1, RanElsewhere DEF RunBase
  <2> QED BY <1>2, <1>9, <2>1, <2>3, <2>4 DEF RunInv
<1>12. CASE events' = events \o <<e, e>> /\ upset' = upset \cup {"second"}
  <2>1. <<e, e>> \in Seq(EventSet)
    OBVIOUS
  <2>2. events' \in Seq(EventSet)
    BY <1>2, <1>12, <2>1, Concatenated
  <2>3. "second" \in upset'
    BY <1>12
  <2> QED BY <1>9, <2>2, <2>3 DEF RunInv, RegularInv, RanInv
<1> QED BY <1>6, <1>10, <1>11, <1>12

\* It reports a part of the first TD, misses it, or finds none.
LEMMA XhcRuns ==
  ASSUME RunBase, HwPart \/ HwMiss \/ HwUnderrun
  PROVE  RunInv'
<1>1. /\ UNCHANGED regularVars /\ UNCHANGED <<status, frame, toDoList, gpc, pIsochTd, ran>>
      /\ \/ hwRing # <<>> /\ hwRing' = hwRing /\ upset' = upset /\ events' = events \o <<Event("done", Head(hwRing), FALSE)>>
         \/ /\ hwRing # <<>> /\ hwRing' = Tail(hwRing) /\ upset' = upset \cup {"missed"}
            /\ events' = events \o <<Event("off", 0, FALSE)>>
         \/ hwRing' = hwRing /\ upset' = upset /\ events' = events \o <<Event("underrun", 0, FALSE)>>
  BY DEF HwPart, HwMiss, HwUnderrun, HwRuns, Post, Upset, regularVars, listVars, slotVars, chainVars, tdVars, filterVars,
         gateVars, hwVars, histVars
<1>2. hwRing \in Seq(Numbers) /\ events \in Seq(EventSet)
  BY DEF RunBase, RingTypes
<1>3. CASE hwRing # <<>> /\ hwRing' = hwRing /\ upset' = upset /\ events' = events \o <<Event("done", Head(hwRing), FALSE)>>
  <2>1. PICK e \in EventSet : /\ e = Event("done", Head(hwRing), FALSE)
                              /\ e.kind = "done" /\ e.td = Head(hwRing) /\ e.last = FALSE
    <3>1. PICK h \in Nat : h = Head(hwRing)
      BY <1>2, <1>3, RingFirst DEF Numbers
    <3>2. Event("done", h, FALSE) \in EventSet
      BY EventOf
    <3>3. Event("done", h, FALSE).kind = "done" /\ Event("done", h, FALSE).td = h /\ Event("done", h, FALSE).last = FALSE
      BY DEF Event
    <3> QED BY <3>1, <3>2, <3>3, Zenon
  <2>2. Posted(e)
    BY <1>2, <1>3, <2>1, PostedOne
  <2>3. e.td \in ToSet(hwRing) /\ (Rising(hwRing) => \A x \in ToSet(hwRing') : Earlier(e, x))
    BY <1>2, <1>3, <2>1, RingFirst DEF Earlier
  <2>4. ToSet(hwRing') \subseteq ToSet(hwRing) /\ (Rising(hwRing) => Rising(hwRing'))
    BY <1>3
  <2>5. RegularInv'
    BY <1>1, <1>3, <2>2, <2>3, <2>4, PostedRegular DEF RunBase
  <2>6. RanInv'
    <3>1. UNCHANGED <<tdSlots, status, gpc, pIsochTd>> /\ ran \subseteq ran' /\ upset \subseteq upset'
      BY <1>1, <1>3 DEF regularVars
    <3> QED BY <1>2, <1>3, <2>1, <2>2, <3>1, PostedRan DEF RunBase
  <2>7. RingTypes'
    BY <1>1, <1>3, <2>2 DEF RunBase, RingTypes, Posted, regularVars
  <2> QED BY <2>5, <2>6, <2>7 DEF RunInv
<1>4. CASE /\ hwRing # <<>> /\ hwRing' = Tail(hwRing) /\ upset' = upset \cup {"missed"}
           /\ events' = events \o <<Event("off", 0, FALSE)>>
  <2>1. PICK e \in EventSet : e = Event("off", 0, FALSE) /\ e.kind # "done"
    BY EventOf
  <2>2. Posted(e)
    BY <1>2, <1>4, <2>1, PostedOne
  <2>3. hwRing' \in Seq(Numbers) /\ ToSet(hwRing') \subseteq ToSet(hwRing) /\ (Rising(hwRing) => Rising(hwRing'))
    BY <1>2, <1>4, RingTaken
  <2>4. upset \subseteq upset' /\ ("restarted" \in upset' => "restarted" \in upset)
    BY <1>4
  <2>5. RegularInv'
    BY <1>1, <2>1, <2>2, <2>3, <2>4, PostedRegular DEF RunBase
  <2>6. RanInv'
    BY <1>4 DEF RanInv
  <2>7. RingTypes'
    BY <1>1, <2>2, <2>3 DEF RunBase, RingTypes, Posted, regularVars
  <2> QED BY <2>5, <2>6, <2>7 DEF RunInv
<1>5. CASE hwRing' = hwRing /\ upset' = upset /\ events' = events \o <<Event("underrun", 0, FALSE)>>
  <2>1. PICK e \in EventSet : e = Event("underrun", 0, FALSE) /\ e.kind # "done"
    BY EventOf
  <2>2. Posted(e)
    BY <1>2, <1>5, <2>1, PostedOne
  <2>3. ToSet(hwRing') \subseteq ToSet(hwRing) /\ (Rising(hwRing) => Rising(hwRing'))
    BY <1>5
  <2>4. RegularInv'
    BY <1>1, <1>5, <2>1, <2>2, <2>3, PostedRegular DEF RunBase
  <2>5. RanInv'
    <3>1. UNCHANGED <<tdSlots, status, gpc, pIsochTd>> /\ ran \subseteq ran' /\ upset \subseteq upset'
      BY <1>1, <1>5 DEF regularVars
    <3> QED BY <1>2, <1>5, <2>1, <2>2, <3>1, PostedRan DEF RunBase
  <2>6. RingTypes'
    BY <1>1, <1>5, <2>2 DEF RunBase, RingTypes, Posted, regularVars
  <2> QED BY <2>4, <2>5, <2>6 DEF RunInv
<1> QED BY <1>1, <1>3, <1>4, <1>5

\* Every step keeps it.
LEMMA RunStep == RunBase /\ [Next]_vars => RunBase'
<1> SUFFICES ASSUME RunBase, [Next]_vars PROVE RunBase'
  OBVIOUS
<1>1. OrderBase'
  BY OrderStep DEF RunBase
<1> SUFFICES RunInv'
  BY <1>1 DEF RunBase, RunInv
<1>2. CASE UIMCreateIsochTransfer
  BY <1>2, RequestRuns
<1>3. CASE AddLate
  BY <1>3, LateRuns
<1>4. CASE AddToSlot
  BY <1>4, SlotRuns
<1>5. CASE AddToRing
  BY <1>5, RingRuns
<1>6. CASE PollBounced
  BY <1>6, PolledRuns
<1>7. CASE Abort
  BY <1>7, AbortRuns
<1>8. CASE AbortIsochEP
  BY <1>1, <1>8, AbortedRuns DEF OrderBase
<1>9. CASE FilterPass
  BY <1>9, PassRuns
<1>10. CASE FilterBegin
  BY <1>10, BeginRuns
<1>11. CASE FilterSkip
  BY <1>11, SkipRuns
<1>12. CASE FilterTest
  BY <1>12, TestRuns
<1>13. CASE FilterPublish
  BY <1>13, PublishRuns
<1>14. CASE HwTransfer
  BY <1>14, TransferRuns
<1>15. CASE HwPart \/ HwMiss \/ HwUnderrun
  BY <1>15, XhcRuns
<1>16. CASE \/ AddNothing \/ AddBegin \/ AddDelayed \/ AddNoRoom \/ AddStart \/ AddMark \/ RetireIsocTransactions
            \/ ReturnThread \/ UNCHANGED vars
  BY <1>16, OthersRun
<1> QED BY <1>2, <1>3, <1>4, <1>5, <1>6, <1>7, <1>8, <1>9, <1>10, <1>11, <1>12, <1>13, <1>14, <1>15, <1>16
        DEF Next, AddIsocFramesToSchedule, PollEventRing2, Filter, Xhc

\* Ring, slots, events and filter agree on the TDs that are under way, while the xHC posts one event for a TD.
THEOREM RunAlways == Spec => []RunBase
<1>1. Init => RunBase
  BY InitLost, InitOrder, InitRun DEF RunBase, OrderBase
<1>2. RunBase /\ [Next]_vars => RunBase'
  BY RunStep
<1> QED BY <1>1, <1>2, PTL DEF Spec

\* A TD is reported as done only when the xHC has carried it out, provided that it posts one event for a TD and
\* misses none and that all TDs are laid out: for every number of slots and of TDs.
THEOREM SuccessIsDoneHolds == Spec => []SuccessIsDone
<1>1. RunBase => SuccessIsDone
  BY DEF RunBase, RanInv, SuccessIsDone
<1> QED BY <1>1, RunAlways, PTL

-----------------------------------------------------------------------------
(* Waking up. While a TD is in one of its places something is going on that *)
(* will move it on.                                                         *)

Excused  == upset \cap {"second", "deaf", "delayed", "orphan", "roomUnseen", "halted"} # {}
Kinds    == {"done", "underrun", "off"}
InFlight == scheduledTDs > 0 \/ producerCount # consumerCount \/ Fresh > 0

SlotsWake == scheduledTDs > 0 =>
  hwRunning \/ stopping \/ gpc \in {"slots", "lay", "start"} \/ \E e \in ToSet(events) : e.kind # "done"
DelayWakes == schedulingDelayed =>
  \/ hwRunning \/ stopping \/ gpc = "start"
  \/ \E e \in ToSet(events) : e.kind = "underrun"
  \/ "underrun" \in ToSet(bounce)
ToDoWakes     == toDoList # <<>> => gpc \in {"add", "slots", "lay"} \/ InFlight \/ schedulingDelayed
DoneWakes     == doneQueue # <<>> => returnThread \/ toDoList # <<>> \/ InFlight
DeferredWakes == deferredQueue # <<>> => InFlight
WakeInv == ~Excused => SlotsWake /\ DelayWakes /\ ToDoWakes /\ DoneWakes /\ DeferredWakes

\* Everything the steps keep.
WakeBase == RunBase /\ bounce \in Seq(Kinds) /\ WakeInv

\* Taking the first off a sequence leaves the others.
LEMMA TailHas ==
  ASSUME NEW S, NEW s \in Seq(S), s # <<>>
  PROVE  Tail(s) \in Seq(S) /\ Head(s) \in S /\ ToSet(s) = ToSet(Tail(s)) \cup {Head(s)}
<1>1. PICK n \in Nat : n + 1 = Len(s)
  <2>1. PICK m \in Nat : m = Len(s) /\ m # 0
    BY LenProperties, EmptySeq
  <2>2. m - 1 \in Nat /\ m - 1 + 1 = m
    BY <2>1
  <2> QED BY <2>1, <2>2
<1>2. PICK t : t = Tail(s)
  OBVIOUS
<1>3. t \in Seq(S) /\ Len(t) = n /\ \A i \in 1 .. n : t[i] = s[i + 1]
  <2>1. /\ Tail(s) \in Seq(S) /\ Len(Tail(s)) = Len(s) - 1
        /\ \A i \in 1 .. Len(Tail(s)) : Tail(s)[i] = s[i + 1]
    BY HeadTailProperties
  <2>2. Len(Tail(s)) = n
    BY <1>1, <2>1
  <2> QED BY <1>2, <2>1, <2>2, Zenon
<1>4. Head(s) = s[1] /\ Head(s) \in S
  BY HeadTailProperties
<1>5. ToSet(s) = {s[i] : i \in 1 .. n + 1} /\ ToSet(t) = {t[i] : i \in 1 .. n}
  <2>1. DOMAIN t = 1 .. n /\ DOMAIN s = 1 .. n + 1
    BY <1>1, <1>3, LenProperties
  <2> QED BY <2>1 DEF ToSet
<1>6. \A j \in 1 .. n + 1 : j = 1 \/ \E i \in 1 .. n : j = i + 1
  <2>1. \A j \in 1 .. n + 1 : j = 1 \/ (j - 1 \in 1 .. n /\ j = (j - 1) + 1)
    OBVIOUS
  <2> QED BY <2>1
<1>7. 1 \in 1 .. n + 1 /\ \A i \in 1 .. n : i + 1 \in 1 .. n + 1
  OBVIOUS
<1>8. \A x \in ToSet(s) : x \in ToSet(t) \cup {s[1]}
  <2>1. \A j \in 1 .. n + 1 : s[j] = s[1] \/ \E i \in 1 .. n : s[j] = t[i]
    BY <1>3, <1>6
  <2> QED BY <1>5, <2>1
<1>9. \A x \in ToSet(t) : x \in ToSet(s)
  BY <1>3, <1>5, <1>7
<1>10. s[1] \in ToSet(s)
  BY <1>5, <1>7
<1> QED BY <1>2, <1>3, <1>4, <1>8, <1>9, <1>10

\* At first nothing waits.
LEMMA InitWake == Init => bounce \in Seq(Kinds) /\ WakeInv
<1> SUFFICES ASSUME Init PROVE bounce \in Seq(Kinds) /\ WakeInv
  OBVIOUS
<1>1. /\ bounce = <<>> /\ scheduledTDs = 0 /\ schedulingDelayed = FALSE /\ toDoList = <<>> /\ doneQueue = <<>>
      /\ deferredQueue = <<>>
  BY DEF Init
<1>2. ~(0 > 0)
  OBVIOUS
<1> QED BY <1>1, <1>2 DEF WakeInv, SlotsWake, DelayWakes, ToDoWakes, DoneWakes, DeferredWakes

\* What has happened stays so.
LEMMA UpsetGrows ==
  ASSUME [Next]_vars
  PROVE  upset \subseteq upset'
<1>1. CASE UIMCreateIsochTransfer
  BY <1>1 DEF UIMCreateIsochTransfer, Upset
<1>2. CASE AddNothing \/ AddBegin \/ AddDelayed \/ AddToSlot \/ AddStart \/ AddMark
  BY <1>2 DEF AddNothing, AddBegin, AddDelayed, AddToSlot, AddStart, AddMark, histVars
<1>3. CASE AddLate
  BY <1>3 DEF AddLate
<1>4. CASE AddNoRoom \/ AddToRing
  BY <1>4 DEF AddNoRoom, AddToRing, Upset
<1>5. CASE RetireIsocTransactions \/ ReturnThread \/ Abort
  BY <1>5 DEF RetireIsocTransactions, ReturnThread, Abort
<1>6. CASE PollBounced
  BY <1>6 DEF PollBounced
<1>7. CASE AbortIsochEP \/ FilterPass
  BY <1>7 DEF AbortIsochEP, FilterPass, Upset
<1>8. CASE FilterBegin \/ FilterSkip \/ FilterTest \/ FilterPublish
  BY <1>8 DEF FilterBegin, FilterSkip, FilterTest, FilterPublish, histVars
<1>9. CASE HwTransfer \/ HwPart \/ HwMiss
  BY <1>9 DEF HwTransfer, HwPart, HwMiss, Upset
<1>10. CASE HwUnderrun
  BY <1>10 DEF HwUnderrun, histVars
<1>11. CASE UNCHANGED vars
  <2>1. UNCHANGED histVars
    BY <1>11 DEF vars
  <2> QED BY <2>1 DEF histVars
<1> QED BY <1>1, <1>2, <1>3, <1>4, <1>5, <1>6, <1>7, <1>8, <1>9, <1>10, <1>11
        DEF Next, AddIsocFramesToSchedule, PollEventRing2, Filter, Xhc

\* The filter and the xHC leave the lists and the gate alone.
LEMMA BelowTheGate ==
  ASSUME Filter \/ Xhc \/ HwPart \/ HwMiss \/ UNCHANGED vars
  PROVE  UNCHANGED <<toDoList, doneQueue, deferredQueue, gpc, stopping, returnThread, schedulingDelayed, consumerCount>>
<1>1. CASE Filter
  BY <1>1 DEF Filter, FilterPass, FilterBegin, FilterSkip, FilterTest, FilterPublish, listVars, schedVars, chainVars, gateVars
<1>2. CASE Xhc \/ HwPart \/ HwMiss
  BY <1>2 DEF Xhc, HwTransfer, HwUnderrun, HwPart, HwMiss, listVars, schedVars, chainVars, gateVars
<1>3. CASE UNCHANGED vars
  <2>1. UNCHANGED listVars /\ UNCHANGED gateVars /\ UNCHANGED schedVars /\ UNCHANGED chainVars
    BY <1>3 DEF vars
  <2> QED BY <2>1 DEF listVars, gateVars, schedVars, chainVars
<1> QED BY <1>1, <1>2, <1>3

\* Without an excuse the slots are counted.
LEMMA SlotsCounted ==
  ASSUME WakeBase, ~Excused
  PROVE  /\ WindowInv /\ PlaceInv /\ RingOrder /\ FilterOrder /\ Base
         /\ scheduledTDs \in Nat /\ (InSlots # {} => scheduledTDs > 0)
<1>1. "second" \notin upset
  BY DEF Excused
<1>2. WindowInv /\ PlaceInv /\ RingOrder /\ FilterOrder /\ Base
  BY <1>1 DEF WakeBase, RunBase, RegularInv, OrderBase, LostInv
<1>3. PICK n \in Nat : n = scheduledTDs /\ n = Cardinality(InSlots) /\ IsFiniteSet(InSlots)
  BY <1>2, InSlotsFinite DEF WindowInv, Base
<1>4. InSlots # {} => n # 0
  BY <1>3, FS_EmptySet
<1>5. n # 0 => n > 0
  BY <1>3
<1> QED BY <1>2, <1>3, <1>4, <1>5

\* The queue of events for the work loop holds their kinds.
LEMMA BounceKinds ==
  ASSUME WakeBase, [Next]_vars
  PROVE  bounce' \in Seq(Kinds)
<1>1. CASE UNCHANGED bounce
  BY <1>1 DEF WakeBase
<1>2. CASE bounce # <<>> /\ bounce' = Tail(bounce)
  BY <1>2, TailHas DEF WakeBase
<1>3. CASE \E e \in EventSet : bounce' = Append(bounce, e.kind)
  <2>1. PICK k \in Kinds : bounce' = Append(bounce, k)
    BY <1>3 DEF EventSet, Kinds
  <2> QED BY <2>1, AppendProperties DEF WakeBase
<1>4. CASE \/ UIMCreateIsochTransfer \/ AddIsocFramesToSchedule \/ RetireIsocTransactions \/ ReturnThread \/ Abort
           \/ AbortIsochEP \/ FilterBegin \/ FilterSkip \/ FilterTest \/ Xhc \/ HwPart \/ HwMiss
  BY <1>1, <1>4 DEF UIMCreateIsochTransfer, AddIsocFramesToSchedule, AddNothing, AddLate, AddBegin, AddDelayed, AddNoRoom,
     AddToSlot, AddToRing, AddStart, AddMark, RetireIsocTransactions, ReturnThread, Abort, AbortIsochEP, FilterBegin,
     FilterSkip, FilterTest, Xhc, HwTransfer, HwUnderrun, HwPart, HwMiss
<1>5. CASE UNCHANGED vars
  BY <1>1, <1>5 DEF vars
<1>6. CASE PollBounced
  BY <1>2, <1>6 DEF PollBounced
<1>7. CASE FilterPass
  <2>1. events \in Seq(EventSet) /\ events # <<>> /\ bounce' = Append(bounce, Head(events).kind)
    BY <1>7 DEF FilterPass, Bounce, WakeBase, RunBase, RingTypes
  <2>2. Head(events) \in EventSet
    BY <2>1, TailHas
  <2> QED BY <1>3, <2>1, <2>2
<1>8. CASE FilterPublish
  <2>1. fEvent \in EventSet /\ (bounce' = bounce \/ bounce' = Append(bounce, fEvent.kind))
    BY <1>8 DEF FilterPublish, Bounce, WakeBase, RunBase, RingTypes
  <2> QED BY <1>1, <1>3, <2>1
<1> QED BY <1>4, <1>5, <1>6, <1>7, <1>8 DEF Next, PollEventRing2, Filter

\* What is in flight stays so until it is retired or an abort returns it.
LEMMA FlightStays ==
  ASSUME WakeBase, ~Excused, [Next]_vars, ~RetireIsocTransactions, ~AbortIsochEP, InFlight
  PROVE  InFlight'
<1>1. Base /\ scheduledTDs \in Nat
  BY SlotsCounted
<1>2. CASE UNCHANGED <<scheduledTDs, producerCount, consumerCount, fpc, cachedProducer>>
  BY <1>2 DEF InFlight, Fresh
<1>3. CASE UIMCreateIsochTransfer \/ AddNothing \/ AddLate \/ AddBegin \/ AddDelayed \/ AddNoRoom
  BY <1>2, <1>3 DEF UIMCreateIsochTransfer, AddNothing, AddLate, AddBegin, AddDelayed, AddNoRoom, slotVars, chainVars,
     filterVars
<1>4. CASE AddToSlot
  <2>1. scheduledTDs' = scheduledTDs + 1 /\ scheduledTDs + 1 > 0
    BY <1>1, <1>4 DEF AddToSlot
  <2> QED BY <2>1 DEF InFlight
<1>5. CASE AddToRing \/ AddStart \/ AddMark \/ PollBounced \/ ReturnThread \/ Abort
  BY <1>2, <1>5 DEF AddToRing, AddStart, AddMark, PollBounced, ReturnThread, Abort, slotVars, chainVars, filterVars
<1>6. CASE FilterPass \/ FilterSkip \/ Xhc \/ HwPart \/ HwMiss
  BY <1>2, <1>6 DEF FilterPass, FilterSkip, Xhc, HwTransfer, HwUnderrun, HwPart, HwMiss, slotVars, chainVars, filterVars
<1>7. CASE UNCHANGED vars
  <2>1. UNCHANGED slotVars /\ UNCHANGED chainVars /\ UNCHANGED filterVars
    BY <1>7 DEF vars
  <2> QED BY <1>2, <2>1 DEF slotVars, chainVars, filterVars
<1>8. CASE FilterBegin
  <2>1. fpc = "idle" /\ UNCHANGED <<scheduledTDs, producerCount, consumerCount>>
    BY <1>8 DEF FilterBegin, slotVars, chainVars
  <2>2. Fresh = 0 /\ ~(0 > 0)
    BY <2>1 DEF Fresh
  <2> QED BY <2>1, <2>2 DEF InFlight
<1>9. CASE FilterTest
  <2>1. UNCHANGED <<fpc, producerCount, consumerCount>>
    BY <1>9 DEF FilterTest, chainVars
  <2>2. CASE UNCHANGED <<scheduledTDs, cachedProducer>>
    BY <1>2, <2>1, <2>2
  <2>3. CASE cachedProducer' = cachedProducer + 1
    <3>1. fpc = "scan" /\ cachedProducer \in Nat /\ producerCount \in Nat /\ producerCount <= cachedProducer
      BY <1>1, <1>9, Counts DEF FilterTest, Base, FilterTypes
    <3>2. (cachedProducer + 1) - producerCount > 0
      BY <3>1
    <3>3. Fresh' > 0
      BY <2>1, <2>3, <3>1, <3>2 DEF Fresh
    <3> QED BY <3>3 DEF InFlight
  <2> QED BY <1>9, <2>2, <2>3 DEF FilterTest
<1>10. CASE FilterPublish
  <2>1. fpc = "scan" /\ producerCount' = cachedProducer /\ UNCHANGED <<scheduledTDs, consumerCount>>
    BY <1>10 DEF FilterPublish, Published, slotVars
  <2>2. /\ cachedProducer \in Nat /\ producerCount \in Nat /\ consumerCount \in Nat
        /\ producerCount <= cachedProducer /\ consumerCount <= producerCount
    BY <1>1, <2>1, Counts DEF Base, FilterTypes, ChainTypes
  <2>3. CASE scheduledTDs > 0
    BY <2>1, <2>3 DEF InFlight
  <2>4. CASE producerCount # consumerCount \/ Fresh > 0
    <3>1. Fresh = cachedProducer - producerCount
      BY <2>1 DEF Fresh
    <3>2. cachedProducer # consumerCount
      BY <2>2, <2>4, <3>1
    <3> QED BY <2>1, <3>2 DEF InFlight
  <2> QED BY <2>3, <2>4 DEF InFlight
<1> QED BY <1>3, <1>4, <1>5, <1>6, <1>7, <1>8, <1>9, <1>10 DEF Next, AddIsocFramesToSchedule, PollEventRing2, Filter

\* While TDs are in slots the xHC runs or is about to be started, or something other than a TD is reported.
LEMMA SlotsStayAwake ==
  ASSUME WakeBase, LostInv', ~Excused, ~Excused', [Next]_vars
  PROVE  SlotsWake'
<1>1. SlotsWake /\ scheduledTDs \in Nat /\ events \in Seq(EventSet)
  BY SlotsCounted DEF WakeBase, WakeInv, RunBase, RingTypes
<1>2. CASE UNCHANGED <<scheduledTDs, hwRunning, stopping, events>> /\ gpc \notin {"slots", "lay", "start"}
  BY <1>1, <1>2 DEF SlotsWake
<1>3. CASE gpc' \in {"slots", "lay", "start"} \/ hwRunning' \/ stopping'
  BY <1>3 DEF SlotsWake
<1>4. CASE UNCHANGED <<scheduledTDs, hwRunning, stopping, events, gpc>>
  BY <1>1, <1>4 DEF SlotsWake
<1>5. CASE UIMCreateIsochTransfer \/ RetireIsocTransactions \/ PollBounced \/ ReturnThread
  BY <1>2, <1>5 DEF UIMCreateIsochTransfer, RetireIsocTransactions, PollBounced, ReturnThread, GateFree, slotVars, hwVars
<1>6. CASE AddNothing \/ AddLate \/ AddBegin
  BY <1>2, <1>6 DEF AddNothing, AddLate, AddBegin, slotVars, hwVars
<1>7. CASE AddDelayed \/ AddNoRoom \/ AddToSlot \/ AddToRing \/ AddStart
  BY <1>3, <1>7 DEF AddDelayed, AddNoRoom, AddToSlot, AddToRing, AddStart
<1>8. CASE AddMark
  BY <1>2, <1>8 DEF AddMark, slotVars, hwVars
<1>9. CASE Abort
  BY <1>3, <1>9 DEF Abort
<1>10. CASE AbortIsochEP
  <2>1. "restarted" \notin upset'
    <3>1. "restarted" \notin upset
      BY DEF WakeBase, RunBase, RegularInv, Excused
    <3> QED BY <1>10, <3>1 DEF AbortIsochEP, Upset
  <2>2. WindowInv' /\ ~Used(outSlot')
    BY <1>10, <2>1, Slots DEF LostInv, AbortIsochEP, Used
  <2>3. scheduledTDs' = 0
    BY <2>2, FS_EmptySet DEF WindowInv
  <2>4. ~(0 > 0)
    OBVIOUS
  <2> QED BY <2>3, <2>4 DEF SlotsWake
<1>11. ASSUME events # <<>>, events' = Tail(events), Head(events).kind = "done",
              UNCHANGED <<scheduledTDs, hwRunning, stopping, gpc>>
       PROVE  SlotsWake'
  <2>1. ToSet(events) = ToSet(events') \cup {Head(events)}
    BY <1>1, <1>11, TailHas
  <2> QED BY <1>1, <1>11, <2>1 DEF SlotsWake
<1>12. CASE FilterPass
  <2>1. /\ events # <<>> /\ events' = Tail(events) /\ UNCHANGED <<scheduledTDs, hwRunning, stopping, gpc>>
        /\ Head(events).kind # "done" /\ scheduledTDs > 0 => "deaf" \in upset'
    BY <1>12 DEF FilterPass, slotVars, hwVars, gateVars, Upset
  <2>2. "deaf" \notin upset'
    BY DEF Excused
  <2> QED BY <1>11, <2>1, <2>2 DEF SlotsWake
<1>13. CASE FilterBegin
  <2>1. /\ events # <<>> /\ events' = Tail(events) /\ UNCHANGED <<scheduledTDs, hwRunning, stopping, gpc>>
        /\ Head(events).kind = "done"
    BY <1>13 DEF FilterBegin, slotVars, hwVars, gateVars
  <2> QED BY <1>11, <2>1
<1>14. CASE FilterSkip \/ FilterPublish
  BY <1>4, <1>14 DEF FilterSkip, FilterPublish, slotVars, hwVars, gateVars
<1>15. CASE FilterTest
  <2>1. UNCHANGED <<hwRunning, stopping, events, gpc>> /\ (scheduledTDs' = scheduledTDs \/ scheduledTDs' = scheduledTDs - 1)
    BY <1>15 DEF FilterTest, hwVars, gateVars
  <2>2. scheduledTDs' > 0 => scheduledTDs > 0
    BY <1>1, <2>1
  <2> QED BY <1>1, <2>1, <2>2 DEF SlotsWake
<1>16. CASE HwTransfer \/ HwPart \/ HwMiss
  BY <1>3, <1>16 DEF HwTransfer, HwPart, HwMiss, HwRuns, hwVars
<1>17. CASE HwUnderrun
  <2>1. PICK e \in EventSet : e = Event("underrun", 0, FALSE) /\ e.kind # "done"
    BY EventOf
  <2>2. events' = events \o <<e>>
    BY <1>17, <2>1 DEF HwUnderrun, Post
  <2>3. <<e>> \in Seq(EventSet) /\ e \in ToSet(<<e>>)
    BY DEF ToSet
  <2>4. ToSet(events') = ToSet(events) \cup ToSet(<<e>>)
    BY ZenonT(40), <1>1, <2>2, <2>3, JoinHas
  <2> QED BY <2>1, <2>3, <2>4 DEF SlotsWake
<1>18. CASE UNCHANGED vars
  <2>1. UNCHANGED slotVars /\ UNCHANGED hwVars /\ UNCHANGED gateVars /\ UNCHANGED events
    BY <1>18 DEF vars
  <2> QED BY <1>4, <2>1 DEF slotVars, hwVars, gateVars
<1> QED BY <1>5, <1>6, <1>7, <1>8, <1>9, <1>10, <1>12, <1>13, <1>14, <1>15, <1>16, <1>17, <1>18
        DEF Next, AddIsocFramesToSchedule, PollEventRing2, Filter, Xhc

\* While scheduling is delayed an underrun is on its way.
LEMMA DelayStaysAwake ==
  ASSUME WakeBase, ~Excused, ~Excused', [Next]_vars
  PROVE  DelayWakes'
<1>1. DelayWakes /\ events \in Seq(EventSet) /\ bounce \in Seq(Kinds)
  BY DEF WakeBase, WakeInv, RunBase, RingTypes
<1>2. CASE UNCHANGED <<schedulingDelayed, hwRunning, stopping, events, bounce>> /\ (gpc # "start" \/ gpc' = gpc)
  BY <1>1, <1>2 DEF DelayWakes
<1>3. CASE gpc' = "start" \/ hwRunning' \/ stopping'
  BY <1>3 DEF DelayWakes
<1>4. CASE UIMCreateIsochTransfer \/ RetireIsocTransactions \/ ReturnThread
  BY <1>2, <1>4 DEF UIMCreateIsochTransfer, RetireIsocTransactions, ReturnThread, GateFree, schedVars, hwVars
<1>5. CASE AddNothing \/ AddLate \/ AddBegin \/ AddToSlot \/ AddMark
  BY <1>2, <1>5 DEF AddNothing, AddLate, AddBegin, AddToSlot, AddMark, schedVars, hwVars
<1>6. CASE AddDelayed \/ AddNoRoom \/ AddStart \/ Abort
  BY <1>3, <1>6 DEF AddDelayed, AddNoRoom, AddStart, Abort
<1>7. CASE AddToRing
  BY <1>2, <1>7 DEF AddToRing, schedVars
<1>8. CASE PollBounced
  <2>1. CASE Head(bounce) = "underrun"
    BY <1>8, <2>1 DEF PollBounced, Rescheduled, DelayWakes
  <2>2. CASE Head(bounce) # "underrun"
    <3>1. /\ bounce # <<>> /\ bounce' = Tail(bounce)
          /\ UNCHANGED <<schedulingDelayed, hwRunning, stopping, events, gpc>>
      BY <1>8, <2>2 DEF PollBounced, hwVars
    <3>2. ToSet(bounce) = ToSet(bounce') \cup {Head(bounce)}
      BY <1>1, <3>1, TailHas
    <3> QED BY <1>1, <2>2, <3>1, <3>2 DEF DelayWakes
  <2> QED BY <2>1, <2>2
<1>9. CASE AbortIsochEP
  <2>1. schedulingDelayed' = schedulingDelayed /\ (schedulingDelayed => "delayed" \in upset')
    BY <1>9 DEF AbortIsochEP, Upset
  <2> QED BY <2>1 DEF DelayWakes, Excused
<1>10. CASE FilterPass
  <2>1. /\ events # <<>> /\ events' = Tail(events) /\ bounce' = Append(bounce, Head(events).kind)
        /\ UNCHANGED <<schedulingDelayed, hwRunning, stopping, gpc>>
    BY <1>10 DEF FilterPass, Bounce, hwVars, gateVars
  <2>2. ToSet(events) = ToSet(events') \cup {Head(events)} /\ Head(events) \in EventSet
    BY <1>1, <2>1, TailHas
  <2>3. PICK k \in Kinds : k = Head(events).kind
    BY <2>2 DEF EventSet, Kinds
  <2>4. ToSet(bounce') = ToSet(bounce) \cup {k}
    BY <1>1, <2>1, <2>3, AppendHas
  <2> QED BY <1>1, <2>1, <2>2, <2>3, <2>4 DEF DelayWakes
<1>11. CASE FilterBegin
  <2>1. /\ events # <<>> /\ events' = Tail(events) /\ Head(events).kind = "done"
        /\ UNCHANGED <<schedulingDelayed, hwRunning, stopping, gpc, bounce>>
    BY <1>11 DEF FilterBegin, schedVars, hwVars, gateVars
  <2>2. ToSet(events) = ToSet(events') \cup {Head(events)}
    BY <1>1, <2>1, TailHas
  <2> QED BY <1>1, <2>1, <2>2 DEF DelayWakes
<1>12. CASE FilterSkip \/ FilterTest
  BY <1>2, <1>12 DEF FilterSkip, FilterTest, schedVars, hwVars, gateVars
<1>13. CASE FilterPublish
  <2>1. /\ bounce' = bounce \/ bounce' = Append(bounce, fEvent.kind)
        /\ UNCHANGED <<schedulingDelayed, hwRunning, stopping, gpc, events>> /\ fpc = "scan"
    BY <1>13 DEF FilterPublish, Bounce, schedVars, hwVars, gateVars
  <2>2. PICK k \in Kinds : k = fEvent.kind
    BY <2>1 DEF WakeBase, RunBase, RingTypes, EventSet, Kinds
  <2>3. ToSet(Append(bounce, k)) = ToSet(bounce) \cup {k}
    BY <1>1, AppendHas
  <2>4. ToSet(bounce) \subseteq ToSet(bounce')
    BY <2>1, <2>2, <2>3
  <2> QED BY <1>1, <2>1, <2>4 DEF DelayWakes
<1>14. CASE HwTransfer \/ HwPart \/ HwMiss
  BY <1>3, <1>14 DEF HwTransfer, HwPart, HwMiss, HwRuns, hwVars
<1>15. CASE HwUnderrun
  <2>1. PICK e \in EventSet : e = Event("underrun", 0, FALSE) /\ e.kind = "underrun"
    <3>1. Event("underrun", 0, FALSE) \in EventSet
      BY EventOf
    <3>2. Event("underrun", 0, FALSE).kind = "underrun"
      BY DEF Event
    <3> QED BY <3>1, <3>2, Zenon
  <2>2. events' = events \o <<e>>
    BY <1>15, <2>1 DEF HwUnderrun, Post
  <2>3. <<e>> \in Seq(EventSet) /\ e \in ToSet(<<e>>)
    BY DEF ToSet
  <2>4. ToSet(events') = ToSet(events) \cup ToSet(<<e>>)
    BY ZenonT(40), <1>1, <2>2, <2>3, JoinHas
  <2> QED BY <2>1, <2>3, <2>4 DEF DelayWakes
<1>16. CASE UNCHANGED vars
  <2>1. UNCHANGED schedVars /\ UNCHANGED hwVars /\ UNCHANGED gateVars /\ UNCHANGED events /\ UNCHANGED bounce
    BY <1>16 DEF vars
  <2> QED BY <1>2, <2>1 DEF schedVars, hwVars, gateVars
<1> QED BY <1>4, <1>5, <1>6, <1>7, <1>8, <1>9, <1>10, <1>11, <1>12, <1>13, <1>14, <1>15, <1>16
        DEF Next, AddIsocFramesToSchedule, PollEventRing2, Filter, Xhc

\* When there is no slot or no room, TDs are in slots.
LEMMA NoRoomInFlight ==
  ASSUME WakeBase, ~Excused, ~Excused', AddNoRoom
  PROVE  InFlight
<1>1. /\ WindowInv /\ RingOrder /\ Base /\ (InSlots # {} => scheduledTDs > 0)
  BY SlotsCounted
<1>2. SUFFICES InSlots # {}
  BY <1>1 DEF InFlight
<1>3. gpc = "slots" /\ (NoSlot \/ Interrupts)
  BY DEF AddNoRoom, Upset, Excused
<1>4. PICK i \in SlotNumbers : i = inSlot
  BY <1>1, <1>3, UsedIs DEF Base, GateTypes, SlotTypes
<1>5. CASE Interrupts
  <2>1. PICK k \in DOMAIN hwRing : TRUE
    BY <1>5 DEF Interrupts
  <2>2. hwRing[k] \in ToSet(hwRing)
    BY <2>1 DEF ToSet
  <2> QED BY <1>1, <2>2 DEF RingOrder, SlotTDs
<1>6. CASE tdSlots[inSlot] # Free
  <2>1. DOMAIN tdSlots = SlotNumbers
    BY <1>1 DEF Base, SlotTypes
  <2> QED BY <1>4, <1>6, <2>1 DEF InSlots
<1>7. CASE inSlot = outSlot
  BY <1>1, <1>4, <1>7, UsedIs DEF WindowInv
<1>8. CASE NextSlot(inSlot) = outSlot
  <2>1. PICK o \in SlotNumbers : o = outSlot /\ o = NextSlot(i)
    BY <1>4, <1>8, NextIs
  <2>2. o = IF i = NumSlots - 1 THEN 0 ELSE i + 1
    BY <2>1, NextIs
  <2>3. Offset(o, i) = NumSlots - 1
    BY <2>2, Slots DEF Offset, SlotNumbers
  <2>4. PICK s \in SlotNumbers : Offset(o, s) = 1
    <3>1. 1 \in SlotNumbers
      BY Slots DEF SlotNumbers
    <3> QED BY <3>1, OffsetAt
  <2>5. 0 < Offset(o, s) /\ Offset(o, s) < Offset(o, i)
    BY <2>3, <2>4, Slots
  <2>6. Used(outSlot)
    BY <2>1, UsedIs
  <2> QED BY <1>1, <1>4, <2>1, <2>5, <2>6 DEF WindowInv, Off
<1> QED BY <1>3, <1>5, <1>6, <1>7, <1>8 DEF NoSlot, SlotsFull

\* While TDs are to do they are being scheduled, or wait for others.
LEMMA ToDoStaysAwake ==
  ASSUME WakeBase, ~Excused, ~Excused', [Next]_vars
  PROVE  ToDoWakes'
<1>1. ToDoWakes /\ WindowInv /\ Base
  BY SlotsCounted DEF WakeBase, WakeInv
<1>2. CASE gpc' \in {"add", "slots", "lay"} \/ schedulingDelayed' \/ toDoList' = <<>>
  BY <1>2 DEF ToDoWakes
<1>3. CASE /\ UNCHANGED <<toDoList, schedulingDelayed>> /\ ~RetireIsocTransactions /\ ~AbortIsochEP
           /\ gpc \notin {"add", "slots", "lay"} \/ gpc' = gpc
  BY <1>1, <1>3, FlightStays DEF ToDoWakes
<1>4. CASE UIMCreateIsochTransfer
  BY <1>2, <1>4 DEF UIMCreateIsochTransfer, Upset, Excused
<1>5. CASE AddNothing
  BY <1>2, <1>5 DEF AddNothing, listVars, schedVars
<1>6. CASE AddLate
  <2>1. toDoList' = <<>> \/ gpc' = "add" \/ "halted" \in upset'
    BY <1>6 DEF AddLate
  <2> QED BY <1>2, <2>1 DEF Excused
<1>7. CASE AddBegin
  <2>1. ASSUME (IF Used(inSlot) THEN inSlot ELSE 0) = outSlot PROVE FALSE
    <3>1. Used(outSlot)
      BY <2>1, Slots DEF Used
    <3> QED BY <1>1, <2>1, <3>1 DEF WindowInv
  <2>2. gpc' = "slots"
    BY <1>7, <2>1 DEF AddBegin
  <2> QED BY <1>2, <2>2
<1>8. CASE AddDelayed \/ AddToSlot \/ RetireIsocTransactions
  BY <1>2, <1>8 DEF AddDelayed, AddToSlot, RetireIsocTransactions
<1>9. CASE AddNoRoom
  <2>1. UNCHANGED <<scheduledTDs, producerCount, consumerCount, fpc, cachedProducer>>
    BY <1>9 DEF AddNoRoom, slotVars, chainVars, filterVars
  <2>2. InFlight'
    BY <1>9, <2>1, NoRoomInFlight DEF InFlight, Fresh
  <2> QED BY <2>2 DEF ToDoWakes
<1>10. CASE AddToRing
  <2>1. gpc' = (IF toDoList = <<>> THEN "start" ELSE "slots") /\ toDoList' = toDoList
    BY <1>10 DEF AddToRing, listVars
  <2> QED BY <1>2, <2>1
<1>11. CASE AddStart \/ AddMark
  <2>1. UNCHANGED <<toDoList, schedulingDelayed>> /\ gpc \notin {"add", "slots", "lay"} /\ gpc \notin {"idle"}
    BY <1>11 DEF AddStart, AddMark, listVars, schedVars
  <2>2. ~RetireIsocTransactions /\ ~AbortIsochEP
    BY <1>1, <2>1 DEF RetireIsocTransactions, AbortIsochEP, GateFree, Base, GateTypes
  <2> QED BY <1>3, <2>1, <2>2
<1>12. CASE PollBounced
  <2>1. gpc = "idle" /\ toDoList' = toDoList /\ (gpc' = "add" \/ (schedulingDelayed' = FALSE /\ ~schedulingDelayed) \/ schedulingDelayed' = schedulingDelayed)
    BY <1>12 DEF PollBounced, GateFree, listVars, Rescheduled
  <2>2. ~RetireIsocTransactions /\ ~AbortIsochEP
    BY <1>12 DEF PollBounced, RetireIsocTransactions, AbortIsochEP, GateFree
  <2>3. InFlight => InFlight'
    BY <2>2, FlightStays
  <2> QED BY <1>1, <2>1, <2>3 DEF ToDoWakes
<1>13. CASE ReturnThread \/ Abort
  <2>1. UNCHANGED <<toDoList, schedulingDelayed>> /\ gpc' = gpc
    BY <1>13 DEF ReturnThread, Abort, listVars, schedVars
  <2>2. CASE RetireIsocTransactions
    BY <1>8, <2>2
  <2>3. ~AbortIsochEP
    BY <1>13 DEF ReturnThread, Abort, AbortIsochEP, GateFree
  <2> QED BY <1>3, <2>1, <2>2, <2>3
<1>14. CASE AbortIsochEP
  BY <1>2, <1>14 DEF AbortIsochEP
<1>15. CASE Filter \/ Xhc \/ HwPart \/ HwMiss \/ UNCHANGED vars
  <2>1. UNCHANGED <<toDoList, schedulingDelayed, gpc>>
    BY <1>15, BelowTheGate
  <2> QED BY <1>3, <1>8, <1>14, <2>1
<1> QED BY <1>4, <1>5, <1>6, <1>7, <1>8, <1>9, <1>10, <1>11, <1>12, <1>13, <1>14, <1>15
        DEF Next, AddIsocFramesToSchedule, PollEventRing2

\* While TDs are done a thread is to return them, or more are on their way.
LEMMA DoneStaysAwake ==
  ASSUME WakeBase, ~Excused, ~Excused', [Next]_vars
  PROVE  DoneWakes'
<1>1. DoneWakes /\ Base
  BY SlotsCounted DEF WakeBase, WakeInv
<1>2. CASE doneQueue' = <<>>
  BY <1>2 DEF DoneWakes
<1>3. CASE UNCHANGED <<doneQueue, returnThread>> /\ (toDoList # <<>> => toDoList' # <<>>)
  BY <1>1, <1>2, <1>3, FlightStays DEF DoneWakes, RetireIsocTransactions, AbortIsochEP, ReturnIsochDoneQueue
<1>4. CASE UIMCreateIsochTransfer
  <2>1. UNCHANGED <<doneQueue, returnThread>>
    BY <1>4 DEF UIMCreateIsochTransfer
  <2>2. PICK n \in 1 .. MaxPerRequest : toDoList' = toDoList \o [j \in 1 .. n |-> Len(frame) + j]
    BY <1>4 DEF UIMCreateIsochTransfer
  <2>3. toDoList # <<>> => toDoList' # <<>>
    <3>1. n \in Nat /\ Len(frame) \in Nat /\ toDoList \in Seq(Numbers)
      BY <1>1, BoundsAssumption, LenProperties DEF Base, ListTypes
    <3>2. PICK g : g = [j \in 1 .. n |-> Len(frame) + j]
      OBVIOUS
    <3>3. g \in [1 .. n -> Numbers]
      BY <3>1, <3>2 DEF Numbers
    <3>4. g \in Seq(Numbers)
      BY <3>1, <3>3, SeqDef
    <3>5. toDoList \o g \in Seq(Numbers) /\ Len(toDoList \o g) = Len(toDoList) + Len(g)
      BY <3>1, <3>4, JoinHas
    <3>6. PICK a \in Nat, b \in Nat : a = Len(toDoList) /\ b = Len(g)
      BY <3>1, <3>4, LenProperties
    <3>7. toDoList # <<>> => a # 0
      BY <3>1, <3>6, EmptySeq
    <3>8. a # 0 => a + b # 0
      BY <3>6
    <3>9. Len(toDoList') = a + b
      BY <2>2, <3>2, <3>5, <3>6
    <3>10. a + b # 0 => toDoList' # <<>>
      BY <3>9
    <3> QED BY <3>7, <3>8, <3>10
  <2> QED BY <1>3, <2>1, <2>3
<1>5. CASE AddNothing \/ AddBegin \/ AddDelayed \/ AddNoRoom \/ AddToRing \/ AddStart \/ AddMark \/ PollBounced \/ Abort
  BY <1>3, <1>5 DEF AddNothing, AddBegin, AddDelayed, AddNoRoom, AddToRing, AddStart, AddMark, PollBounced, Abort, listVars
<1>6. CASE AddLate
  <2>1. toDoList' = <<>> => returnThread'
    BY <1>6 DEF AddLate
  <2> QED BY <2>1 DEF DoneWakes
<1>7. CASE AddToSlot
  <2>1. scheduledTDs' > 0
    <3>1. scheduledTDs' = scheduledTDs + 1 /\ scheduledTDs \in Nat
      BY <1>7, SlotsCounted DEF AddToSlot
    <3> QED BY <3>1
  <2> QED BY <2>1 DEF DoneWakes, InFlight
<1>8. CASE RetireIsocTransactions \/ ReturnThread \/ AbortIsochEP
  BY <1>2, <1>8 DEF RetireIsocTransactions, ReturnThread, AbortIsochEP, ReturnIsochDoneQueue
<1>9. CASE Filter \/ Xhc \/ HwPart \/ HwMiss \/ UNCHANGED vars
  <2>1. UNCHANGED <<toDoList, doneQueue, returnThread>>
    BY <1>9, BelowTheGate
  <2> QED BY <1>3, <2>1
<1> QED BY <1>4, <1>5, <1>6, <1>7, <1>8, <1>9 DEF Next, AddIsocFramesToSchedule, PollEventRing2

\* Putting a TD on the done queue defers none.
LEMMA PutDefersNone ==
  ASSUME NEW S, NEW q \in QueuesOf(S), NEW td \in S, \A x \in S : frame[x] \in Nat, q.def = <<>>
  PROVE  PutTDonDoneQueue(q, td).def = <<>>
<1>1. q.def \in Seq(S) /\ Len(q.def) = 0
  BY DEF QueuesOf
<1>2. PICK n \in 0 .. Len(q.def) :
        PutTDonDoneQueue(q, td) = [done |-> Append(q.done \o SubSeq(q.def, 1, n), td), def |-> SubSeq(q.def, n + 1, Len(q.def))]
  BY PutOne
<1>3. PutTDonDoneQueue(q, td).def = SubSeq(q.def, n + 1, Len(q.def))
  BY <1>2
<1>4. SubSeq(q.def, n + 1, Len(q.def)) \in Seq(S) /\ Len(SubSeq(q.def, n + 1, Len(q.def))) = Len(q.def) - n
  BY <1>1, CutInTwo
<1>5. PICK d \in Seq(S) : d = SubSeq(q.def, n + 1, Len(q.def)) /\ Len(d) = Len(q.def) - n
  BY <1>4
<1>6. Len(d) = 0
  BY <1>1, <1>2, <1>5
<1>7. d = <<>>
  BY <1>6, EmptySeq
<1> QED BY <1>3, <1>5, <1>7

\* The deferred wait for those scheduled before them.
LEMMA DeferredStaysAwake ==
  ASSUME WakeBase, ~Excused, ~Excused', [Next]_vars
  PROVE  DeferredWakes'
<1>1. DeferredWakes /\ Base /\ FilterOrder /\ scheduledTDs \in Nat /\ (InSlots # {} => scheduledTDs > 0)
  BY SlotsCounted DEF WakeBase, WakeInv
<1>2. CASE deferredQueue' = <<>>
  BY <1>2 DEF DeferredWakes
<1>3. CASE RetireIsocTransactions
  <2>1. PICK q : ReturnIsochDoneQueue(q, producerCount)
    BY <1>3 DEF RetireIsocTransactions
  <2>2. deferredQueue' # <<>> => scheduledTDs # 0 \/ fpc # "idle"
    BY <2>1 DEF ReturnIsochDoneQueue
  <2>3. fpc # "idle" => scheduledTDs > 0 \/ Fresh > 0
    BY <1>1 DEF FilterOrder, Base, FilterTypes
  <2>4. scheduledTDs # 0 => scheduledTDs > 0
    BY <1>1
  <2>5. scheduledTDs' = scheduledTDs /\ Fresh' = Fresh
    BY <1>3 DEF RetireIsocTransactions, slotVars, filterVars, Fresh
  <2> QED BY <2>2, <2>3, <2>4, <2>5 DEF DeferredWakes, InFlight
<1>4. CASE AbortIsochEP
  BY <1>2, <1>4 DEF AbortIsochEP
<1>5. SUFFICES ASSUME ~RetireIsocTransactions, ~AbortIsochEP PROVE DeferredWakes'
  BY <1>3, <1>4
<1>6. InFlight => InFlight'
  BY <1>5, FlightStays
<1>7. CASE deferredQueue' = deferredQueue
  BY <1>1, <1>6, <1>7 DEF DeferredWakes
<1>8. CASE AddLate
  <2>1. PICK td : td = Head(toDoList)
    OBVIOUS
  <2>2. toDoList # <<>> /\ (Waiting \/ deferredQueue' = PutTDonDoneQueue(Queues, td).def)
    BY <1>8, <2>1 DEF AddLate
  <2>3. CASE Waiting
    BY <1>6, <2>3 DEF Waiting, InFlight, DeferredWakes
  <2>4. CASE deferredQueue' = PutTDonDoneQueue(Queues, td).def
    <3>1. td \in 1 .. Len(frame)
      BY <1>1, <2>1, <2>2, NextToDo
    <3>2. Queues \in QueuesOf(1 .. Len(frame)) /\ (\A x \in 1 .. Len(frame) : frame[x] \in Nat) /\ Queues.def = deferredQueue
      BY <1>1, QueuesKnown
    <3>3. deferredQueue = <<>> => deferredQueue' = <<>>
      BY <2>4, <3>1, <3>2, PutDefersNone
    <3> QED BY <1>1, <1>6, <3>3 DEF DeferredWakes
  <2> QED BY <2>2, <2>3, <2>4
<1>9. CASE ReturnThread
  <2>1. ReturnIsochDoneQueue(Queues, consumerCount)
    BY <1>9 DEF ReturnThread
  <2>2. deferredQueue' # <<>> => scheduledTDs # 0 \/ consumerCount # producerCount \/ fpc # "idle"
    BY <2>1 DEF ReturnIsochDoneQueue
  <2>3. fpc # "idle" => scheduledTDs > 0 \/ Fresh > 0
    BY <1>1 DEF FilterOrder, Base, FilterTypes
  <2>4. scheduledTDs # 0 => scheduledTDs > 0
    BY <1>1
  <2> QED BY <1>6, <2>2, <2>3, <2>4 DEF DeferredWakes, InFlight
<1>10. CASE UIMCreateIsochTransfer \/ AddToSlot \/ PollBounced \/ Abort
  BY <1>7, <1>10 DEF UIMCreateIsochTransfer, AddToSlot, PollBounced, Abort, listVars
<1>11. CASE AddNothing \/ AddBegin \/ AddDelayed \/ AddNoRoom \/ AddToRing \/ AddStart \/ AddMark
  BY <1>7, <1>11 DEF AddNothing, AddBegin, AddDelayed, AddNoRoom, AddToRing, AddStart, AddMark, listVars
<1>12. CASE Filter \/ Xhc \/ HwPart \/ HwMiss \/ UNCHANGED vars
  BY <1>7, <1>12, BelowTheGate
<1> QED BY <1>5, <1>8, <1>9, <1>10, <1>11, <1>12 DEF Next, AddIsocFramesToSchedule, PollEventRing2

\* Every step keeps it.
LEMMA WakeStep == WakeBase /\ [Next]_vars => WakeBase'
<1> SUFFICES ASSUME WakeBase, [Next]_vars PROVE WakeBase'
  OBVIOUS
<1>1. RunBase' /\ bounce' \in Seq(Kinds)
  BY RunStep, BounceKinds DEF WakeBase
<1>2. WakeInv'
  <2> SUFFICES ASSUME ~Excused' PROVE WakeInv'
    BY DEF WakeInv
  <2>1. ~Excused
    BY UpsetGrows DEF Excused
  <2>2. LostInv'
    BY <1>1 DEF RunBase, OrderBase
  <2> QED BY <2>1, <2>2, SlotsStayAwake, DelayStaysAwake, ToDoStaysAwake, DoneStaysAwake, DeferredStaysAwake DEF WakeInv
<1> QED BY <1>1, <1>2 DEF WakeBase

\* At rest every TD has been returned.
LEMMA WakeImplies == WakeBase => NoTDForgotten
<1> SUFFICES ASSUME WakeBase, AtRest, ~Excused PROVE ToSet(returned) = DOMAIN frame
  BY DEF NoTDForgotten, Excused
<1>1. /\ WindowInv /\ PlaceInv /\ Base /\ scheduledTDs \in Nat /\ (InSlots # {} => scheduledTDs > 0)
  BY SlotsCounted
<1>2. /\ gpc = "idle" /\ ~stopping /\ fpc = "idle" /\ producerCount = consumerCount /\ ~returnThread
      /\ events = <<>> /\ bounce = <<>> /\ ~hwRunning
  BY DEF AtRest, GateFree
<1>3. ToSet(<<>>) = {}
  BY DEF ToSet
<1>4. ~(scheduledTDs > 0) /\ ~schedulingDelayed
  BY <1>2, <1>3 DEF WakeBase, WakeInv, SlotsWake, DelayWakes
<1>5. Fresh = 0 /\ ~(0 > 0)
  BY <1>2 DEF Fresh
<1>6. ~InFlight
  BY <1>2, <1>4, <1>5 DEF InFlight
<1>7. toDoList = <<>> /\ doneQueue = <<>> /\ deferredQueue = <<>>
  BY <1>2, <1>4, <1>6 DEF WakeBase, WakeInv, ToDoWakes, DoneWakes, DeferredWakes
<1>8. SlotTDs = {} /\ TakenTDs = {} /\ ChainTDs = {}
  <2>1. InSlots = {}
    BY <1>1, <1>4
  <2>2. producerCount - consumerCount = 0
    BY <1>1, <1>2, Counts
  <2> QED BY <1>5, <2>1, <2>2 DEF SlotTDs, TakenTDs, ChainTDs
<1>9. Places = ToSet(returned)
  BY <1>3, <1>7, <1>8 DEF Places, Home
<1>10. Sent = Len(frame) /\ DOMAIN frame = 1 .. Len(frame)
  <2>1. PICK n \in Nat : n = Len(frame) /\ DOMAIN frame = 1 .. n
    BY <1>1, LenProperties DEF Base, ListTypes
  <2>2. Len(toDoList) = 0
    BY <1>7
  <2> QED BY <2>1, <2>2 DEF Sent
<1> QED BY <1>1, <1>9, <1>10 DEF PlaceInv, Base

\* Whatever waits, something will move it on.
THEOREM WakeAlways == Spec => []WakeBase
<1>1. Init => WakeBase
  BY InitLost, InitOrder, InitRun, InitWake DEF WakeBase, RunBase, OrderBase
<1>2. WakeBase /\ [Next]_vars => WakeBase'
  BY WakeStep
<1> QED BY <1>1, <1>2, PTL DEF Spec

\* When interrupts, work loop and xHC have nothing left to do every TD has been returned, with the exceptions that
\* NoTDForgotten names: for every number of slots and of TDs.
THEOREM NoTDForgottenHolds == Spec => []NoTDForgotten
<1>1. WakeBase => NoTDForgotten
  BY WakeImplies
<1> QED BY <1>1, WakeAlways, PTL

(***************************************************************************)
(* Streams.                                                                *)
(***************************************************************************)

-----------------------------------------------------------------------------
(* Powers of two.                                                          *)

\* A power of two is twice the one before it: the recursion that defines Pow2 has a solution,
\* built from the initial segments of it.
LEMMA PowerStep ==
  /\ Pow2[0] = 1
  /\ \A k \in Nat : Pow2[k + 1] = 2 * Pow2[k]
<1> DEFINE Segment(k) == {f \in [0..k -> Nat] : f[0] = 1 /\ \A i \in 1..k : f[i] = 2 * f[i - 1]}
<1>1. \A k \in Nat : Segment(k) # {}
  <2> DEFINE Missing == {k \in Nat : Segment(k) = {}}
  <2> SUFFICES ASSUME Missing # {} PROVE FALSE
    OBVIOUS
  <2>1. PICK k \in Missing : \A n \in Missing : k <= n
    BY LeastNumber
  <2>2. CASE k = 0
    <3>1. [i \in 0..0 |-> 1] \in Segment(0)
      OBVIOUS
    <3> QED BY <2>2, <3>1
  <2>3. CASE k # 0
    <3>1. k - 1 \in Nat /\ Segment(k - 1) # {}
      <4> HIDE DEF Segment
      <4>1. k \in Nat /\ k - 1 \in Nat /\ ~(k <= k - 1)
        BY <2>3
      <4> QED BY <4>1, <2>1
    <3>2. PICK f \in [0..(k - 1) -> Nat] : f[0] = 1 /\ \A i \in 1..(k - 1) : f[i] = 2 * f[i - 1]
      BY <3>1
    <3> DEFINE g == [i \in 0..k |-> IF i = k THEN 2 * f[k - 1] ELSE f[i]]
    <3>3. g \in [0..k -> Nat] /\ g[0] = 1
      BY <3>1, <3>2, <2>3
    <3>4. ASSUME NEW i \in 1..k PROVE g[i] = 2 * g[i - 1]
      <4>1. i \in 0..k /\ i - 1 \in 0..k /\ i - 1 # k
        BY <3>1
      <4>2. g[i - 1] = f[i - 1]
        BY <4>1
      <4>3. CASE i = k
        BY <4>1, <4>2, <4>3
      <4>4. CASE i # k
        <5>1. i \in 1..(k - 1)
          BY <4>4, <3>1
        <5> QED BY <5>1, <4>1, <4>2, <4>4, <3>2
      <4> QED BY <4>3, <4>4
    <3>5. g \in Segment(k)
      BY <3>3, <3>4
    <3> QED BY <3>5
  <2> QED BY <2>2, <2>3
<1>2. ASSUME NEW k \in Nat, NEW f \in Segment(k), NEW g \in Segment(k + 1), NEW i \in 0..k
      PROVE  f[i] = g[i]
  <2> DEFINE Differ == {n \in Nat : n <= k /\ f[n] # g[n]}
  <2>0. i \in Nat /\ i <= k
    OBVIOUS
  <2> SUFFICES ASSUME Differ # {} PROVE FALSE
    BY <2>0
  <2>1. PICK n \in Differ : \A m \in Differ : n <= m
    BY LeastNumber
  <2>2. n \in 1..k /\ n \in 1..(k + 1) /\ n - 1 \in 0..k
    BY <2>1
  <2>3. f[n - 1] = g[n - 1]
    BY <2>1, <2>2
  <2>4. f[n] = 2 * f[n - 1] /\ g[n] = 2 * g[n - 1]
    BY <2>2
  <2> QED BY <2>1, <2>3, <2>4
<1> DEFINE solution == [k \in Nat |-> (CHOOSE f \in Segment(k) : TRUE)[k]]
<1>3. solution[0] = 1
  <2>1. (CHOOSE f \in Segment(0) : TRUE) \in Segment(0)
    BY <1>1
  <2> QED BY <2>1
<1>4. ASSUME NEW k \in Nat PROVE solution[k + 1] = 2 * solution[k]
  <2>1. PICK f \in Segment(k) : f = CHOOSE h \in Segment(k) : TRUE
    BY <1>1
  <2>2. PICK g \in Segment(k + 1) : g = CHOOSE h \in Segment(k + 1) : TRUE
    BY <1>1, k + 1 \in Nat
  <2>3. solution[k] = f[k] /\ solution[k + 1] = g[k + 1]
    BY <2>1, <2>2
  <2>4. f[k] = g[k]
    <3>1. k \in 0..k
      OBVIOUS
    <3> HIDE DEF Segment
    <3> QED BY <1>2, <3>1
  <2>5. g[k + 1] = 2 * g[k]
    OBVIOUS
  <2> QED BY <2>3, <2>4, <2>5
<1>5. solution = [k \in Nat |-> IF k = 0 THEN 1 ELSE 2 * solution[k - 1]]
  <2>1. ASSUME NEW k \in Nat PROVE solution[k] = IF k = 0 THEN 1 ELSE 2 * solution[k - 1]
    <3> HIDE DEF solution
    <3>1. CASE k = 0
      BY <3>1, <1>3
    <3>2. CASE k # 0
      <4>1. k - 1 \in Nat /\ (k - 1) + 1 = k
        BY <3>2
      <4> QED BY <4>1, <1>4, <3>2
    <3> QED BY <3>1, <3>2
  <2>2. solution = [k \in Nat |-> solution[k]]
    OBVIOUS
  <2> HIDE DEF solution
  <2> QED BY <2>1, <2>2
<1> HIDE DEF solution
<1>6. Pow2 = [k \in Nat |-> IF k = 0 THEN 1 ELSE 2 * Pow2[k - 1]]
  BY <1>5 DEF Pow2
<1>7. ASSUME NEW k \in Nat PROVE Pow2[k + 1] = 2 * Pow2[k]
  <2>1. k + 1 \in Nat /\ k + 1 # 0 /\ (k + 1) - 1 = k
    OBVIOUS
  <2> QED BY <1>6, <2>1
<1> QED BY <1>6, <1>7

\* The powers of two are positive and grow.
LEMMA Powers ==
  /\ \A k \in Nat : Pow2[k] \in Nat \ {0}
  /\ \A k, n \in Nat : k <= n => Pow2[k] <= Pow2[n]
<1>1. \A k \in Nat : Pow2[k] \in Nat \ {0}
  <2> DEFINE Fails == {k \in Nat : Pow2[k] \notin Nat \ {0}}
  <2> SUFFICES ASSUME Fails # {} PROVE FALSE
    OBVIOUS
  <2>1. PICK k \in Fails : \A n \in Fails : k <= n
    BY LeastNumber
  <2>2. CASE k = 0
    BY <2>2, PowerStep
  <2>3. CASE k # 0
    <3>1. k - 1 \in Nat /\ k - 1 \notin Fails /\ (k - 1) + 1 = k
      BY <2>1, <2>3
    <3>2. Pow2[k] = 2 * Pow2[k - 1] /\ Pow2[k - 1] \in Nat \ {0}
      BY <3>1, PowerStep
    <3> QED BY <3>2
  <2> QED BY <2>2, <2>3
<1>2. ASSUME NEW k \in Nat, NEW n \in Nat, k <= n PROVE Pow2[k] <= Pow2[n]
  <2> DEFINE Fails == {m \in Nat : k <= m /\ ~(Pow2[k] <= Pow2[m])}
  <2> SUFFICES ASSUME Fails # {} PROVE FALSE
    BY <1>2
  <2>1. PICK m \in Fails : \A i \in Fails : m <= i
    BY LeastNumber
  <2>2. CASE m = k
    BY <2>2, <1>1
  <2>3. CASE m # k
    <3>1. m - 1 \in Nat /\ m - 1 \notin Fails /\ k <= m - 1 /\ (m - 1) + 1 = m
      BY <2>1, <2>3
    <3>2. Pow2[m] = 2 * Pow2[m - 1] /\ Pow2[k] <= Pow2[m - 1]
      BY <3>1, PowerStep
    <3>3. Pow2[k] \in Nat /\ Pow2[m] \in Nat /\ Pow2[m - 1] \in Nat
      BY <1>1, <3>1
    <3> QED BY <3>2, <3>3
  <2> QED BY <2>2, <2>3
<1> QED BY <1>1, <1>2

\* Of two whole numbers the smaller keeps a product with a natural within a bound.
LEMMA SmallerProduct ==
  ASSUME NEW a \in Int, NEW b \in Int, a <= b, NEW factor \in Nat
  PROVE  a * factor <= b * factor
OBVIOUS

\* A stack without its last entry: what QsortPop does.
LEMMA DropTop ==
  ASSUME NEW stack \in Seq(Int), stack # <<>>
  PROVE  /\ Below(stack) \in Seq(Int) /\ Len(Below(stack)) = Len(stack) - 1
         /\ \A i \in 1..(Len(stack) - 1) : Below(stack)[i] = stack[i]
<1> DEFINE n == Len(stack)
<1>1. n \in Nat /\ n >= 1 /\ 1 \in Int /\ n - 1 \in Int /\ \A i \in 1..(n - 1) : stack[i] \in Int
  OBVIOUS
<1>2. /\ SubSeq(stack, 1, n - 1) \in Seq(Int)
      /\ Len(SubSeq(stack, 1, n - 1)) = IF 1 <= n - 1 THEN (n - 1) - 1 + 1 ELSE 0
      /\ \A i \in 1..((n - 1) - 1 + 1) : SubSeq(stack, 1, n - 1)[i] = stack[1 + i - 1]
  BY <1>1, SubSeqProperties
<1>3. ASSUME NEW i \in 1..(n - 1) PROVE SubSeq(stack, 1, n - 1)[i] = stack[i]
  <2>1. i \in 1..((n - 1) - 1 + 1) /\ 1 + i - 1 = i
    BY <1>1
  <2> QED BY <1>2, <2>1
<1>4. Len(SubSeq(stack, 1, n - 1)) = n - 1
  <2> DEFINE length == Len(SubSeq(stack, 1, n - 1))
  <2>1. length = IF 1 <= n - 1 THEN (n - 1) - 1 + 1 ELSE 0
    BY <1>2
  <2> HIDE DEF length, n
  <2> QED BY <1>1, <2>1
<1> QED BY <1>2, <1>3, <1>4 DEF Below

\* The last entry of a stack replaced by two: what QsortSplit does to lefts and to rights.
LEMMA ReplaceTop ==
  ASSUME NEW stack \in Seq(Int), stack # <<>>, NEW a \in Int, NEW b \in Int
  PROVE  LET new == Append(Append(Below(stack), a), b) IN
         /\ new \in Seq(Int) /\ Len(new) = Len(stack) + 1
         /\ new[Len(stack)] = a /\ new[Len(stack) + 1] = b
         /\ \A i \in 1..(Len(stack) - 1) : new[i] = stack[i]
<1> DEFINE n == Len(stack)
<1>1. n \in Nat /\ n >= 1
  OBVIOUS
<1>2. Below(stack) \in Seq(Int) /\ Len(Below(stack)) = n - 1
      /\ \A i \in 1..(n - 1) : Below(stack)[i] = stack[i]
  BY DropTop
<1>3. Append(Below(stack), a) \in Seq(Int) /\ Len(Append(Below(stack), a)) = n
      /\ Append(Below(stack), a)[n] = a
      /\ \A i \in 1..(n - 1) : Append(Below(stack), a)[i] = stack[i]
  BY <1>1, <1>2
<1> QED BY <1>1, <1>3


-----------------------------------------------------------------------------
(* The stack of the quicksort.                                             *)

\* What the variables hold.
Types ==
  /\ physAddr \in [StreamIds -> Int] /\ contexts \in [StreamIds -> Int]
  /\ lastStream \in 0..MaxStream
  /\ lefts \in Seq(Int) /\ rights \in Seq(Int) /\ Len(lefts) = Len(rights)
  /\ part \in [L : Int, R : Int, pivot : Int]
  /\ pc \in {"none", "qsort", "partition", "ready"}

\* Every range of the stack is a part of the array, at worst an empty one.
RangesInv ==
  \A i \in 1..Len(lefts) : 1 <= lefts[i] /\ lefts[i] <= rights[i] + 1 /\ rights[i] <= MaxStream

\* While it is partitioned, the range on top has two entries or more, and L and R stay in it.
PartitionInv ==
  pc = "partition" =>
    /\ lefts # <<>> /\ Top(lefts) < Top(rights)
    /\ Top(lefts) <= part.L /\ part.L <= part.R + 1 /\ part.R <= Top(rights)

\* A range at depth i has at most MaxStream / 2^(i - 1) entries.
HalvingInv ==
  \A i \in 1..Len(lefts) : (rights[i] - lefts[i] + 1) * Pow2[i - 1] <= MaxStream

\* What the search from the right returns: SkipDown is defined.
LEMMA SkipDownFinds ==
  ASSUME Types, 1 <= part.L, part.L <= part.R, part.R <= MaxStream
  PROVE  /\ SkipDown \in (part.L - 1)..part.R
         /\ \A i \in (SkipDown + 1)..part.R : physAddr[i] > part.pivot
         /\ SkipDown >= part.L => physAddr[SkipDown] <= part.pivot
<1> DEFINE L == part.L
           R == part.R
           Stops(r) == /\ \A i \in (r + 1)..R : physAddr[i] > part.pivot
                       /\ r >= L => physAddr[r] <= part.pivot
<1>1. L \in Int /\ R \in Int /\ L <= R
  BY DEF Types
<1>2. \E r \in (L - 1)..R : Stops(r)
  <2> DEFINE Steps == {n \in Nat : R - n < L \/ physAddr[R - n] <= part.pivot}
  <2>1. (R - L + 1) \in Steps
    BY <1>1
  <2>2. PICK n \in Steps : \A m \in Steps : n <= m
    BY <2>1, LeastNumber
  <2>3. n <= R - L + 1
    BY <2>1, <2>2
  <2>4. (R - n) \in (L - 1)..R
    BY <1>1, <2>3
  <2>5. ASSUME NEW i \in (R - n + 1)..R PROVE physAddr[i] > part.pivot
    <3>1. R - i \in Nat /\ ~(n <= R - i) /\ R - (R - i) = i /\ ~(i < L)
      BY <1>1, <2>3
    <3>2. (R - i) \notin Steps
      BY <3>1, <2>2
    <3>3. i \in StreamIds
      BY <1>1, <2>4, StreamAssumption DEF StreamIds
    <3>4. physAddr[i] \in Int /\ part.pivot \in Int
      BY <3>3 DEF Types
    <3> QED BY <3>1, <3>2, <3>4
  <2> QED BY <2>2, <2>4, <2>5, <1>1
<1> QED BY <1>2 DEF SkipDown

\* What the search from the left returns: SkipUp is defined.
LEMMA SkipUpFinds ==
  ASSUME Types, 1 <= part.L, NEW R \in Int, part.L <= R + 1, R <= MaxStream
  PROVE  /\ SkipUp(R) \in part.L..(R + 1)
         /\ \A i \in part.L..(SkipUp(R) - 1) : physAddr[i] <= part.pivot
         /\ SkipUp(R) <= R => physAddr[SkipUp(R)] > part.pivot
<1> DEFINE L == part.L
           Stops(l) == /\ \A i \in L..(l - 1) : physAddr[i] <= part.pivot
                       /\ l <= R => physAddr[l] > part.pivot
<1>1. L \in Int /\ 1 <= L
  BY DEF Types
<1>2. \E l \in L..(R + 1) : Stops(l)
  <2> DEFINE Steps == {n \in Nat : L + n > R \/ physAddr[L + n] > part.pivot}
  <2>1. (R - L + 1) \in Steps
    BY <1>1
  <2>2. PICK n \in Steps : \A m \in Steps : n <= m
    BY <2>1, LeastNumber
  <2>3. n <= R - L + 1
    BY <2>1, <2>2
  <2>4. (L + n) \in L..(R + 1)
    BY <1>1, <2>3
  <2>5. ASSUME NEW i \in L..(L + n - 1) PROVE physAddr[i] <= part.pivot
    <3>1. i - L \in Nat /\ ~(n <= i - L) /\ L + (i - L) = i /\ ~(i > R)
      BY <1>1, <2>3
    <3>2. (i - L) \notin Steps
      BY <3>1, <2>2
    <3>3. i \in StreamIds
      BY <1>1, <3>1, StreamAssumption DEF StreamIds
    <3>4. physAddr[i] \in Int /\ part.pivot \in Int
      BY <3>3 DEF Types
    <3> QED BY <3>1, <3>2, <3>4
  <2> QED BY <2>2, <2>4, <2>5, <1>1
<1> QED BY <1>2 DEF SkipUp

\* One turn of the loop of partition, in one formula.
LEMMA PartitionTurn ==
  ASSUME Types, RangesInv, PartitionInv, PartitionStep
  PROVE  \E l, r \in Int :
    /\ part.L - 1 <= r /\ r <= part.R /\ part.L <= l /\ l <= r + 1
    /\ \A i \in (r + 1)..part.R : physAddr[i] > part.pivot
    /\ \A i \in part.L..(l - 1) : physAddr[i] <= part.pivot
    /\ r >= part.L => physAddr[r] <= part.pivot
    /\ l <= r => physAddr[l] > part.pivot
    /\ \/ l < r /\ physAddr' = Swapped(l, r) /\ part' = [part EXCEPT !.L = l + 1, !.R = r - 1]
       \/ l = r + 1 /\ physAddr' = physAddr /\ part' = [part EXCEPT !.L = l, !.R = r]
<1>1. /\ lefts # <<>> /\ Top(lefts) <= part.L /\ part.L <= part.R /\ part.R <= Top(rights)
      /\ Len(lefts) \in 1..Len(lefts)
  BY DEF Types, PartitionInv, PartitionStep
<1>2. 1 <= part.L /\ part.R <= MaxStream /\ part.L \in Int /\ part.R \in Int /\ part.pivot \in Int
  <2>1. 1 <= Top(lefts) /\ Top(rights) <= MaxStream /\ Top(lefts) \in Int /\ Top(rights) \in Int
    BY <1>1 DEF Types, RangesInv, Top
  <2>2. part.L \in Int /\ part.R \in Int /\ part.pivot \in Int
    BY DEF Types
  <2> QED BY <1>1, <2>1, <2>2, StreamAssumption
<1>3. PICK r \in (part.L - 1)..part.R :
        /\ r = SkipDown
        /\ \A i \in (r + 1)..part.R : physAddr[i] > part.pivot
        /\ r >= part.L => physAddr[r] <= part.pivot
  BY <1>1, <1>2, SkipDownFinds
<1>4. r \in Int /\ part.L <= r + 1 /\ r <= MaxStream
  BY <1>2, StreamAssumption
<1>5. PICK l \in part.L..(r + 1) :
        /\ l = SkipUp(r)
        /\ \A i \in part.L..(l - 1) : physAddr[i] <= part.pivot
        /\ l <= r => physAddr[l] > part.pivot
  BY <1>2, <1>4, SkipUpFinds
<1>6. l \in Int /\ part.L - 1 <= r /\ r <= part.R /\ part.L <= l /\ l <= r + 1
  BY <1>2, <1>4
<1>7. IF l < r THEN physAddr' = Swapped(l, r) /\ part' = [part EXCEPT !.L = l + 1, !.R = r - 1]
               ELSE part' = [part EXCEPT !.L = l, !.R = r] /\ UNCHANGED physAddr
  BY <1>3, <1>5 DEF PartitionStep
<1>8. l < r \/ l = r + 1
  <2>1. l # r
    <3> SUFFICES ASSUME l = r PROVE FALSE
      OBVIOUS
    <3>1. r >= part.L /\ l <= r /\ r \in StreamIds
      BY <1>2, <1>4, <1>6, StreamAssumption DEF StreamIds
    <3>2. physAddr[r] \in Int
      BY <3>1 DEF Types
    <3>3. physAddr[r] <= part.pivot
      BY <1>3, <3>1
    <3>4. physAddr[r] > part.pivot
      BY <1>5, <3>1
    <3> QED BY <1>2, <3>2, <3>3, <3>4
  <2> QED BY <1>4, <1>6, <2>1
<1>9. \/ l < r /\ physAddr' = Swapped(l, r) /\ part' = [part EXCEPT !.L = l + 1, !.R = r - 1]
      \/ l = r + 1 /\ physAddr' = physAddr /\ part' = [part EXCEPT !.L = l, !.R = r]
  BY <1>4, <1>6, <1>7, <1>8
<1> QED BY <1>3, <1>4, <1>5, <1>6, <1>9

\* The two ranges a partitioned range is split into, the smaller of them on top.
LEMMA SplitRanges ==
  ASSUME Types, RangesInv, PartitionInv, QsortSplit
  PROVE  \E a, b, c, d, P \in Int :
    /\ P = IF part.R = rights[Len(lefts)] THEN rights[Len(lefts)] - 1 ELSE part.R
    /\ part.L = part.R + 1 /\ Len(lefts) \in Nat /\ Len(lefts) >= 1
    /\ lefts[Len(lefts)] - 1 <= P /\ P < rights[Len(lefts)]
    /\ \/ a = lefts[Len(lefts)] /\ b = P /\ c = P + 1 /\ d = rights[Len(lefts)]
       \/ a = P + 1 /\ b = rights[Len(lefts)] /\ c = lefts[Len(lefts)] /\ d = P
    /\ d - c <= b - a
    /\ lefts' \in Seq(Int) /\ rights' \in Seq(Int)
    /\ Len(lefts') = Len(lefts) + 1 /\ Len(rights') = Len(lefts) + 1
    /\ lefts'[Len(lefts)] = a /\ rights'[Len(lefts)] = b /\ lefts'[Len(lefts) + 1] = c /\ rights'[Len(lefts) + 1] = d
    /\ \A i \in 1..(Len(lefts) - 1) : lefts'[i] = lefts[i] /\ rights'[i] = rights[i]
<1> DEFINE n == Len(lefts)
           L == Top(lefts)
           R == Top(rights)
           P == IF part.R = R THEN R - 1 ELSE part.R
<1>1. /\ lefts # <<>> /\ L < R /\ L <= part.L /\ part.L <= part.R + 1 /\ part.R <= R
      /\ part.L > part.R /\ part.L \in Int /\ part.R \in Int
      /\ n \in Nat /\ n >= 1 /\ Len(rights) = n /\ rights # <<>>
  BY DEF Types, PartitionInv, QsortSplit
<1>2. L = lefts[n] /\ R = rights[n] /\ L \in Int /\ R \in Int
  BY <1>1 DEF Types, Top
<1>3. P \in Int /\ L - 1 <= P /\ P < R /\ part.L = part.R + 1
  BY <1>1, <1>2
<1>4. PICK a, b, c, d \in Int :
        /\ \/ a = L /\ b = P /\ c = P + 1 /\ d = R
           \/ a = P + 1 /\ b = R /\ c = L /\ d = P
        /\ d - c <= b - a
        /\ lefts' = Append(Append(Below(lefts), a), c)
        /\ rights' = Append(Append(Below(rights), b), d)
  <2>1. CASE RightIsSmaller(L, P, R)
    <3>1. /\ lefts' = Append(Append(Below(lefts), L), P + 1)
          /\ rights' = Append(Append(Below(rights), P), R)
      BY <2>1 DEF QsortSplit
    <3>2. R - (P + 1) <= P - L /\ P + 1 \in Int
      BY SMTT(30), <2>1, <1>2, <1>3 DEF RightIsSmaller
    <3> QED BY <1>2, <1>3, <3>1, <3>2
  <2>2. CASE ~RightIsSmaller(L, P, R)
    <3>1. /\ lefts' = Append(Append(Below(lefts), P + 1), L)
          /\ rights' = Append(Append(Below(rights), R), P)
      BY <2>2 DEF QsortSplit
    <3>2. P - L <= R - (P + 1) /\ P + 1 \in Int
      BY SMTT(30), <2>2, <1>2, <1>3 DEF RightIsSmaller
    <3> QED BY <1>2, <1>3, <3>1, <3>2
  <2> QED BY <2>1, <2>2
<1>5. /\ lefts' \in Seq(Int) /\ Len(lefts') = n + 1 /\ lefts'[n] = a /\ lefts'[n + 1] = c
      /\ \A i \in 1..(n - 1) : lefts'[i] = lefts[i]
  <2>1. lefts \in Seq(Int) /\ lefts # <<>> /\ lefts' = Append(Append(Below(lefts), a), c)
    BY <1>1, <1>4 DEF Types
  <2> QED BY SMTT(30), <1>1, <2>1, ReplaceTop
<1>6. /\ rights' \in Seq(Int) /\ Len(rights') = n + 1 /\ rights'[n] = b /\ rights'[n + 1] = d
      /\ \A i \in 1..(n - 1) : rights'[i] = rights[i]
  <2>1. rights \in Seq(Int) /\ rights # <<>> /\ rights' = Append(Append(Below(rights), b), d)
    BY <1>1, <1>4 DEF Types
  <2> QED BY <1>1, <2>1, ReplaceTop
<1>7. P = IF part.R = rights[n] THEN rights[n] - 1 ELSE part.R
  BY <1>2
<1> HIDE DEF P
<1> WITNESS a \in Int, b \in Int, c \in Int, d \in Int, P \in Int
<1> QED BY <1>1, <1>2, <1>3, <1>4, <1>5, <1>6, <1>7

\* The stack of the quicksort, in the state and after the step: its types, its ranges, what
\* partition does to the one on top, and what halving does to their sizes.
StackInv == Types /\ RangesInv /\ PartitionInv /\ HalvingInv

\* No range is on the stack before the first sort.
LEMMA StackInit == StreamsInit => StackInv
<1> SUFFICES ASSUME StreamsInit PROVE StackInv
  OBVIOUS
<1>1. lefts = <<>> /\ rights = <<>> /\ Len(lefts) = 0
  BY DEF StreamsInit
<1>2. Types
  BY <1>1, StreamAssumption DEF StreamsInit, Types, NoPart, StreamIds
<1>3. PartitionInv
  BY DEF StreamsInit, PartitionInv
<1>4. RangesInv /\ HalvingInv
  BY <1>1 DEF RangesInv, HalvingInv
<1> QED BY <1>2, <1>3, <1>4 DEF StackInv

\* A step that leaves the sort alone leaves its stack as it is.
LEMMA StackFrame ==
  ASSUME StackInv, UNCHANGED sortVars, pc' # "partition",
         physAddr' \in [StreamIds -> Int], contexts' \in [StreamIds -> Int],
         lastStream' \in 0..MaxStream, pc' \in {"none", "qsort", "partition", "ready"}
  PROVE  StackInv'
<1>1. lefts' = lefts /\ rights' = rights /\ part' = part
  BY DEF sortVars
<1>2. Types'
  BY <1>1 DEF StackInv, Types
<1>3. PartitionInv'
  BY DEF PartitionInv
<1>4. RangesInv' /\ HalvingInv'
  BY <1>1 DEF StackInv, RangesInv, HalvingInv
<1> QED BY <1>2, <1>3, <1>4 DEF StackInv

\* A sort starts with one range, which is at most as long as its depth allows.
LEMMA StackStart == StackInv /\ AllocStreamsContextArray => StackInv'
<1> SUFFICES ASSUME StackInv, AllocStreamsContextArray PROVE StackInv'
  OBVIOUS
<1>1. lefts' = <<1>> /\ rights' = <<MaxStream>> /\ part' = NoPart /\ pc' = "qsort"
      /\ UNCHANGED <<contexts, lastStream>> /\ physAddr' \in [StreamIds -> Addresses]
  BY DEF AllocStreamsContextArray
<1>2. MaxStream \in Int /\ MaxStream >= 1
  BY StreamAssumption
<1>3. \A address \in Addresses : address \in Int
  BY StreamAssumption DEF Addresses
<1>4. Types'
  <2>1. lefts' \in Seq(Int) /\ rights' \in Seq(Int) /\ Len(lefts') = 1 /\ Len(rights') = 1
    BY <1>1, <1>2
  <2>2. physAddr' \in [StreamIds -> Int]
    BY <1>1, <1>3
  <2> QED BY <1>1, <2>1, <2>2 DEF StackInv, Types, NoPart
<1>5. PartitionInv'
  BY <1>1 DEF PartitionInv
<1>6. Len(lefts') = 1 /\ lefts'[1] = 1 /\ rights'[1] = MaxStream /\ 1..Len(lefts') = {1}
  BY <1>1
<1>7. RangesInv'
  BY <1>2, <1>6 DEF RangesInv
<1>8. HalvingInv'
  <2>1. (MaxStream - 1 + 1) * Pow2[1 - 1] = MaxStream
    BY <1>2, PowerStep
  <2> QED BY <1>2, <1>6, <2>1 DEF HalvingInv
<1> QED BY <1>4, <1>5, <1>7, <1>8 DEF StackInv

\* Taking the top range off the stack leaves the others as they were.
LEMMA StackPop == StackInv /\ QsortPop => StackInv'
<1> SUFFICES ASSUME StackInv, QsortPop PROVE StackInv'
  OBVIOUS
<1> DEFINE n == Len(lefts)
<1>1. /\ pc = "qsort" /\ lefts # <<>> /\ lefts' = Below(lefts) /\ rights' = Below(rights)
      /\ UNCHANGED <<physAddr, part, pc, contexts, lastStream>>
  BY DEF QsortPop, sortUnchanged
<1>2. lefts \in Seq(Int) /\ rights \in Seq(Int) /\ Len(rights) = n /\ n \in Nat /\ n >= 1 /\ rights # <<>>
  BY <1>1 DEF StackInv, Types
<1>3. /\ lefts' \in Seq(Int) /\ rights' \in Seq(Int) /\ Len(lefts') = n - 1 /\ Len(rights') = n - 1
      /\ \A i \in 1..(n - 1) : lefts'[i] = lefts[i] /\ rights'[i] = rights[i]
  BY <1>1, <1>2, DropTop
<1>4. Types'
  BY <1>1, <1>3 DEF StackInv, Types
<1>5. PartitionInv'
  BY <1>1 DEF PartitionInv
<1>6. \A i \in 1..(n - 1) : i \in 1..n
  BY <1>2
<1>7. RangesInv' /\ HalvingInv'
  BY <1>3, <1>6 DEF StackInv, RangesInv, HalvingInv
<1> QED BY <1>4, <1>5, <1>7 DEF StackInv

\* Partition starts inside the range that was taken off.
LEMMA StackPartition == StackInv /\ QsortPartition => StackInv'
<1> SUFFICES ASSUME StackInv, QsortPartition PROVE StackInv'
  OBVIOUS
<1> DEFINE n == Len(lefts)
<1>1. /\ lefts # <<>> /\ Top(lefts) < Top(rights)
      /\ part' = [L |-> Top(lefts), R |-> Top(rights), pivot |-> physAddr[Top(rights)]]
      /\ pc' = "partition" /\ UNCHANGED <<physAddr, lefts, rights, contexts, lastStream>>
  BY DEF QsortPartition, sortUnchanged
<1>2. lefts \in Seq(Int) /\ rights \in Seq(Int) /\ Len(rights) = n /\ n \in 1..n
  BY <1>1 DEF StackInv, Types
<1>3. Top(lefts) \in Int /\ Top(rights) \in Int /\ 1 <= Top(lefts) /\ Top(rights) <= MaxStream
  BY <1>2 DEF StackInv, RangesInv, Top
<1>4. Top(rights) \in StreamIds
  BY <1>1, <1>3, StreamAssumption DEF StreamIds
<1>5. Types'
  BY <1>1, <1>3, <1>4 DEF StackInv, Types
<1>6. PartitionInv'
  <2>1. Top(lefts)' = Top(lefts) /\ Top(rights)' = Top(rights)
    BY <1>1 DEF Top
  <2> QED BY <1>1, <1>3, <2>1 DEF PartitionInv
<1>7. RangesInv' /\ HalvingInv'
  BY <1>1 DEF StackInv, RangesInv, HalvingInv
<1> QED BY <1>5, <1>6, <1>7 DEF StackInv

\* A turn of partition's loop keeps its pointers inside the range.
LEMMA StackTurn == StackInv /\ PartitionStep => StackInv'
<1> SUFFICES ASSUME StackInv, PartitionStep PROVE StackInv'
  OBVIOUS
<1> DEFINE n == Len(lefts)
<1>1. Types /\ RangesInv /\ PartitionInv
  BY DEF StackInv
<1>2. pc = "partition" /\ UNCHANGED <<lefts, rights, pc, contexts, lastStream>>
  BY DEF PartitionStep, sortUnchanged
<1>3. lefts # <<>> /\ Top(lefts) < Top(rights) /\ Top(lefts) <= part.L /\ part.R <= Top(rights)
  BY <1>1, <1>2 DEF PartitionInv
<1>4. lefts \in Seq(Int) /\ rights \in Seq(Int) /\ Len(rights) = n /\ n \in 1..n
      /\ part \in [L : Int, R : Int, pivot : Int]
  BY <1>1, <1>3 DEF Types
<1>5. Top(lefts) \in Int /\ Top(rights) \in Int /\ 1 <= Top(lefts) /\ Top(rights) <= MaxStream
  BY <1>1, <1>4 DEF RangesInv, Top
<1>6. PICK l, r \in Int :
        /\ part.L - 1 <= r /\ r <= part.R /\ part.L <= l /\ l <= r + 1
        /\ \/ l < r /\ physAddr' = Swapped(l, r) /\ part' = [part EXCEPT !.L = l + 1, !.R = r - 1]
           \/ l = r + 1 /\ physAddr' = physAddr /\ part' = [part EXCEPT !.L = l, !.R = r]
  BY <1>1, PartitionTurn
<1>7. /\ part' \in [L : Int, R : Int, pivot : Int]
      /\ part.L <= part'.L /\ part'.L <= part'.R + 1 /\ part'.R <= part.R
  <2>1. part = [L |-> part.L, R |-> part.R, pivot |-> part.pivot]
        /\ part.L \in Int /\ part.R \in Int /\ part.pivot \in Int
    BY <1>4
  <2>2. \/ l < r /\ part' = [L |-> l + 1, R |-> r - 1, pivot |-> part.pivot]
        \/ l = r + 1 /\ part' = [L |-> l, R |-> r, pivot |-> part.pivot]
    BY <1>6, <2>1
  <2>3. CASE l < r /\ part' = [L |-> l + 1, R |-> r - 1, pivot |-> part.pivot]
    BY <1>6, <2>1, <2>3
  <2>4. CASE l = r + 1 /\ part' = [L |-> l, R |-> r, pivot |-> part.pivot]
    BY <1>6, <2>1, <2>4
  <2> QED BY <2>2, <2>3, <2>4
<1>8. physAddr' \in [StreamIds -> Int]
  <2>1. physAddr \in [StreamIds -> Int]
    BY <1>1 DEF Types
  <2>2. CASE l < r /\ physAddr' = Swapped(l, r)
    <3>1. l \in StreamIds /\ r \in StreamIds
      BY SMTT(30), <1>3, <1>4, <1>5, <1>6, <2>2, StreamAssumption DEF StreamIds
    <3> QED BY <2>1, <2>2, <3>1 DEF Swapped
  <2> QED BY <1>6, <2>1, <2>2
<1>9. Types'
  BY <1>1, <1>2, <1>7, <1>8 DEF Types
<1>10. PartitionInv'
  <2>1. Top(lefts)' = Top(lefts) /\ Top(rights)' = Top(rights)
    BY <1>2 DEF Top
  <2> QED BY <1>2, <1>3, <1>4, <1>5, <1>7, <2>1 DEF PartitionInv
<1>11. RangesInv' /\ HalvingInv'
  BY <1>2 DEF StackInv, RangesInv, HalvingInv
<1> QED BY <1>9, <1>10, <1>11 DEF StackInv

\* The larger part goes under the smaller one, which is at most half of the range.
LEMMA StackSplit == StackInv /\ QsortSplit => StackInv'
<1> SUFFICES ASSUME StackInv, QsortSplit PROVE StackInv'
  OBVIOUS
<1> DEFINE n == Len(lefts)
<1>1. Types /\ RangesInv /\ PartitionInv
  BY DEF StackInv
<1>2. PICK a, b, c, d, P \in Int :
        /\ P = IF part.R = rights[Len(lefts)] THEN rights[Len(lefts)] - 1 ELSE part.R
        /\ part.L = part.R + 1 /\ Len(lefts) \in Nat /\ Len(lefts) >= 1
        /\ lefts[Len(lefts)] - 1 <= P /\ P < rights[Len(lefts)]
        /\ \/ a = lefts[Len(lefts)] /\ b = P /\ c = P + 1 /\ d = rights[Len(lefts)]
           \/ a = P + 1 /\ b = rights[Len(lefts)] /\ c = lefts[Len(lefts)] /\ d = P
        /\ d - c <= b - a
        /\ lefts' \in Seq(Int) /\ rights' \in Seq(Int)
        /\ Len(lefts') = Len(lefts) + 1 /\ Len(rights') = Len(lefts) + 1
        /\ lefts'[Len(lefts)] = a /\ rights'[Len(lefts)] = b /\ lefts'[Len(lefts) + 1] = c /\ rights'[Len(lefts) + 1] = d
        /\ \A i \in 1..(Len(lefts) - 1) : lefts'[i] = lefts[i] /\ rights'[i] = rights[i]
  BY <1>1, SplitRanges
<1>n. /\ n \in Nat /\ n >= 1 /\ lefts[n] - 1 <= P /\ P < rights[n] /\ d - c <= b - a
      /\ \/ a = lefts[n] /\ b = P /\ c = P + 1 /\ d = rights[n]
         \/ a = P + 1 /\ b = rights[n] /\ c = lefts[n] /\ d = P
  BY <1>2
<1>s. /\ lefts' \in Seq(Int) /\ rights' \in Seq(Int) /\ Len(lefts') = n + 1 /\ Len(rights') = n + 1
      /\ lefts'[n] = a /\ rights'[n] = b /\ lefts'[n + 1] = c /\ rights'[n + 1] = d
      /\ \A i \in 1..(n - 1) : lefts'[i] = lefts[i] /\ rights'[i] = rights[i]
  BY <1>2
<1> HIDE DEF n
<1>3. pc' = "qsort" /\ part' = NoPart /\ UNCHANGED <<physAddr, contexts, lastStream>>
  BY DEF QsortSplit, sortUnchanged
<1>4. Types'
  BY <1>1, <1>s, <1>3 DEF Types, NoPart
<1>5. PartitionInv'
  BY <1>3 DEF PartitionInv
<1>6. /\ lefts[n] \in Int /\ rights[n] \in Int
      /\ 1 <= lefts[n] /\ rights[n] <= MaxStream /\ MaxStream \in Nat
      /\ (rights[n] - lefts[n] + 1) * Pow2[n - 1] <= MaxStream
  <2>1. n \in 1..n /\ lefts \in Seq(Int) /\ rights \in Seq(Int) /\ Len(rights) = n
    BY <1>1, <1>n DEF Types, n
  <2> QED BY <2>1, StreamAssumption DEF StackInv, RangesInv, HalvingInv, n
<1>7. ASSUME NEW i \in 1..(n + 1), i < n
      PROVE  i \in 1..n /\ lefts'[i] = lefts[i] /\ rights'[i] = rights[i]
  BY SMTT(30), <1>n, <1>s, <1>7
<1>8. RangesInv'
  <2> SUFFICES ASSUME NEW i \in 1..(n + 1)
               PROVE  1 <= lefts'[i] /\ lefts'[i] <= rights'[i] + 1 /\ rights'[i] <= MaxStream
    BY <1>s DEF RangesInv
  <2>1. CASE i < n
    BY <1>1, <1>7, <2>1 DEF RangesInv, n
  <2>2. CASE i = n
    <3>1. 1 <= a /\ a <= b + 1 /\ b <= MaxStream
      BY <1>n, <1>6
    <3> QED BY <1>s, <2>2, <3>1
  <2>3. CASE i = n + 1
    <3>1. 1 <= c /\ c <= d + 1 /\ d <= MaxStream
      BY <1>n, <1>6
    <3> QED BY <1>s, <2>3, <3>1
  <2> QED BY <1>n, <2>1, <2>2, <2>3
<1>9. HalvingInv'
  <2>1. n - 1 \in Nat /\ (n - 1) + 1 = n /\ (n + 1) - 1 = n
    BY <1>n
  <2> DEFINE p == Pow2[n - 1]
             size == rights[n] - lefts[n] + 1
  <2>2. p \in Nat /\ Pow2[n] = 2 * p
    BY <2>1, PowerStep, Powers
  <2>3. size \in Int /\ b - a + 1 <= size /\ 2 * (d - c + 1) <= size
    BY <1>n, <1>6
  <2>4. (b - a + 1) * p <= MaxStream
    <3>1. b - a + 1 \in Int /\ (b - a + 1) * p <= size * p
      BY <2>2, <2>3, SmallerProduct
    <3>2. (b - a + 1) * p \in Int /\ size * p \in Int
      BY <2>2, <2>3, <3>1
    <3> HIDE DEF p, size
    <3>3. size * p <= MaxStream
      BY <1>6 DEF p, size
    <3> QED BY <1>6, <3>1, <3>2, <3>3
  <2>5. (d - c + 1) * Pow2[n] <= MaxStream
    <3> DEFINE half == d - c + 1
    <3>0. half \in Int
      OBVIOUS
    <3>1. (2 * half) * p <= size * p
      BY <2>2, <2>3, <3>0, SmallerProduct
    <3>2. half * (2 * p) = (2 * half) * p
      BY <2>2, <3>0
    <3> HIDE DEF p, size, half
    <3>3. size * p <= MaxStream
      BY <1>6 DEF p, size
    <3>4. (2 * half) * p \in Int /\ size * p \in Int
      BY <2>2, <2>3, <3>0
    <3>5. half * Pow2[n] <= MaxStream
      BY <1>6, <2>2, <3>1, <3>2, <3>3, <3>4
    <3> QED BY <3>5 DEF half
  <2> SUFFICES ASSUME NEW i \in 1..(n + 1)
               PROVE  (rights'[i] - lefts'[i] + 1) * Pow2[i - 1] <= MaxStream
    BY <1>s DEF HalvingInv
  <2>6. CASE i < n
    BY <1>7, <2>6 DEF StackInv, HalvingInv, n
  <2>7. CASE i = n
    BY <1>s, <2>4, <2>7
  <2>8. CASE i = n + 1
    BY <1>s, <2>1, <2>5, <2>8
  <2> QED BY <1>n, <2>6, <2>7, <2>8
<1> QED BY <1>4, <1>5, <1>8, <1>9 DEF StackInv

\* A range that is split has two entries or more, so that its depth is below StackSize.
LEMMA RoomToSplit == StackInv /\ QsortSplit => Len(lefts) < StackSize
<1> SUFFICES ASSUME StackInv, QsortSplit, Len(lefts) >= StackSize PROVE FALSE
  <2>1. Len(lefts) \in Nat /\ StackSize \in Nat
    BY StackAssumption DEF StackInv, Types
  <2> QED BY <2>1
<1> DEFINE n == Len(lefts)
<1>1. lefts # <<>> /\ Top(lefts) < Top(rights)
  BY DEF StackInv, PartitionInv, QsortSplit
<1>2. n \in Nat /\ n \in 1..n /\ lefts[n] \in Int /\ rights[n] \in Int
  BY <1>1 DEF StackInv, Types
<1>3. lefts[n] < rights[n]
  BY <1>1, <1>2 DEF Top, StackInv, Types
<1>4. n - 1 \in Nat /\ (n - 1) + 1 = n
  BY <1>2
<1> DEFINE p == Pow2[n - 1]
           size == rights[n] - lefts[n] + 1
<1>5. p \in Nat /\ Pow2[n] = 2 * p /\ Pow2[StackSize] <= Pow2[n] /\ Pow2[StackSize] \in Nat
  BY <1>2, <1>4, PowerStep, Powers, StackAssumption
<1>6. size * p <= MaxStream
  BY <1>2 DEF StackInv, HalvingInv
<1>7. size \in Int /\ 2 <= size
  BY <1>2, <1>3
<1> HIDE DEF p, size, n
<1>8. 2 * p <= size * p
  BY <1>5, <1>7, SmallerProduct
<1>9. size * p \in Int
  BY <1>5, <1>7
<1> QED BY <1>5, <1>6, <1>8, <1>9, StackAssumption, StreamAssumption

\* The bounds of the ranges on the stack are inductive.
LEMMA StackStep == StackInv /\ [StreamsNext]_streamVars => StackInv'
<1> SUFFICES ASSUME StackInv, [StreamsNext]_streamVars PROVE StackInv'
  OBVIOUS
<1>1. Types
  BY DEF StackInv
<1>2. CASE AllocStreamsContextArray
  BY <1>2, StackStart
<1>3. CASE QsortPop
  BY <1>3, StackPop
<1>4. CASE QsortPartition
  BY <1>4, StackPartition
<1>5. CASE PartitionStep
  BY <1>5, StackTurn
<1>6. CASE QsortSplit
  BY <1>6, StackSplit
<1>7. CASE InitRings
  <2>1. contexts' = physAddr /\ pc' = "ready" /\ UNCHANGED <<physAddr, lastStream, sortVars>>
    BY <1>7 DEF InitRings
  <2> QED BY <1>1, <2>1, StackFrame DEF Types
<1>8. CASE UIMCreateStreams
  <2>1. pc = "ready" /\ UNCHANGED <<physAddr, contexts, sortVars, pc>>
    BY <1>8 DEF UIMCreateStreams
  <2>2. lastStream' \in 0..MaxStream
    BY <1>8, StreamAssumption DEF UIMCreateStreams, CreateStreamsSucceeds, CreateStreamsFails, StreamIds
  <2> QED BY <1>1, <2>1, <2>2, StackFrame DEF Types
<1>9. CASE DeleteStreams
  <2>1. /\ physAddr' = [s \in StreamIds |-> 0] /\ contexts' = [s \in StreamIds |-> 0]
        /\ lastStream' = 0 /\ pc' = "none" /\ UNCHANGED sortVars
    BY <1>9 DEF DeleteStreams
  <2>2. physAddr' \in [StreamIds -> Int] /\ contexts' \in [StreamIds -> Int] /\ lastStream' \in 0..MaxStream
    BY <2>1, StreamAssumption
  <2> QED BY <2>1, <2>2, StackFrame
<1>10. CASE UNCHANGED streamVars
  BY <1>10 DEF streamVars, sortVars, StackInv, Types, RangesInv, PartitionInv, HalvingInv, Top
<1> QED BY <1>2, <1>3, <1>4, <1>5, <1>6, <1>7, <1>8, <1>9, <1>10 DEF StreamsNext

\* With those bounds the stack is deep enough after every step.
LEMMA StackRoomStep == StackInv /\ StackSuffices /\ [StreamsNext]_streamVars => StackSuffices'
<1> SUFFICES ASSUME StackInv, StackSuffices, [StreamsNext]_streamVars PROVE Len(lefts') <= StackSize
  BY DEF StackSuffices
<1>1. StackSize \in Nat /\ Types /\ Len(lefts) \in Nat /\ Len(lefts) <= StackSize
  BY StackAssumption DEF StackInv, Types, StackSuffices
<1>2. CASE AllocStreamsContextArray
  <2>1. Len(lefts') = 1
    BY <1>2 DEF AllocStreamsContextArray
  <2>2. StackSize # 0
    BY PowerStep, StackAssumption, StreamAssumption
  <2> QED BY <1>1, <2>1, <2>2
<1>3. CASE QsortPop
  <2>1. Len(lefts') = Len(lefts) - 1
    BY <1>1, <1>3, DropTop DEF QsortPop, Types
  <2> QED BY <1>1, <2>1
<1>4. CASE QsortSplit
  <2>1. Len(lefts') = Len(lefts) + 1
    BY <1>1, <1>4, SplitRanges DEF StackInv
  <2> QED BY <1>1, <1>4, <2>1, RoomToSplit
<1>5. CASE lefts' = lefts
  BY <1>1, <1>5
<1> QED
  <2>1. \/ AllocStreamsContextArray \/ QsortPop \/ QsortSplit \/ lefts' = lefts
    BY DEF StreamsNext, streamVars, sortVars, QsortPartition, PartitionStep, InitRings, UIMCreateStreams, DeleteStreams
  <2> QED BY <1>2, <1>3, <1>4, <1>5, <2>1

\* Each range at depth i has at most MaxStream / 2^(i - 1) entries and one that is split has
\* two or more: whatever order the pages come in, the quicksort never needs more entries than
\* lefts[] and rights[] have (qsort, Streams.cpp).
THEOREM StackNeverExceeded == StreamsSpec => []StackSuffices
<1>1. StreamsInit => StackInv /\ StackSuffices
  <2>1. StreamsInit => Len(lefts) = 0
    BY DEF StreamsInit
  <2> QED BY <2>1, StackInit, StackAssumption DEF StackSuffices
<1>2. StackInv /\ StackSuffices /\ [StreamsNext]_streamVars => StackInv' /\ StackSuffices'
  BY StackStep, StackRoomStep
<1> QED BY <1>1, <1>2, PTL DEF StreamsSpec

\* What a failed UIMCreateStreams made is undone in full and what DeleteStreams leaves is
\* nothing: the streams with an endpoint are always the ones in use.
THEOREM NothingLeftBehind == StreamsSpec => []NoStreamLeftBehind
<1>1. StreamsInit => NoStreamLeftBehind
  BY DEF StreamsInit, NoStreamLeftBehind
<1>2. NoStreamLeftBehind /\ [StreamsNext]_streamVars => NoStreamLeftBehind'
  <2> SUFFICES ASSUME used = 1..lastStream, [StreamsNext]_streamVars PROVE used' = 1..lastStream'
    BY DEF NoStreamLeftBehind
  <2>1. CASE UIMCreateStreams
    <3>1. used = {}
      BY <2>1 DEF UIMCreateStreams
    <3>2. PICK maxStream \in StreamIds : CreateStreamsSucceeds(maxStream) \/ CreateStreamsFails(maxStream)
      BY <2>1 DEF UIMCreateStreams
    <3>3. CASE CreateStreamsSucceeds(maxStream)
      BY <3>1, <3>3 DEF CreateStreamsSucceeds
    <3>4. CASE CreateStreamsFails(maxStream)
      BY <3>1, <3>4 DEF CreateStreamsFails, Cleaned
    <3> QED BY <3>2, <3>3, <3>4
  <2>2. CASE DeleteStreams
    BY <2>2 DEF DeleteStreams
  <2>3. CASE used' = used /\ lastStream' = lastStream
    BY <2>3
  <2> QED BY <2>1, <2>2, <2>3 DEF StreamsNext, streamVars, AllocStreamsContextArray, QsortPop, QsortPartition,
             PartitionStep, QsortSplit, InitRings, sortUnchanged
<1> QED BY <1>1, <1>2, PTL DEF StreamsSpec

-----------------------------------------------------------------------------
(* The quicksort sorts.                                                    *)

\* Each ring has a page of its own.
OwnPages ==
  /\ physAddr \in [StreamIds -> Addresses]
  /\ \A s, t \in StreamIds : s # t => physAddr[s] # physAddr[t]

\* No two ranges of the stack have an entry in common.
Apart ==
  \A i, j \in 1..Len(lefts) : i # j => rights[i] < lefts[j] \/ rights[j] < lefts[i]

\* Two entries out of order are in one range, which is still to be sorted.
Ordered ==
  \A s, t \in StreamIds : s < t =>
    physAddr[s] < physAddr[t] \/ \E i \in 1..Len(lefts) : lefts[i] <= s /\ t <= rights[i]

\* What partition has done of the range on top.
Pivoted ==
  /\ \A i \in Top(lefts)..(part.L - 1) : physAddr[i] <= part.pivot
  /\ \A i \in (part.R + 1)..Top(rights) : physAddr[i] > part.pivot
  /\ part.R = Top(rights) => physAddr[Top(rights)] = part.pivot

Sorted ==
  /\ contexts = physAddr
  /\ \A s, t \in StreamIds : s < t => physAddr[s] < physAddr[t]

SortInv ==
  /\ pc # "none" => OwnPages
  /\ pc \in {"qsort", "partition"} => Apart /\ Ordered
  /\ pc = "partition" => Pivoted
  /\ pc = "ready" => Sorted

\* Before anything is split one range holds everything, so nothing is out of place.
LEMMA SortStart == AllocStreamsContextArray => SortInv'
<1> SUFFICES ASSUME AllocStreamsContextArray PROVE SortInv'
  OBVIOUS
<1>1. lefts' = <<1>> /\ rights' = <<MaxStream>> /\ pc' = "qsort"
  BY DEF AllocStreamsContextArray
<1>2. OwnPages'
  BY DEF AllocStreamsContextArray, OwnPages
<1>3. Len(lefts') = 1 /\ lefts'[1] = 1 /\ rights'[1] = MaxStream /\ 1..Len(lefts') = {1}
  BY <1>1
<1>4. Apart'
  BY <1>3 DEF Apart
<1>5. Ordered'
  BY <1>3, StreamAssumption DEF Ordered, StreamIds
<1> QED BY <1>1, <1>2, <1>4, <1>5 DEF SortInv

\* A range of one ring is in order; a longer one is about to be partitioned.
LEMMA SortPop == StackInv /\ SortInv /\ QsortPop => SortInv'
<1> SUFFICES ASSUME StackInv, SortInv, QsortPop PROVE SortInv'
  OBVIOUS
<1> DEFINE n == Len(lefts)
<1>1. /\ pc = "qsort" /\ lefts # <<>> /\ lefts' = Below(lefts) /\ rights' = Below(rights)
      /\ Top(lefts) >= Top(rights) /\ physAddr' = physAddr /\ pc' = pc
  BY DEF QsortPop
<1>2. lefts \in Seq(Int) /\ rights \in Seq(Int) /\ Len(rights) = n /\ n \in Nat /\ n >= 1 /\ rights # <<>>
      /\ n \in 1..n
  BY <1>1 DEF StackInv, Types
<1>3. /\ Len(lefts') = n - 1
      /\ \A i \in 1..(n - 1) : lefts'[i] = lefts[i] /\ rights'[i] = rights[i]
  BY <1>1, <1>2, DropTop
<1>4. lefts[n] >= rights[n] /\ lefts[n] \in Int /\ rights[n] \in Int
  BY <1>1, <1>2 DEF Top
<1>5. OwnPages'
  BY <1>1 DEF SortInv, OwnPages
<1>6. \A i \in 1..(n - 1) : i \in 1..n
  BY <1>2
<1>7. Apart'
  BY <1>1, <1>3, <1>6 DEF SortInv, Apart
<1>8. Ordered'
  <2> SUFFICES ASSUME NEW s \in StreamIds, NEW t \in StreamIds, s < t, ~(physAddr[s] < physAddr[t])
               PROVE  \E i \in 1..(n - 1) : lefts'[i] <= s /\ t <= rights'[i]
    BY <1>1, <1>3 DEF Ordered
  <2>1. PICK i \in 1..n : lefts[i] <= s /\ t <= rights[i]
    BY <1>1 DEF SortInv, Ordered
  <2>2. i # n
    BY <1>4, <2>1, StreamAssumption DEF StreamIds
  <2>3. i \in 1..(n - 1)
    BY <1>2, <2>1, <2>2
  <2> QED BY <1>3, <2>1, <2>3
<1> QED BY <1>1, <1>5, <1>7, <1>8 DEF SortInv

\* Partition starts with nothing yet on either side of the pivot.
LEMMA SortPartition == StackInv /\ SortInv /\ QsortPartition => SortInv'
<1> SUFFICES ASSUME StackInv, SortInv, QsortPartition PROVE SortInv'
  OBVIOUS
<1>1. /\ lefts # <<>> /\ Top(lefts) < Top(rights) /\ pc = "qsort"
      /\ part' = [L |-> Top(lefts), R |-> Top(rights), pivot |-> physAddr[Top(rights)]]
      /\ pc' = "partition" /\ physAddr' = physAddr /\ lefts' = lefts /\ rights' = rights
  BY DEF QsortPartition
<1>2. OwnPages' /\ Apart' /\ Ordered'
  BY <1>1 DEF SortInv, OwnPages, Apart, Ordered
<1>3. Top(lefts) \in Int /\ Top(rights) \in Int
  BY <1>1 DEF StackInv, Types, Top
<1>4. Top(lefts)' = Top(lefts) /\ Top(rights)' = Top(rights)
  BY <1>1 DEF Top
<1>5. Pivoted'
  BY <1>1, <1>3, <1>4 DEF Pivoted
<1> QED BY <1>1, <1>2, <1>5 DEF SortInv

\* Entries of the range on top may be exchanged: they are in the same order with every entry
\* outside of it.
LEMMA OutsideTheTop ==
  ASSUME Types, RangesInv, Apart, Ordered, lefts # <<>>,
         NEW s \in StreamIds, NEW t \in StreamIds,
         Top(lefts) <= t, t <= Top(rights)
  PROVE  /\ s < Top(lefts) => physAddr[s] < physAddr[t]
         /\ s > Top(rights) => physAddr[t] < physAddr[s]
<1> DEFINE n == Len(lefts)
<1>1. n \in Nat /\ n \in 1..n /\ Top(lefts) = lefts[n] /\ Top(rights) = rights[n]
      /\ lefts \in Seq(Int) /\ rights \in Seq(Int) /\ Len(rights) = n
  BY DEF Types, Top
<1>2. \A i \in 1..n : lefts[i] \in Int /\ rights[i] \in Int
  BY <1>1
<1>3. s \in Int /\ t \in Int
  BY StreamAssumption DEF StreamIds
<1>4. ASSUME s < Top(lefts) PROVE physAddr[s] < physAddr[t]
  <2> SUFFICES ASSUME ~(physAddr[s] < physAddr[t]) PROVE FALSE
    OBVIOUS
  <2>1. s < t
    BY <1>1, <1>2, <1>3, <1>4
  <2>2. PICK i \in 1..n : lefts[i] <= s /\ t <= rights[i]
    BY <2>1 DEF Ordered
  <2>3. i = n \/ rights[i] < lefts[n] \/ rights[n] < lefts[i]
    BY <1>1 DEF Apart
  <2> HIDE DEF n
  <2> QED BY <1>1, <1>2, <1>3, <1>4, <2>2, <2>3, SMTT(30)
<1>5. ASSUME s > Top(rights) PROVE physAddr[t] < physAddr[s]
  <2> SUFFICES ASSUME ~(physAddr[t] < physAddr[s]) PROVE FALSE
    OBVIOUS
  <2>1. t < s
    BY <1>1, <1>2, <1>3, <1>5
  <2>2. PICK i \in 1..n : lefts[i] <= t /\ s <= rights[i]
    BY <2>1 DEF Ordered
  <2>3. i = n \/ rights[i] < lefts[n] \/ rights[n] < lefts[i]
    BY <1>1 DEF Apart
  <2> HIDE DEF n
  <2> QED BY <1>1, <1>2, <1>3, <1>5, <2>2, <2>3
<1> QED BY <1>4, <1>5

\* Two entries of the range on top exchanged: each ring keeps a page of its own, and what is
\* out of order is still in one range.
LEMMA SwapKeeps ==
  ASSUME Types, RangesInv, Apart, Ordered, OwnPages, lefts # <<>>,
         NEW l \in StreamIds, NEW r \in StreamIds, l # r,
         Top(lefts) <= l, l <= Top(rights), Top(lefts) <= r, r <= Top(rights),
         physAddr' = Swapped(l, r), lefts' = lefts, rights' = rights
  PROVE  /\ OwnPages' /\ Ordered'
         /\ physAddr'[l] = physAddr[r] /\ physAddr'[r] = physAddr[l]
         /\ \A s \in StreamIds : s # l /\ s # r => physAddr'[s] = physAddr[s]
<1> DEFINE n == Len(lefts)
<1>1. /\ physAddr'[l] = physAddr[r] /\ physAddr'[r] = physAddr[l]
      /\ \A s \in StreamIds : s # l /\ s # r => physAddr'[s] = physAddr[s]
  BY DEF Swapped, OwnPages
<1>2. OwnPages'
  <2>1. physAddr' \in [StreamIds -> Addresses]
    BY DEF Swapped, OwnPages
  <2>2. ASSUME NEW s \in StreamIds, NEW t \in StreamIds, s # t
        PROVE  physAddr'[s] # physAddr'[t]
    <3>1. \A x, y \in StreamIds : x # y => physAddr[x] # physAddr[y]
      BY DEF OwnPages
    <3>2. CASE s = l
      BY <1>1, <2>2, <3>1, <3>2
    <3>3. CASE s = r
      BY <1>1, <2>2, <3>1, <3>3
    <3>4. CASE s # l /\ s # r
      BY <1>1, <2>2, <3>1, <3>4
    <3> QED BY <3>2, <3>3, <3>4
  <2> QED BY <2>1, <2>2 DEF OwnPages
<1>3. n \in Nat /\ n \in 1..n /\ Top(lefts) = lefts[n] /\ Top(rights) = rights[n]
      /\ Top(lefts) \in Int /\ Top(rights) \in Int
  BY DEF Types, Top
<1>4. Ordered'
  <2> SUFFICES ASSUME NEW s \in StreamIds, NEW t \in StreamIds, s < t
               PROVE  physAddr'[s] < physAddr'[t] \/ \E i \in 1..n : lefts[i] <= s /\ t <= rights[i]
    BY DEF Ordered
  <2> DEFINE In(x) == Top(lefts) <= x /\ x <= Top(rights)
  <2>0. s \in Int /\ t \in Int
    BY StreamAssumption DEF StreamIds
  <2>1. CASE In(s) /\ In(t)
    BY <1>3, <2>1
  <2>2. CASE ~In(s) /\ ~In(t)
    <3>1. physAddr'[s] = physAddr[s] /\ physAddr'[t] = physAddr[t]
      BY <1>1, <2>2
    <3> QED BY <3>1 DEF Ordered
  <2>3. CASE ~In(s) /\ In(t)
    <3>1. s < Top(lefts)
      BY <1>3, <2>0, <2>3
    <3>2. \E u \in StreamIds : In(u) /\ physAddr'[t] = physAddr[u]
      BY <1>1, <2>3
    <3>3. physAddr'[s] = physAddr[s]
      BY <1>1, <2>3
    <3> QED BY <3>1, <3>2, <3>3, OutsideTheTop
  <2>4. CASE In(s) /\ ~In(t)
    <3>1. t > Top(rights)
      BY <1>3, <2>0, <2>4
    <3>2. \E u \in StreamIds : In(u) /\ physAddr'[s] = physAddr[u]
      BY <1>1, <2>4
    <3>3. physAddr'[t] = physAddr[t]
      BY <1>1, <2>4
    <3> QED BY <3>1, <3>2, <3>3, OutsideTheTop
  <2> QED BY <2>1, <2>2, <2>3, <2>4
<1> QED BY <1>1, <1>2, <1>4

\* A turn of partition's loop puts each ring it passes on its side of the pivot.
LEMMA SortTurn == StackInv /\ SortInv /\ PartitionStep => SortInv'
<1> SUFFICES ASSUME StackInv, SortInv, PartitionStep PROVE SortInv'
  OBVIOUS
<1> DEFINE lo == Top(lefts)
           hi == Top(rights)
<1>1. Types /\ RangesInv /\ PartitionInv /\ OwnPages /\ Apart /\ Ordered /\ Pivoted
  BY DEF StackInv, SortInv, PartitionStep
<1>2. pc = "partition" /\ pc' = "partition" /\ lefts' = lefts /\ rights' = rights
  BY DEF PartitionStep
<1>3. lefts # <<>> /\ lo <= part.L /\ part.L <= part.R + 1 /\ part.R <= hi
  BY <1>1, <1>2 DEF PartitionInv
<1>4. /\ lo \in Int /\ hi \in Int /\ 1 <= lo /\ hi <= MaxStream /\ MaxStream \in Nat
      /\ part = [L |-> part.L, R |-> part.R, pivot |-> part.pivot]
      /\ part.L \in Int /\ part.R \in Int /\ part.pivot \in Int
  <2>1. Len(lefts) \in 1..Len(lefts)
    BY <1>1, <1>3 DEF Types
  <2>2. lo \in Int /\ hi \in Int /\ 1 <= lo /\ hi <= MaxStream
    BY <1>1, <2>1 DEF Types, RangesInv, Top
  <2>3. /\ part = [L |-> part.L, R |-> part.R, pivot |-> part.pivot]
        /\ part.L \in Int /\ part.R \in Int /\ part.pivot \in Int
    BY <1>1 DEF Types
  <2> QED BY <2>2, <2>3, StreamAssumption
<1>5. lo' = lo /\ hi' = hi
  BY <1>2 DEF Top
<1>6. PICK l, r \in Int :
        /\ part.L - 1 <= r /\ r <= part.R /\ part.L <= l /\ l <= r + 1
        /\ \A i \in (r + 1)..part.R : physAddr[i] > part.pivot
        /\ \A i \in part.L..(l - 1) : physAddr[i] <= part.pivot
        /\ r >= part.L => physAddr[r] <= part.pivot
        /\ l <= r => physAddr[l] > part.pivot
        /\ \/ l < r /\ physAddr' = Swapped(l, r) /\ part' = [part EXCEPT !.L = l + 1, !.R = r - 1]
           \/ l = r + 1 /\ physAddr' = physAddr /\ part' = [part EXCEPT !.L = l, !.R = r]
  BY <1>1, PartitionTurn
<1>7. /\ \A i \in lo..(part.L - 1) : physAddr[i] <= part.pivot
      /\ \A i \in (part.R + 1)..hi : physAddr[i] > part.pivot
      /\ part.R = hi => physAddr[hi] = part.pivot
  BY <1>1 DEF Pivoted
<1> HIDE DEF lo, hi
<1>8. ASSUME NEW i \in lo..(l - 1) PROVE physAddr[i] <= part.pivot
  BY <1>4, <1>6, <1>7
<1>9. ASSUME NEW i \in (r + 1)..hi PROVE physAddr[i] > part.pivot
  BY <1>4, <1>6, <1>7
<1>10. Apart'
  BY <1>1, <1>2 DEF Apart
<1>11. CASE l < r /\ physAddr' = Swapped(l, r) /\ part' = [part EXCEPT !.L = l + 1, !.R = r - 1]
  <2>1. l \in StreamIds /\ r \in StreamIds /\ l # r /\ lo <= l /\ l <= hi /\ lo <= r /\ r <= hi
    BY <1>3, <1>4, <1>6, <1>11 DEF StreamIds
  <2>2. /\ OwnPages' /\ Ordered'
        /\ physAddr'[l] = physAddr[r] /\ physAddr'[r] = physAddr[l]
        /\ \A s \in StreamIds : s # l /\ s # r => physAddr'[s] = physAddr[s]
    BY <1>1, <1>2, <1>3, <1>11, <2>1, SwapKeeps DEF lo, hi
  <2>3. part'.L = l + 1 /\ part'.R = r - 1 /\ part'.pivot = part.pivot
    BY <1>4, <1>11
  <2>4. physAddr[r] <= part.pivot /\ physAddr[l] > part.pivot
    BY <1>4, <1>6, <1>11
  <2>5. ASSUME NEW i \in lo..l PROVE physAddr'[i] <= part.pivot
    <3>1. CASE i = l
      BY <2>2, <2>4, <3>1
    <3>2. CASE i # l
      <4>1. i \in lo..(l - 1) /\ i \in StreamIds /\ i # r
        BY <1>4, <1>11, <2>1, <3>2 DEF StreamIds
      <4> QED BY <1>8, <2>2, <3>2, <4>1
    <3> QED BY <3>1, <3>2
  <2>6. ASSUME NEW i \in r..hi PROVE physAddr'[i] > part.pivot
    <3>1. CASE i = r
      BY <2>2, <2>4, <3>1
    <3>2. CASE i # r
      <4>1. i \in (r + 1)..hi /\ i \in StreamIds /\ i # l
        BY <1>4, <1>11, <2>1, <3>2 DEF StreamIds
      <4> QED BY <1>9, <2>2, <3>2, <4>1
    <3> QED BY <3>1, <3>2
  <2>7. part'.L - 1 = l /\ part'.R + 1 = r /\ part'.R # hi
    BY <1>4, <2>1, <2>3
  <2>8. Pivoted'
    BY <1>5, <2>3, <2>5, <2>6, <2>7 DEF Pivoted, lo, hi
  <2> QED BY <1>2, <1>10, <2>2, <2>8 DEF SortInv
<1>12. CASE l = r + 1 /\ physAddr' = physAddr /\ part' = [part EXCEPT !.L = l, !.R = r]
  <2>1. OwnPages' /\ Ordered'
    BY <1>1, <1>2, <1>12 DEF OwnPages, Ordered
  <2>2. part'.L = l /\ part'.R = r /\ part'.pivot = part.pivot
    BY <1>4, <1>12
  <2>3. r = hi => physAddr[hi] = part.pivot
    BY <1>3, <1>4, <1>6, <1>7
  <2>4. Pivoted'
    BY <1>5, <1>8, <1>9, <1>12, <2>2, <2>3 DEF Pivoted, lo, hi
  <2> QED BY <1>2, <1>10, <2>1, <2>4 DEF SortInv
<1> QED BY <1>6, <1>11, <1>12

\* Both parts of a partitioned range are apart from each other and from the rest.
LEMMA SortSplit == StackInv /\ SortInv /\ QsortSplit => SortInv'
<1> SUFFICES ASSUME StackInv, SortInv, QsortSplit PROVE SortInv'
  OBVIOUS
<1> DEFINE n == Len(lefts)
           lo == Top(lefts)
           hi == Top(rights)
<1>1. Types /\ RangesInv /\ PartitionInv /\ OwnPages /\ Apart /\ Ordered /\ Pivoted
  BY DEF StackInv, SortInv, QsortSplit
<1>2. PICK a, b, c, d, P \in Int :
        /\ P = IF part.R = rights[Len(lefts)] THEN rights[Len(lefts)] - 1 ELSE part.R
        /\ part.L = part.R + 1 /\ Len(lefts) \in Nat /\ Len(lefts) >= 1
        /\ lefts[Len(lefts)] - 1 <= P /\ P < rights[Len(lefts)]
        /\ \/ a = lefts[Len(lefts)] /\ b = P /\ c = P + 1 /\ d = rights[Len(lefts)]
           \/ a = P + 1 /\ b = rights[Len(lefts)] /\ c = lefts[Len(lefts)] /\ d = P
        /\ d - c <= b - a
        /\ lefts' \in Seq(Int) /\ rights' \in Seq(Int)
        /\ Len(lefts') = Len(lefts) + 1 /\ Len(rights') = Len(lefts) + 1
        /\ lefts'[Len(lefts)] = a /\ rights'[Len(lefts)] = b
        /\ lefts'[Len(lefts) + 1] = c /\ rights'[Len(lefts) + 1] = d
        /\ \A i \in 1..(Len(lefts) - 1) : lefts'[i] = lefts[i] /\ rights'[i] = rights[i]
  BY <1>1, SplitRanges
<1>3. n \in Nat /\ n \in 1..n /\ lo = lefts[n] /\ hi = rights[n]
      /\ \A i \in 1..n : lefts[i] \in Int /\ rights[i] \in Int
  BY SMTT(30), <1>1, <1>2 DEF Types, Top
<1>4. /\ P = (IF part.R = hi THEN hi - 1 ELSE part.R) /\ part.L = part.R + 1
      /\ lo - 1 <= P /\ P < hi
      /\ \/ a = lo /\ b = P /\ c = P + 1 /\ d = hi
         \/ a = P + 1 /\ b = hi /\ c = lo /\ d = P
  BY <1>2, <1>3
<1>5. /\ Len(lefts') = n + 1 /\ lefts'[n] = a /\ rights'[n] = b /\ lefts'[n + 1] = c /\ rights'[n + 1] = d
      /\ \A i \in 1..(n - 1) : lefts'[i] = lefts[i] /\ rights'[i] = rights[i]
  BY <1>2
<1>6. /\ \A i \in lo..(part.L - 1) : physAddr[i] <= part.pivot
      /\ \A i \in (part.R + 1)..hi : physAddr[i] > part.pivot
      /\ part.R = hi => physAddr[hi] = part.pivot
  BY <1>1 DEF Pivoted
<1>7. /\ lo \in Int /\ hi \in Int /\ 1 <= lo /\ hi <= MaxStream /\ MaxStream \in Nat
      /\ part.R \in Int /\ part.pivot \in Int /\ part.R <= hi
  BY <1>1, <1>3, StreamAssumption DEF Types, RangesInv, PartitionInv, QsortSplit
<1>8. pc' = "qsort" /\ physAddr' = physAddr
  BY DEF QsortSplit
<1> HIDE DEF n, lo, hi
<1>9. ASSUME NEW s \in lo..P, NEW t \in (P + 1)..hi PROVE physAddr[s] < physAddr[t]
  <2>1. s \in StreamIds /\ t \in StreamIds /\ s # t
    BY <1>4, <1>7 DEF StreamIds
  <2>2. \A address \in Addresses : address \in Int
    BY StreamAssumption DEF Addresses
  <2>3. physAddr[s] \in Int /\ physAddr[t] \in Int /\ physAddr[s] # physAddr[t]
    BY <1>1, <2>1, <2>2 DEF OwnPages
  <2>4. CASE part.R = hi
    <3>1. t = hi /\ s \in lo..(part.L - 1)
      BY <1>4, <1>7, <2>4
    <3> QED BY <1>6, <1>7, <2>3, <2>4, <3>1
  <2>5. CASE part.R # hi
    <3>1. t \in (part.R + 1)..hi /\ s \in lo..(part.L - 1)
      BY <1>4, <1>7, <2>5
    <3> QED BY <1>6, <1>7, <2>3, <3>1
  <2> QED BY <2>4, <2>5
<1>10. OwnPages'
  BY <1>1, <1>8 DEF OwnPages
<1>11. Ordered'
  <2> SUFFICES ASSUME NEW s \in StreamIds, NEW t \in StreamIds, s < t, ~(physAddr[s] < physAddr[t])
               PROVE  \E i \in 1..(n + 1) : lefts'[i] <= s /\ t <= rights'[i]
    BY <1>5, <1>8 DEF Ordered
  <2>0. s \in Int /\ t \in Int
    BY StreamAssumption DEF StreamIds
  <2>1. PICK i \in 1..n : lefts[i] <= s /\ t <= rights[i]
    BY <1>1 DEF Ordered, n
  <2>2. CASE i = n
    <3>1. lo <= s /\ t <= hi
      BY <1>3, <2>1, <2>2
    <3>2. t <= P \/ s >= P + 1
      BY <1>7, <1>9, <2>0, <3>1
    <3>3. (a <= s /\ t <= b) \/ (c <= s /\ t <= d)
      BY <1>4, <2>0, <3>1, <3>2
    <3>4. n \in 1..(n + 1) /\ n + 1 \in 1..(n + 1)
      BY <1>3
    <3> QED BY <1>5, <3>3, <3>4
  <2>3. CASE i # n
    <3>1. i \in 1..(n - 1) /\ i \in 1..(n + 1)
      BY <1>3, <2>3
    <3> QED BY <1>5, <2>1, <3>1
  <2> QED BY <2>2, <2>3
<1>12. Apart'
  <2> DEFINE Clear(i, j) == rights'[i] < lefts'[j] \/ rights'[j] < lefts'[i]
  <2>1. ASSUME NEW i \in 1..(n - 1), NEW j \in {n, n + 1} PROVE Clear(i, j)
    <3>1. i \in 1..n /\ i # n
      BY <1>3
    <3>2. rights[i] < lo \/ hi < lefts[i]
      BY <1>1, <1>3, <3>1 DEF Apart, n
    <3>3. lo <= lefts'[j] /\ rights'[j] <= hi
      <4>1. lo <= a /\ b <= hi /\ lo <= c /\ d <= hi
        BY <1>4, <1>7
      <4> QED BY <1>5, <4>1
    <3>4. lefts'[i] = lefts[i] /\ rights'[i] = rights[i] /\ lefts[i] \in Int /\ rights[i] \in Int
      BY <1>3, <1>5, <3>1
    <3>5. lefts'[j] \in Int /\ rights'[j] \in Int
      BY <1>5
    <3> QED BY <1>7, <3>2, <3>3, <3>4, <3>5
  <2>2. Clear(n, n + 1)
    BY <1>4, <1>5, <1>7
  <2>3. ASSUME NEW i \in 1..(n - 1), NEW j \in 1..(n - 1), i # j PROVE Clear(i, j)
    <3>1. i \in 1..n /\ j \in 1..n
      BY <1>3
    <3>2. rights[i] < lefts[j] \/ rights[j] < lefts[i]
      BY <1>1, <2>3, <3>1 DEF Apart, n
    <3> QED BY <1>5, <3>2
  <2>4. ASSUME NEW i \in 1..(n + 1), NEW j \in 1..(n + 1), i # j PROVE Clear(i, j)
    <3>1. \A x \in 1..(n + 1) : x \in 1..(n - 1) \/ x \in {n, n + 1}
      BY <1>3
    <3>2. CASE i \in 1..(n - 1)
      BY <2>1, <2>3, <2>4, <3>1, <3>2
    <3>3. CASE i \in {n, n + 1}
      <4>1. CASE j \in 1..(n - 1)
        BY <2>1, <3>3, <4>1
      <4>2. CASE j \in {n, n + 1}
        BY <2>2, <2>4, <3>3, <4>2
      <4> QED BY <3>1, <4>1, <4>2
    <3> QED BY <3>1, <3>2, <3>3
  <2> QED BY <1>5, <2>4 DEF Apart
<1> QED BY <1>8, <1>10, <1>11, <1>12 DEF SortInv

\* What is sorted between the ranges on the stack is inductive.
LEMMA SortStep == StackInv /\ SortInv /\ [StreamsNext]_streamVars => SortInv'
<1> SUFFICES ASSUME StackInv, SortInv, [StreamsNext]_streamVars PROVE SortInv'
  OBVIOUS
<1>1. CASE AllocStreamsContextArray
  BY <1>1, SortStart
<1>2. CASE QsortPop
  BY <1>2, SortPop
<1>3. CASE QsortPartition
  BY <1>3, SortPartition
<1>4. CASE PartitionStep
  BY <1>4, SortTurn
<1>5. CASE QsortSplit
  BY <1>5, SortSplit
<1>6. CASE InitRings
  <2>1. pc = "qsort" /\ lefts = <<>> /\ contexts' = physAddr /\ pc' = "ready" /\ physAddr' = physAddr
    BY <1>6 DEF InitRings
  <2>2. Sorted'
    <3>1. Len(lefts) = 0
      BY <2>1
    <3> QED BY <2>1, <3>1 DEF SortInv, Ordered, Sorted
  <2> QED BY <2>1, <2>2 DEF SortInv, OwnPages
<1>7. CASE UIMCreateStreams
  <2>1. pc = "ready" /\ pc' = pc /\ physAddr' = physAddr /\ contexts' = contexts
    BY <1>7 DEF UIMCreateStreams
  <2> QED BY <2>1 DEF SortInv, OwnPages, Sorted
<1>8. CASE DeleteStreams
  BY <1>8 DEF DeleteStreams, SortInv
<1>9. CASE UNCHANGED streamVars
  BY <1>9 DEF streamVars, sortVars, SortInv, OwnPages, Apart, Ordered, Pivoted, Sorted, Top
<1> QED BY <1>1, <1>2, <1>3, <1>4, <1>5, <1>6, <1>7, <1>8, <1>9 DEF StreamsNext

\* The quicksort puts the rings in the order of their physical addresses, each with a page of
\* its own, and the xHC is given them in that order (AllocStreamsContextArray).
THEOREM RingsSorted == StreamsSpec => [](pc = "ready" => OwnPages /\ Sorted)
<1>1. StreamsInit => StackInv /\ SortInv
  BY StackInit DEF StreamsInit, SortInv
<1>2. StackInv /\ SortInv /\ [StreamsNext]_streamVars => StackInv' /\ SortInv'
  BY StackStep, SortStep
<1>3. StackInv /\ SortInv => (pc = "ready" => OwnPages /\ Sorted)
  BY DEF SortInv
<1> QED BY <1>1, <1>2, <1>3, PTL DEF StreamsSpec

-----------------------------------------------------------------------------
(* The search by halving.                                                  *)

\* The TRB at addr is one of stream s that the xHC runs: not the link.
Hits(addr, s) == addr - physAddr[s] \in 0..(NumTRBs - 2)

\* The one stream that addr is of, if there is any.
Owner(addr) == CHOOSE s \in StreamIds : Hits(addr, s)

\* What look of FindStream is to return for the streams from L to R.
Answer(addr, L, R) ==
  IF \E s \in L..R : Hits(addr, s)
  THEN [stream |-> Owner(addr), index |-> addr - physAddr[Owner(addr)]]
  ELSE NotFound

\* The ranges that look is defined for, and its recursion.
Searched == (1..(MaxStream + 1)) \X (0..MaxStream)

LookStep(addr, f, range) ==
  LET L == range[1]
      R == range[2]
      M == (L + R) \div 2
      diff == addr - physAddr[M]
  IN IF L > R THEN NotFound
     ELSE IF diff < 0 THEN f[<<L, M - 1>>]
     ELSE IF Beyond(diff) THEN f[<<M + 1, R>>]
     ELSE [stream |-> M, index |-> diff]

\* look, as FindStream defines it.
Look(addr) == CHOOSE look : look = [range \in Searched |-> LookStep(addr, look, range)]

\* Look names the recursive function that FindStream evaluates.
LEMMA LookIsFindStream == \A addr : FindStream(addr) = Look(addr)[<<1, lastStream>>]
BY DEF FindStream, Look, Searched, LookStep

\* The middle of a range that is not empty lies in it.
LEMMA Middle ==
  ASSUME NEW L \in Int, NEW R \in Int, L <= R
  PROVE  (L + R) \div 2 \in L..R
OBVIOUS

\* Rings in order are a page or more apart.
LEMMA PagesApart ==
  ASSUME OwnPages, Sorted, NEW s \in StreamIds, NEW t \in StreamIds, s < t
  PROVE  physAddr[s] + NumTRBs <= physAddr[t]
<1>1. physAddr[s] \in Addresses /\ physAddr[t] \in Addresses /\ physAddr[s] < physAddr[t]
  BY DEF OwnPages, Sorted
<1>2. NumTRBs \in Nat \ {0} /\ NumPages \in Nat
  BY StreamAssumption
<1>3. PICK p \in 0..(NumPages - 1) : physAddr[s] = p * NumTRBs
  BY <1>1 DEF Addresses
<1>4. PICK q \in 0..(NumPages - 1) : physAddr[t] = q * NumTRBs
  BY <1>1 DEF Addresses
<1>5. p \in Int /\ q \in Int
  BY <1>2
<1>6. p + 1 <= q
  <2> SUFFICES ASSUME q <= p PROVE FALSE
    BY <1>5
  <2>1. q * NumTRBs <= p * NumTRBs
    BY <1>2, <1>5, SmallerProduct
  <2>2. q * NumTRBs \in Int /\ p * NumTRBs \in Int
    BY <1>2, <1>5
  <2> QED BY <1>1, <1>3, <1>4, <2>1, <2>2
<1>7. (p + 1) * NumTRBs <= q * NumTRBs
  BY <1>2, <1>5, <1>6, SmallerProduct
<1>8. (p + 1) * NumTRBs = p * NumTRBs + NumTRBs
  BY <1>2, <1>5
<1> QED BY <1>3, <1>4, <1>7, <1>8

\* An address before or after what stream s owns is in no stream after or before it.
LEMMA HitsOne ==
  ASSUME OwnPages, Sorted, NEW addr \in Int, NEW s \in StreamIds, NEW t \in StreamIds
  PROVE  /\ physAddr[s] \in Int
         /\ addr < physAddr[s] /\ s <= t => ~Hits(addr, t)
         /\ addr - physAddr[s] >= NumTRBs - 1 /\ t <= s => ~Hits(addr, t)
         /\ Hits(addr, s) /\ Hits(addr, t) => s = t
<1>1. \A address \in Addresses : address \in Int
  BY StreamAssumption DEF Addresses
<1>2. physAddr[s] \in Int /\ physAddr[t] \in Int /\ NumTRBs \in Nat /\ NumTRBs >= 2
      /\ s \in Int /\ t \in Int
  BY <1>1, StreamAssumption DEF OwnPages, StreamIds
<1>3. s < t => physAddr[s] + NumTRBs <= physAddr[t]
  BY PagesApart
<1>4. t < s => physAddr[t] + NumTRBs <= physAddr[s]
  BY PagesApart
<1> QED BY <1>2, <1>3, <1>4 DEF Hits

\* The answers satisfy the recursion of look.
LEMMA AnswerRecursion ==
  ASSUME OwnPages, Sorted, NEW addr \in Int, NEW L \in 1..(MaxStream + 1), NEW R \in 0..MaxStream,
         NEW M, M = (L + R) \div 2, NEW diff, diff = addr - physAddr[M]
  PROVE  Answer(addr, L, R) =
           IF L > R THEN NotFound
           ELSE IF diff < 0 THEN Answer(addr, L, M - 1)
                ELSE IF Beyond(diff) THEN Answer(addr, M + 1, R)
                ELSE [stream |-> M, index |-> diff]
<1>1. L \in Int /\ R \in Int /\ 1 <= L /\ R <= MaxStream /\ MaxStream \in Nat /\ NumTRBs \in Nat
  BY StreamAssumption
<1>2. CASE L > R
  BY <1>1, <1>2 DEF Answer
<1>3. CASE L <= R
  <2>1. M \in L..R /\ M \in Int /\ M \in StreamIds
    BY <1>1, <1>3, Middle DEF StreamIds
  <2>2. \A s \in L..R : s \in StreamIds /\ s \in Int
    BY <1>1 DEF StreamIds
  <2>3. physAddr[M] \in Int /\ diff \in Int
    BY <2>1, HitsOne
  <2>4. CASE diff < 0
    <3>1. \A s \in L..R : Hits(addr, s) => s < M
      BY <2>1, <2>2, <2>3, <2>4, HitsOne
    <3>2. (\E s \in L..R : Hits(addr, s)) <=> (\E s \in L..(M - 1) : Hits(addr, s))
      BY <1>1, <2>1, <3>1
    <3> QED BY <1>1, <1>3, <2>4, <3>2 DEF Answer
  <2>5. CASE diff >= 0 /\ Beyond(diff)
    <3>1. \A s \in L..R : Hits(addr, s) => M < s
      BY <2>1, <2>2, <2>3, <2>5, HitsOne DEF Beyond
    <3>2. (\E s \in L..R : Hits(addr, s)) <=> (\E s \in (M + 1)..R : Hits(addr, s))
      BY <1>1, <2>1, <3>1
    <3> QED BY <1>1, <1>3, <2>3, <2>5, <3>2 DEF Answer
  <2>6. CASE diff >= 0 /\ ~Beyond(diff)
    <3>1. Hits(addr, M)
      BY <1>1, <2>3, <2>6 DEF Hits, Beyond
    <3>2. Owner(addr) \in StreamIds /\ Hits(addr, Owner(addr))
      BY <2>1, <3>1 DEF Owner
    <3>3. Owner(addr) = M
      BY <2>1, <3>1, <3>2, HitsOne
    <3> QED BY <1>1, <1>3, <2>1, <2>3, <2>6, <3>1, <3>3 DEF Answer
  <2> QED BY <2>3, <2>4, <2>5, <2>6
<1> QED BY <1>1, <1>2, <1>3

\* look is what it is to be, for every range: the answers are a solution of its recursion, and
\* the only one.
LEMMA LookAnswers ==
  ASSUME OwnPages, Sorted, NEW addr \in Int
  PROVE  \A L \in 1..(MaxStream + 1), R \in 0..MaxStream : Look(addr)[<<L, R>>] = Answer(addr, L, R)
<1> DEFINE Ls == 1..(MaxStream + 1)
           Rs == 0..MaxStream
           answers == [range \in Searched |-> Answer(addr, range[1], range[2])]
           look == Look(addr)
<1>0. \A L \in Ls, R \in Rs : L \in Int /\ R \in Int /\ 1 <= L /\ R <= MaxStream /\ MaxStream \in Nat
  BY StreamAssumption
<1>1. ASSUME NEW L \in Ls, NEW R \in Rs, L <= R, NEW M, M = (L + R) \div 2
      PROVE  M \in L..R /\ M \in Int /\ M - 1 \in Rs /\ M + 1 \in Ls
  <2>1. M \in L..R /\ M \in Int
    BY <1>0, <1>1, Middle
  <2> QED BY <1>0, <1>1, <2>1
<1>2. \* One turn of the loop, for a function that has the answers of the smaller ranges.
      ASSUME NEW f, NEW L \in Ls, NEW R \in Rs,
             \A l \in Ls, r \in Rs : L <= R /\ r - l < R - L => f[<<l, r>>] = Answer(addr, l, r)
      PROVE  LookStep(addr, f, <<L, R>>) = Answer(addr, L, R)
  <2> DEFINE M == (L + R) \div 2
             diff == addr - physAddr[M]
  <2>1. Answer(addr, L, R) =
          IF L > R THEN NotFound
          ELSE IF diff < 0 THEN Answer(addr, L, M - 1)
               ELSE IF Beyond(diff) THEN Answer(addr, M + 1, R)
               ELSE [stream |-> M, index |-> diff]
    BY AnswerRecursion
  <2>2. LookStep(addr, f, <<L, R>>) =
          IF L > R THEN NotFound
          ELSE IF diff < 0 THEN f[<<L, M - 1>>]
               ELSE IF Beyond(diff) THEN f[<<M + 1, R>>]
               ELSE [stream |-> M, index |-> diff]
    BY DEF LookStep
  <2>3. CASE L > R
    BY <2>1, <2>2, <2>3
  <2>4. CASE L <= R
    <3>1. M \in L..R /\ M \in Int /\ M - 1 \in Rs /\ M + 1 \in Ls
      BY <1>1, <2>4
    <3>2. (M - 1) - L < R - L /\ R - (M + 1) < R - L
      BY <1>0, <3>1
    <3>3. f[<<L, M - 1>>] = Answer(addr, L, M - 1) /\ f[<<M + 1, R>>] = Answer(addr, M + 1, R)
      BY <1>2, <2>4, <3>1, <3>2
    <3> QED BY <2>1, <2>2, <3>3
  <2> QED BY <1>0, <2>3, <2>4
<1>3. answers = [range \in Searched |-> LookStep(addr, answers, range)]
  <2>1. \A l \in Ls, r \in Rs : answers[<<l, r>>] = Answer(addr, l, r)
    BY DEF Searched
  <2> HIDE DEF answers
  <2>2. \A L \in Ls, R \in Rs : LookStep(addr, answers, <<L, R>>) = Answer(addr, L, R)
    BY <1>2, <2>1
  <2>3. ASSUME NEW range \in Searched
        PROVE  Answer(addr, range[1], range[2]) = LookStep(addr, answers, range)
    <3>1. range = <<range[1], range[2]>> /\ range[1] \in Ls /\ range[2] \in Rs
      BY DEF Searched
    <3> QED BY <2>2, <3>1
  <2> QED BY <2>3 DEF answers
<1> HIDE DEF answers
<1>4. look = [range \in Searched |-> LookStep(addr, look, range)]
  BY <1>3 DEF Look
<1> HIDE DEF look
<1>5. ASSUME NEW L \in Ls, NEW R \in Rs PROVE look[<<L, R>>] = LookStep(addr, look, <<L, R>>)
  <2>1. <<L, R>> \in Searched
    BY DEF Searched
  <2> QED BY <1>4, <2>1
<1> DEFINE Size(L, R) == IF L <= R THEN R - L + 1 ELSE 0
           Differ == {n \in Nat : \E L \in Ls, R \in Rs : n = Size(L, R) /\ look[<<L, R>>] # Answer(addr, L, R)}
<1>6. Differ = {}
  <2> SUFFICES ASSUME Differ # {} PROVE FALSE
    OBVIOUS
  <2>1. PICK n \in Differ : \A k \in Differ : n <= k
    BY LeastNumber
  <2>2. PICK L \in Ls, R \in Rs : n = Size(L, R) /\ look[<<L, R>>] # Answer(addr, L, R)
    BY <2>1
  <2>3. ASSUME NEW l \in Ls, NEW r \in Rs, L <= R, r - l < R - L
        PROVE  look[<<l, r>>] = Answer(addr, l, r)
    <3>1. Size(l, r) \in Nat /\ ~(n <= Size(l, r))
      BY <1>0, <2>2, <2>3
    <3> QED BY <2>1, <3>1
  <2>4. LookStep(addr, look, <<L, R>>) = Answer(addr, L, R)
    BY <1>2, <2>3
  <2> QED BY <1>5, <2>2, <2>4
<1>7. ASSUME NEW L \in Ls, NEW R \in Rs PROVE look[<<L, R>>] = Answer(addr, L, R)
  <2>1. Size(L, R) \in Nat
    BY <1>0
  <2> QED BY <1>6, <2>1
<1> QED BY <1>7 DEF look

\* The event of every TRB that the xHC runs for a stream in use is taken to that stream and that
\* TRB, and no other address is taken to a stream: the array of rings is sorted when it is
\* searched, and halving a sorted array finds what is in it (FindStream).
THEOREM EventsFindTheirStream == StreamsSpec => []EventFindsItsStream
<1>1. StreamsInit => StackInv /\ SortInv
  BY StackInit DEF StreamsInit, SortInv
<1>2. StackInv /\ SortInv /\ [StreamsNext]_streamVars => StackInv' /\ SortInv'
  BY StackStep, SortStep
<1>3. StackInv /\ SortInv => EventFindsItsStream
  <2> SUFFICES ASSUME StackInv, SortInv, pc = "ready", lastStream > 0,
                      NEW addr \in 0..(NumPages * NumTRBs)
               PROVE  FindStream(addr) =
                        IF \E s \in 1..lastStream : addr - contexts[s] \in 0..(NumTRBs - 2)
                        THEN LET s == CHOOSE t \in 1..lastStream : addr - contexts[t] \in 0..(NumTRBs - 2)
                             IN [stream |-> s, index |-> addr - contexts[s]]
                        ELSE NotFound
    BY DEF EventFindsItsStream
  <2>1. OwnPages /\ Sorted /\ contexts = physAddr
    BY DEF SortInv, Sorted
  <2>2. addr \in Int /\ lastStream \in 0..MaxStream /\ MaxStream \in Nat
    BY StreamAssumption DEF StackInv, Types
  <2>3. FindStream(addr) = Answer(addr, 1, lastStream)
    <3>1. 1 \in 1..(MaxStream + 1)
      BY <2>2
    <3> QED BY <2>1, <2>2, <3>1, LookIsFindStream, LookAnswers
  <2>4. CASE \E s \in 1..lastStream : Hits(addr, s)
    <3>1. PICK s \in 1..lastStream : s = CHOOSE t \in 1..lastStream : Hits(addr, t)
      BY <2>4
    <3>2. Hits(addr, s) /\ s \in StreamIds
      BY <2>2, <2>4, <3>1 DEF StreamIds
    <3>3. Owner(addr) \in StreamIds /\ Hits(addr, Owner(addr))
      BY <3>2 DEF Owner
    <3>4. Owner(addr) = s
      BY <2>1, <2>2, <3>2, <3>3, HitsOne
    <3> QED BY <2>1, <2>3, <2>4, <3>1, <3>4 DEF Answer, Hits
  <2>5. CASE ~\E s \in 1..lastStream : Hits(addr, s)
    BY <2>1, <2>3, <2>5 DEF Answer, Hits
  <2> QED BY <2>4, <2>5
<1> QED BY <1>1, <1>2, <1>3, PTL DEF StreamsSpec
=============================================================================

-------------------------- MODULE AsyncEndpointProofs --------------------------
(***************************************************************************)
(* Theorems about AsyncEndpoint, for every size of the ring and every bound: *)
(* requests are returned in order and once, none is lost or forgotten, and   *)
(* one returned with success has been carried out.                          *)
(*                                                                         *)
(* Every operation that returns requests takes the oldest TDs off the two    *)
(* lists, those of the queue only when the schedule is used up (Takes), and  *)
(* then moves TDs from the queue to the ring (Moves). The invariant is kept  *)
(* by the one and by the other, whatever the operation was.                  *)
(***************************************************************************)
EXTENDS AsyncEndpoint, TLAPS, SequenceTheorems, WellFoundedInduction, NaturalsInduction

-----------------------------------------------------------------------------
(* The invariant, as a predicate of the lists s (scheduled) and q (queued). *)

TDs    == [cmd : Nat, n : Nat, final : BOOLEAN, pos : Int]
Codes  == {"success", "short", "error"}
Status == Codes \cup {"timeout", "aborted"}
Events == [index : 0 .. NumTRBs - 1, code : Codes, id : Nat \X Nat]
Returns == [cmd : Nat, rc : Status]

TypeInv ==
  /\ enqueue \in Nat /\ dequeueIndex \in 0 .. NumTRBs - 1 /\ lastSeenDequeueIndex \in 0 .. NumTRBs - 1
  /\ epState \in {"running", "stopped", "halted"} /\ hw \in Nat /\ hw <= enqueue
  /\ events \in Seq(Events) /\ requests \in Nat /\ refused \subseteq Nat
  /\ returned \in Seq(Returns) /\ mixed \in BOOLEAN /\ kept \in BOOLEAN /\ failures \in Nat

\* Slots from the driver's dequeue pointer to the enqueue position.
Used(dq, e) == (Index(e) - dq) % NumTRBs

\* TDs are on the lists in the order of their requests; after a final TD comes the next request.
Before(x, y) == x.cmd <= y.cmd /\ (x.final => x.cmd < y.cmd)
Sorted(s)    == \A i, j \in 1 .. Len(s) : i < j => Before(s[i], s[j])
Cross(s, t)  == \A i \in 1 .. Len(s), j \in 1 .. Len(t) : Before(s[i], t[j])

\* The scheduled TDs are the last that were laid out, and the driver counts them as used slots.
OnRing(s, e, ld) ==
  /\ Len(ld) = e /\ Len(s) <= e
  /\ \A i \in 1 .. Len(s) : s[i].pos = e - Len(s) + i - 1 /\ s[i] = ld[e - Len(s) + i]

Lists(s, q, dq, e, ld) ==
  /\ s \in Seq(TDs) /\ q \in Seq(TDs) /\ ld \in Seq(TDs)
  /\ Sorted(s) /\ Sorted(q) /\ Cross(s, q)
  /\ OnRing(s, e, ld) /\ Len(s) <= Used(dq, e)

\* TDs of request c are on the lists.
Waits(c, s, q)   == (\E i \in 1 .. Len(s) : s[i].cmd = c) \/ (\E i \in 1 .. Len(q) : q[i].cmd = c)
WaitsIn(c, s)    == \E i \in 1 .. Len(s) : s[i].cmd = c /\ s[i].final

\* What is on the lists and on the ring has been asked for; what is on the lists is later than
\* what was returned; and what was accepted is on the lists until it is returned.
Asked(s, q, ret, req, ref, ld) ==
  /\ \A i \in 1 .. Len(s) : s[i].cmd <= req
  /\ \A i \in 1 .. Len(q) : q[i].cmd <= req
  /\ \A i \in 1 .. Len(ld) : ld[i].cmd <= req
  /\ \A k \in 1 .. Len(ret) : ret[k].cmd <= req
  /\ \A k \in 1 .. Len(ret), c \in Nat : Waits(c, s, q) => ret[k].cmd < c
  /\ \A k, l \in 1 .. Len(ret) : k < l => ret[k].cmd < ret[l].cmd
  /\ \A c \in 1 .. req :
       c \in ref \/ (\E k \in 1 .. Len(ret) : ret[k].cmd = c) \/ WaitsIn(c, s) \/ WaitsIn(c, q)

\* TDs the xHC is past have been carried out, and those an event stands for, with all before them.
PastDone(s, h, rn) == \A i \in 1 .. Len(s) : s[i].pos < h => Id(s[i]) \in rn
EventDone(s, ev, rn) ==
  \A j \in 1 .. Len(ev), i \in 1 .. Len(s) :
    ev[j].index = Index(s[i].pos) => \A l \in 1 .. i : Id(s[l]) \in rn

\* While TDs of a request wait, those that are off the schedule have been carried out; so have all
\* of a request returned with success.
OffDone(s, q, e, ld, rn) ==
  \A j \in 1 .. e - Len(s) : Waits(ld[j].cmd, s, q) => Id(ld[j]) \in rn
SuccessDone(ret, ld, rn) ==
  \A k \in 1 .. Len(ret), j \in 1 .. Len(ld) :
    ret[k].rc = "success" /\ ld[j].cmd = ret[k].cmd => Id(ld[j]) \in rn

Queue(s, q, dq, e) ==
  /\ ~mixed /\ epState # "halted" /\ s = <<>> => Used(dq, e) = 0
  /\ ~mixed /\ ~kept /\ s = <<>> => q = <<>>

Inv ==
  /\ TypeInv
  /\ Lists(scheduled, queued, dequeueIndex, enqueue, laid)
  /\ Asked(scheduled, queued, returned, requests, refused, laid)
  /\ PastDone(scheduled, hw, ran)
  /\ ~mixed => EventDone(scheduled, events, ran)
  /\ ~mixed => OffDone(scheduled, queued, enqueue, laid, ran)
  /\ ~mixed => SuccessDone(returned, laid, ran)
  /\ Queue(scheduled, queued, dequeueIndex, enqueue)

-----------------------------------------------------------------------------
(* Positions and indices.                                                  *)

LEMMA Slots == NumTRBs \in Nat /\ NumTRBs >= 2
BY NumTRBsAssumption

\* An index is one of the ring.
LEMMA IndexType ==
  ASSUME NEW p \in Int
  PROVE  Index(p) \in 0 .. NumTRBs - 1 /\ p = NumTRBs * (p \div NumTRBs) + Index(p) /\ p \div NumTRBs \in Int
BY Slots DEF Index

\* The remainder of a division, from the division.
LEMMA Remainder ==
  ASSUME NEW p \in Int, NEW x \in Int, NEW r \in 0 .. NumTRBs - 1, p = NumTRBs * x + r
  PROVE  p % NumTRBs = r
BY Slots

\* Positions less than a turn of the ring apart have different indices.
LEMMA IndexSame ==
  ASSUME NEW a \in Int, NEW b \in Int, a <= b, b - a < NumTRBs, Index(a) = Index(b)
  PROVE  a = b
<1> DEFINE x == a \div NumTRBs
           y == b \div NumTRBs
<1>1. x \in Int /\ y \in Int /\ a = NumTRBs * x + Index(a) /\ b = NumTRBs * y + Index(b)
      /\ Index(a) \in Int
  BY IndexType, Slots
<1> HIDE DEF x, y
<1>2. b - a = NumTRBs * y - NumTRBs * x
  <2>1. NumTRBs * y \in Int /\ NumTRBs * x \in Int
    BY <1>1, Slots
  <2> HIDE DEF Index
  <2> QED BY <1>1, <2>1
<1>3. NumTRBs * y - NumTRBs * x = NumTRBs * (y - x)
  BY <1>1, Slots
<1>4. y - x < 1
  <2> SUFFICES ASSUME y - x >= 1 PROVE FALSE
    BY <1>1
  <2>1. NumTRBs * (y - x) >= NumTRBs
    BY <1>1, Slots
  <2> QED BY <2>1, <1>2, <1>3, <1>1, Slots
<1>5. y - x > -1
  <2> SUFFICES ASSUME y - x <= -1 PROVE FALSE
    BY <1>1
  <2>1. NumTRBs * (y - x) <= -NumTRBs
    BY <1>1, Slots
  <2> QED BY <2>1, <1>2, <1>3, <1>1, Slots
<1>6. y = x
  BY <1>4, <1>5, <1>1
<1> QED BY <1>1, <1>2, <1>6

\* The index after that of a position is the index of the next position.
LEMMA IndexNext ==
  ASSUME NEW p \in Int
  PROVE  NextIndex(Index(p)) = Index(p + 1)
<1> DEFINE x == p \div NumTRBs
           r == Index(p)
<1>1. x \in Int /\ p = NumTRBs * x + r /\ r \in 0 .. NumTRBs - 1
  BY IndexType
<1> HIDE DEF x, r
<1>2. CASE r + 1 < NumTRBs
  <2>1. (r + 1) % NumTRBs = r + 1
    BY <1>1, <1>2, Slots, Remainder
  <2>2. (p + 1) % NumTRBs = r + 1
    <3>1. p + 1 = NumTRBs * x + (r + 1) /\ r + 1 \in 0 .. NumTRBs - 1
      BY <1>1, <1>2, Slots
    <3> QED BY <3>1, <1>1, Remainder
  <2> QED BY <2>1, <2>2 DEF Index, NextIndex, r
<1>3. CASE r + 1 = NumTRBs
  <2>1. (r + 1) % NumTRBs = 0
    <3>1. r + 1 = NumTRBs * 1 + 0 /\ 0 \in 0 .. NumTRBs - 1 /\ r + 1 \in Int /\ 1 \in Int
      BY <1>1, <1>3, Slots
    <3> QED BY <3>1, Remainder
  <2>2. (p + 1) % NumTRBs = 0
    <3>1. p + 1 = NumTRBs * (x + 1) + 0 /\ 0 \in 0 .. NumTRBs - 1 /\ x + 1 \in Int /\ p + 1 \in Int
      BY <1>1, <1>3, Slots
    <3> QED BY <3>1, Remainder
  <2> QED BY <2>1, <2>2 DEF Index, NextIndex, r
<1> QED BY <1>1, <1>2, <1>3, Slots

\* The slots used since a position less than a turn back.
LEMMA UsedSince ==
  ASSUME NEW d \in Int, NEW e \in Int, d <= e, e - d < NumTRBs
  PROVE  Used(Index(d), e) = e - d
<1> DEFINE x == d \div NumTRBs
           y == e \div NumTRBs
           r == Index(d)
           s == Index(e)
<1>1. x \in Int /\ y \in Int /\ d = NumTRBs * x + r /\ e = NumTRBs * y + s /\ r \in Int /\ s \in Int
  <2>1. x \in Int /\ d = NumTRBs * x + r /\ r \in 0 .. NumTRBs - 1
    BY IndexType
  <2>2. y \in Int /\ e = NumTRBs * y + s /\ s \in 0 .. NumTRBs - 1
    BY IndexType
  <2> HIDE DEF x, y, r, s
  <2> QED BY <2>1, <2>2, Slots
<1> HIDE DEF x, y, r, s
<1>2. s - r = NumTRBs * (x - y) + (e - d)
  <2>1. NumTRBs * x \in Int /\ NumTRBs * y \in Int /\ NumTRBs * (x - y) = NumTRBs * x - NumTRBs * y
    BY <1>1, Slots
  <2> QED BY <1>1, <2>1
<1>3. (s - r) % NumTRBs = e - d
  <2>1. s - r \in Int /\ x - y \in Int /\ e - d \in 0 .. NumTRBs - 1
    BY <1>1, Slots
  <2> QED BY <2>1, <1>2, Remainder
<1> QED BY <1>3 DEF Used, r, s

\* Every index is that of the position that many used slots back.
LEMMA UsedBack ==
  ASSUME NEW dq \in 0 .. NumTRBs - 1, NEW e \in Int
  PROVE  /\ Used(dq, e) \in 0 .. NumTRBs - 1
         /\ Index(e - Used(dq, e)) = dq
         /\ FreeSlots(dq, e) = NumTRBs - 1 - Used(dq, e)
<1> DEFINE y == e \div NumTRBs
           s == Index(e)
           u == Used(dq, e)
           x == (s - dq) \div NumTRBs
<1>1. y \in Int /\ e = NumTRBs * y + s /\ s \in Int /\ dq \in Int
  <2>1. y \in Int /\ e = NumTRBs * y + s /\ s \in 0 .. NumTRBs - 1
    BY IndexType
  <2> HIDE DEF y, s
  <2> QED BY <2>1, Slots
<1>2. u \in 0 .. NumTRBs - 1 /\ s - dq = NumTRBs * x + u /\ x \in Int
  <2>1. s - dq \in Int
    BY <1>1
  <2> QED BY <2>1, IndexType DEF Used, Index
<1> HIDE DEF y, s, u, x
<1>3. e - u = NumTRBs * (y + x) + dq
  <2>1. NumTRBs * x \in Int /\ NumTRBs * y \in Int /\ NumTRBs * (y + x) = NumTRBs * y + NumTRBs * x
    BY <1>1, <1>2, Slots
  <2> QED BY <1>1, <1>2, <2>1
<1>4. (e - u) % NumTRBs = dq
  <2>1. e - u \in Int /\ y + x \in Int
    BY <1>1, <1>2, Slots
  <2> QED BY <2>1, <1>3, Remainder
<1>5. dq - s - 1 = NumTRBs * (0 - x - 1) + (NumTRBs - 1 - u)
  <2>1. NumTRBs * x \in Int /\ NumTRBs * (0 - x - 1) = 0 - NumTRBs * x - NumTRBs
    BY <1>1, <1>2, Slots
  <2> QED BY <1>1, <1>2, <2>1, Slots
<1>6. (dq - s - 1) % NumTRBs = NumTRBs - 1 - u
  <2>1. dq - s - 1 \in Int /\ 0 - x - 1 \in Int /\ NumTRBs - 1 - u \in 0 .. NumTRBs - 1
    BY <1>1, <1>2, Slots
  <2> QED BY <2>1, <1>5, Remainder
<1> QED BY <1>2, <1>4, <1>6 DEF u, s, Index, FreeSlots

-----------------------------------------------------------------------------
(* Numbers and sequences.                                                  *)

\* A set of naturals that is not empty has a least element.
LEMMA LeastNumber ==
  ASSUME NEW T \in SUBSET Nat, T # {}
  PROVE  \E least \in T : \A n \in T : least <= n
<1> DEFINE Less == {pair \in Nat \X Nat : pair[1] < pair[2]}
<1>1. IsWellFoundedOn(Less, Nat)
  BY NatLessThanWellFounded DEF OpToRel
<1>2. PICK least \in T : \A n \in T : ~(<<n, least>> \in Less)
  BY <1>1, WFMin
<1>3. ASSUME NEW n \in T PROVE least <= n
  <2>1. <<n, least>> \in Nat \X Nat /\ ~(n < least)
    BY <1>2
  <2> QED BY <2>1
<1> QED BY <1>3

\* Min is what its name says.
LEMMA MinOf ==
  ASSUME NEW T \in SUBSET Nat, T # {}
  PROVE  Min(T) \in T /\ \A n \in T : Min(T) <= n
BY LeastNumber DEF Min

\* A sequence, as the prover needs it.
LEMMA SeqOf ==
  ASSUME NEW S, NEW s \in Seq(S)
  PROVE  /\ Len(s) \in Nat /\ DOMAIN s = 1 .. Len(s)
         /\ \A i \in 1 .. Len(s) : s[i] \in S
         /\ s = <<>> <=> Len(s) = 0
BY LenProperties, EmptySeq

\* What is left of a sequence without its first k elements.
LEMMA FromOf ==
  ASSUME NEW S, NEW s \in Seq(S), NEW k \in 0 .. Len(s)
  PROVE  /\ From(s, k + 1) \in Seq(S) /\ Len(From(s, k + 1)) = Len(s) - k
         /\ \A i \in 1 .. Len(s) - k : From(s, k + 1)[i] = s[k + i]
<1> DEFINE n == Len(s)
           m == k + 1
<1>1. n \in Nat /\ m \in Int /\ n \in Int /\ k \in Nat /\ k <= n /\ \A i \in m .. n : s[i] \in S
  BY SeqOf
<1> HIDE DEF n
<1>2. /\ SubSeq(s, m, n) \in Seq(S)
      /\ Len(SubSeq(s, m, n)) = IF m <= n THEN n - m + 1 ELSE 0
      /\ \A i \in 1 .. n - m + 1 : SubSeq(s, m, n)[i] = s[m + i - 1]
  BY <1>1, SubSeqProperties
<1>3. ASSUME NEW i \in 1 .. n - k PROVE SubSeq(s, m, n)[i] = s[k + i]
  <2>1. i \in 1 .. n - m + 1 /\ m + i - 1 = k + i
    BY <1>1
  <2> QED BY <2>1, <1>2
<1>4. Len(SubSeq(s, m, n)) = n - k
  <2> DEFINE length == Len(SubSeq(s, m, n))
  <2>1. length = IF m <= n THEN n - m + 1 ELSE 0
    BY <1>2
  <2> HIDE DEF length
  <2>2. length = n - k
    BY <2>1, <1>1
  <2> QED BY <2>2 DEF length
<1>5. From(s, k + 1) = SubSeq(s, m, n)
  BY DEF From, n
<1> HIDE DEF m
<1> QED BY <1>2, <1>3, <1>4, <1>5 DEF n

\* The first k elements of a sequence.
LEMMA FirstOf ==
  ASSUME NEW S, NEW s \in Seq(S), NEW k \in 0 .. Len(s)
  PROVE  /\ SubSeq(s, 1, k) \in Seq(S) /\ Len(SubSeq(s, 1, k)) = k
         /\ \A i \in 1 .. k : SubSeq(s, 1, k)[i] = s[i]
<1>1. Len(s) \in Nat /\ k \in Nat /\ k \in Int /\ 1 \in Int /\ \A i \in 1 .. k : s[i] \in S
  BY SeqOf
<1>2. /\ SubSeq(s, 1, k) \in Seq(S)
      /\ Len(SubSeq(s, 1, k)) = IF 1 <= k THEN k - 1 + 1 ELSE 0
      /\ \A i \in 1 .. k - 1 + 1 : SubSeq(s, 1, k)[i] = s[1 + i - 1]
  BY <1>1, SubSeqProperties
<1>3. k - 1 + 1 = k /\ (IF 1 <= k THEN k - 1 + 1 ELSE 0) = k
  BY <1>1
<1>4. \A i \in 1 .. k : 1 + i - 1 = i
  OBVIOUS
<1> QED BY <1>2, <1>3, <1>4

\* Leading counts the TDs of a request at the front of a list.
LEMMA LeadingOf ==
  ASSUME NEW q \in Seq(TDs), NEW c
  PROVE  /\ Leading(q, c) \in 0 .. Len(q)
         /\ \A j \in 1 .. Leading(q, c) : q[j].cmd = c
         /\ Leading(q, c) < Len(q) => q[Leading(q, c) + 1].cmd # c
<1>1. Len(q) \in Nat
  BY SeqOf
<1> DEFINE Ends == {k \in 0 .. Len(q) : k = Len(q) \/ q[k + 1].cmd # c}
           Runs == {k \in 0 .. Len(q) : \A j \in 1 .. k : q[j].cmd = c}
<1>2. PICK m \in Ends : \A n \in Ends : m <= n
  <2>1. Len(q) \in Ends /\ Ends \in SUBSET Nat
    BY <1>1
  <2> QED BY <2>1, LeastNumber
<1>3. m \in Runs
  <2> SUFFICES ASSUME NEW j \in 1 .. m PROVE q[j].cmd = c
    BY <1>2
  <2>1. j - 1 \in 0 .. Len(q) /\ j - 1 < m /\ j - 1 # Len(q) /\ (j - 1) + 1 = j
    BY <1>1, <1>2
  <2>2. ~(m <= j - 1)
    BY <2>1, <1>1, <1>2
  <2>3. j - 1 \notin Ends
    BY <2>2, <1>2
  <2> QED BY <2>1, <2>3
<1>4. ASSUME NEW k \in Runs PROVE m >= k
  <2> SUFFICES ASSUME m < k PROVE FALSE
    BY <1>1, <1>2
  <2>1. m + 1 \in 1 .. k /\ m < Len(q)
    BY <1>1, <1>2
  <2> QED BY <2>1, <1>1, <1>2
<1>5. Leading(q, c) = Max(Runs)
  BY DEF Leading
<1>6. Max(Runs) = m
  <2>1. Max(Runs) = CHOOSE x \in Runs : \A y \in Runs : x >= y
    BY DEF Max
  <2>2. \A x \in Runs : (\A y \in Runs : x >= y) => x = m
    <3>1. Runs \subseteq Int
      BY <1>1
    <3> HIDE DEF Runs
    <3> QED BY <1>3, <1>4, <3>1
  <2> HIDE DEF Runs
  <2> QED BY <2>1, <2>2, <1>3, <1>4
<1>7. m \in 0 .. Len(q) /\ (m = Len(q) \/ q[m + 1].cmd # c) /\ \A j \in 1 .. m : q[j].cmd = c
  BY <1>2, <1>3
<1>8. Leading(q, c) = m
  BY <1>5, <1>6
<1> QED BY <1>7, <1>8

-----------------------------------------------------------------------------
(* What Completions returns.                                               *)

\* One TD of the done queue.
Collect(x, td, rc) == IF td.final THEN Append(x, [cmd |-> td.cmd, rc |-> rc]) ELSE x

\* f is the recursion of Completions over the first m TDs.
Collects(f, done, rc, m) ==
  f = [k \in 0 .. m |-> IF k = 0 THEN <<>> ELSE Collect(f[k - 1], done[k], rc)]

\* Completions evaluates a function with that recursion.
LEMMA CompletionsCollects ==
  ASSUME NEW done, NEW rc, Len(done) \in Nat
  PROVE  \E f : Collects(f, done, rc, Len(done)) /\ Completions(done, rc) = f[Len(done)]
<1> DEFINE Missing == {m \in Nat : ~\E f : Collects(f, done, rc, m)}
<1>1. Missing = {}
  <2> SUFFICES ASSUME Missing # {} PROVE FALSE
    OBVIOUS
  <2>1. PICK m \in Missing : \A n \in Missing : m <= n
    BY LeastNumber
  <2>2. CASE m = 0
    <3> DEFINE f == [k \in 0 .. 0 |-> <<>>]
    <3>1. \A k \in 0 .. 0 : k = 0
      OBVIOUS
    <3>2. Collects(f, done, rc, 0)
      BY <3>1 DEF Collects
    <3> QED BY <2>2, <3>2
  <2>3. CASE m # 0
    <3>1. m \in Nat /\ m - 1 \in Nat /\ m - 1 \notin Missing
      BY <2>1, <2>3
    <3>2. PICK f : Collects(f, done, rc, m - 1)
      BY <3>1
    <3> DEFINE g == [k \in 0 .. m |-> IF k = m THEN Collect(f[m - 1], done[m], rc) ELSE f[k]]
    <3>3. ASSUME NEW k \in 0 .. m
          PROVE  g[k] = IF k = 0 THEN <<>> ELSE Collect(g[k - 1], done[k], rc)
      <4>1. CASE k = m
        <5>1. m - 1 \in 0 .. m /\ m - 1 # m
          BY <3>1
        <5>2. g[m - 1] = f[m - 1] /\ g[m] = Collect(f[m - 1], done[m], rc)
          BY <5>1, <3>1
        <5> QED BY <5>2, <4>1, <2>3
      <4>2. CASE k # m /\ k # 0
        <5>1. k \in 0 .. m - 1 /\ k - 1 \in 0 .. m /\ k - 1 # m
          BY <3>1, <4>2
        <5>2. g[k] = f[k] /\ g[k - 1] = f[k - 1]
          BY <5>1, <4>2
        <5>3. f[k] = Collect(f[k - 1], done[k], rc)
          BY <5>1, <4>2, <3>2 DEF Collects
        <5> QED BY <5>2, <5>3, <4>2
      <4>3. CASE k = 0 /\ k # m
        <5>1. k \in 0 .. m - 1
          BY <3>1, <4>3
        <5> QED BY <5>1, <4>3, <3>2 DEF Collects
      <4> QED BY <4>1, <4>2, <4>3
    <3>4. g = [k \in 0 .. m |-> g[k]]
      OBVIOUS
    <3> HIDE DEF g
    <3>5. Collects(g, done, rc, m)
      BY <3>3, <3>4 DEF Collects
    <3> QED BY <3>5, <2>1
  <2> QED BY <2>2, <2>3
<1> DEFINE upTo == CHOOSE f : Collects(f, done, rc, Len(done))
<1>2. Collects(upTo, done, rc, Len(done))
  BY <1>1
<1>3. Completions(done, rc) = upTo[Len(done)]
  BY DEF Completions, Collects, Collect
<1> QED BY <1>2, <1>3

\* What is returned when the first k TDs of done have been through: one entry for each final TD,
\* in their order.
Entries(r, done, rc, k) ==
  /\ r \in Seq(Returns)
  /\ \A l \in 1 .. Len(r) : r[l].rc = rc /\ \E j \in 1 .. k : done[j].final /\ r[l].cmd = done[j].cmd
  /\ \A l, m \in 1 .. Len(r) : l < m => r[l].cmd < r[m].cmd
  /\ \A j \in 1 .. k : done[j].final => \E l \in 1 .. Len(r) : r[l].cmd = done[j].cmd

\* One more TD.
LEMMA CollectOne ==
  ASSUME NEW done \in Seq(TDs), Sorted(done), NEW rc \in Status,
         NEW k \in 1 .. Len(done), NEW r, Entries(r, done, rc, k - 1)
  PROVE  Entries(Collect(r, done[k], rc), done, rc, k)
<1>1. Len(done) \in Nat /\ done[k] \in TDs /\ k \in Nat /\ k - 1 \in Nat
      /\ \A j \in 1 .. k - 1 : done[j] \in TDs /\ j \in 1 .. k /\ j \in 1 .. Len(done) /\ j < k
  BY SeqOf
<1>2. CASE ~done[k].final
  <2>1. Collect(r, done[k], rc) = r
    BY <1>2 DEF Collect
  <2>2. \A j \in 1 .. k : j = k \/ j \in 1 .. k - 1
    BY <1>1
  <2>3. \A l \in 1 .. Len(r) : r[l].rc = rc /\ \E j \in 1 .. k : done[j].final /\ r[l].cmd = done[j].cmd
    BY <1>1 DEF Entries
  <2>4. \A j \in 1 .. k : done[j].final => \E l \in 1 .. Len(r) : r[l].cmd = done[j].cmd
    BY <2>2, <1>2 DEF Entries
  <2> QED BY <2>1, <2>3, <2>4 DEF Entries
<1>3. CASE done[k].final
  <2> DEFINE e == [cmd |-> done[k].cmd, rc |-> rc]
             t == Append(r, e)
  <2>1. Collect(r, done[k], rc) = t
    BY <1>3 DEF Collect
  <2>2. e \in Returns /\ e.cmd = done[k].cmd /\ e.rc = rc
    BY <1>1 DEF Returns, TDs
  <2> HIDE DEF e
  <2>3. /\ t \in Seq(Returns) /\ Len(t) = Len(r) + 1 /\ Len(r) \in Nat
        /\ \A i \in 1 .. Len(r) : t[i] = r[i]
        /\ t[Len(r) + 1] = e
    BY <2>2, AppendProperties, SeqOf DEF Entries
  <2> HIDE DEF t
  <2>4. \A i \in 1 .. Len(t) : i \in 1 .. Len(r) \/ i = Len(r) + 1
    BY <2>3
  <2>5. \A l \in 1 .. Len(t) : t[l].rc = rc /\ \E j \in 1 .. k : done[j].final /\ t[l].cmd = done[j].cmd
    <3> TAKE l \in 1 .. Len(t)
    <3>1. CASE l \in 1 .. Len(r)
      <4>1. r[l].rc = rc /\ \E j \in 1 .. k - 1 : done[j].final /\ r[l].cmd = done[j].cmd
        BY <3>1 DEF Entries
      <4> QED BY <4>1, <3>1, <2>3, <1>1
    <3>2. CASE l = Len(r) + 1
      <4>1. k \in 1 .. k
        BY <1>1
      <4> QED BY <4>1, <3>2, <2>2, <2>3, <1>3
    <3> QED BY <3>1, <3>2, <2>4
  <2>6. \A l \in 1 .. Len(r) : r[l].cmd < done[k].cmd
    <3> TAKE l \in 1 .. Len(r)
    <3>1. PICK j \in 1 .. k - 1 : done[j].final /\ r[l].cmd = done[j].cmd
      BY DEF Entries
    <3>2. Before(done[j], done[k])
      BY <1>1 DEF Sorted
    <3> QED BY <3>1, <3>2 DEF Before
  <2>7. \A l, m \in 1 .. Len(t) : l < m => t[l].cmd < t[m].cmd
    <3> SUFFICES ASSUME NEW l \in 1 .. Len(t), NEW m \in 1 .. Len(t), l < m PROVE t[l].cmd < t[m].cmd
      OBVIOUS
    <3>1. l \in 1 .. Len(r)
      BY <2>3
    <3>2. CASE m = Len(r) + 1
      BY <3>1, <3>2, <2>2, <2>3, <2>6
    <3>3. CASE m \in 1 .. Len(r)
      BY <3>1, <3>3, <2>3 DEF Entries
    <3> QED BY <3>2, <3>3, <2>4
  <2>8. \A j \in 1 .. k : done[j].final => \E l \in 1 .. Len(t) : t[l].cmd = done[j].cmd
    <3> SUFFICES ASSUME NEW j \in 1 .. k, done[j].final PROVE \E l \in 1 .. Len(t) : t[l].cmd = done[j].cmd
      OBVIOUS
    <3>1. CASE j = k
      <4>1. Len(r) + 1 \in 1 .. Len(t)
        BY <2>3
      <4> QED BY <4>1, <3>1, <2>2, <2>3
    <3>2. CASE j \in 1 .. k - 1
      <4>1. PICK l \in 1 .. Len(r) : r[l].cmd = done[j].cmd
        BY <3>2 DEF Entries
      <4>2. l \in 1 .. Len(t)
        BY <2>3
      <4> QED BY <4>1, <4>2, <2>3
    <3> QED BY <3>1, <3>2, <1>1
  <2> QED BY <2>1, <2>3, <2>5, <2>7, <2>8 DEF Entries
<1> QED BY <1>2, <1>3

\* Completions of a list in the order of its requests returns each of its final TDs, in order.
LEMMA CompletionsOf ==
  ASSUME NEW done \in Seq(TDs), Sorted(done), NEW rc \in Status
  PROVE  Entries(Completions(done, rc), done, rc, Len(done))
<1>1. Len(done) \in Nat
  BY SeqOf
<1>2. PICK f : Collects(f, done, rc, Len(done)) /\ Completions(done, rc) = f[Len(done)]
  BY <1>1, CompletionsCollects
<1> DEFINE Differ == {k \in 0 .. Len(done) : ~Entries(f[k], done, rc, k)}
<1>3. Differ = {}
  <2> SUFFICES ASSUME Differ # {} PROVE FALSE
    OBVIOUS
  <2>1. PICK k \in Differ : \A n \in Differ : k <= n
    <3>1. Differ \in SUBSET Nat
      BY <1>1
    <3> QED BY <3>1, LeastNumber
  <2>2. CASE k = 0
    <3>1. f[0] = <<>>
      BY <1>1, <1>2 DEF Collects
    <3>2. Entries(<<>>, done, rc, 0)
      <4>1. <<>> \in Seq(Returns) /\ Len(<<>>) = 0
        BY EmptySeq
      <4> QED BY <4>1 DEF Entries
    <3> QED BY <2>1, <2>2, <3>1, <3>2
  <2>3. CASE k # 0
    <3>1. k \in 1 .. Len(done) /\ k - 1 \in 0 .. Len(done) /\ k - 1 \notin Differ
      BY <1>1, <2>1, <2>3
    <3>2. Entries(f[k - 1], done, rc, k - 1)
      BY <3>1
    <3>3. f[k] = Collect(f[k - 1], done[k], rc)
      BY <1>2, <2>1, <2>3 DEF Collects
    <3>4. Entries(f[k], done, rc, k)
      BY <3>1, <3>2, <3>3, CollectOne
    <3> QED BY <2>1, <3>4
  <2> QED BY <2>2, <2>3
<1> QED BY <1>1, <1>2, <1>3

-----------------------------------------------------------------------------
(* Taking the oldest TDs off the lists: a scheduled ones, and b of the queue *)
(* once the schedule is used up.                                           *)

Takes(s, q, a, b) == a \in 0 .. Len(s) /\ b \in 0 .. Len(q) /\ (b > 0 => a = Len(s))

\* The entries c of the TDs taken: one for each final TD, in order.
Taken(c, s, q, a, b) ==
  /\ c \in Seq(Returns)
  /\ \A l, m \in 1 .. Len(c) : l < m => c[l].cmd < c[m].cmd
  /\ \A l \in 1 .. Len(c) : \/ \E i \in 1 .. a : s[i].final /\ s[i].cmd = c[l].cmd
                            \/ \E i \in 1 .. b : q[i].final /\ q[i].cmd = c[l].cmd
  /\ \A i \in 1 .. a : s[i].final => \E l \in 1 .. Len(c) : c[l].cmd = s[i].cmd
  /\ \A i \in 1 .. b : q[i].final => \E l \in 1 .. Len(c) : c[l].cmd = q[i].cmd

\* The lists stay lists, if the dequeue pointer does not pass the TDs that are left.
LEMMA TakesLists ==
  ASSUME NEW s, NEW q, NEW dq, NEW e \in Nat, NEW ld, NEW a, NEW b, NEW dq2,
         Lists(s, q, dq, e, ld), Takes(s, q, a, b), Len(s) - a <= Used(dq2, e)
  PROVE  Lists(From(s, a + 1), From(q, b + 1), dq2, e, ld)
<1> DEFINE s2 == From(s, a + 1)
           q2 == From(q, b + 1)
<1>1. /\ s2 \in Seq(TDs) /\ Len(s2) = Len(s) - a /\ \A i \in 1 .. Len(s) - a : s2[i] = s[a + i]
      /\ q2 \in Seq(TDs) /\ Len(q2) = Len(q) - b /\ \A i \in 1 .. Len(q) - b : q2[i] = q[b + i]
  BY FromOf DEF Lists, Takes
<1>2. /\ Len(s) \in Nat /\ a \in 0 .. Len(s) /\ Len(q) \in Nat /\ b \in 0 .. Len(q)
  BY SeqOf DEF Lists, Takes
<1> HIDE DEF s2, q2
<1>3. \A i \in 1 .. Len(s2) : a + i \in 1 .. Len(s) /\ s2[i] = s[a + i]
  BY <1>1, <1>2
<1>4. \A i \in 1 .. Len(q2) : b + i \in 1 .. Len(q) /\ q2[i] = q[b + i]
  BY <1>1, <1>2
<1>5. Sorted(s2)
  <2> SUFFICES ASSUME NEW i \in 1 .. Len(s2), NEW j \in 1 .. Len(s2), i < j PROVE Before(s2[i], s2[j])
    BY DEF Sorted
  <2>1. a + i < a + j
    BY <1>2
  <2> QED BY <2>1, <1>3 DEF Lists, Sorted
<1>6. Sorted(q2)
  <2> SUFFICES ASSUME NEW i \in 1 .. Len(q2), NEW j \in 1 .. Len(q2), i < j PROVE Before(q2[i], q2[j])
    BY DEF Sorted
  <2>1. b + i < b + j
    BY <1>2
  <2> QED BY <2>1, <1>4 DEF Lists, Sorted
<1>7. Cross(s2, q2)
  BY <1>3, <1>4 DEF Lists, Cross
<1>8. OnRing(s2, e, ld)
  <2>1. Len(ld) = e /\ Len(s2) <= e
    BY <1>1, <1>2 DEF Lists, OnRing
  <2>2. ASSUME NEW i \in 1 .. Len(s2)
        PROVE  s2[i].pos = e - Len(s2) + i - 1 /\ s2[i] = ld[e - Len(s2) + i]
    <3>1. s[a + i].pos = e - Len(s) + (a + i) - 1 /\ s[a + i] = ld[e - Len(s) + (a + i)]
      BY <1>3 DEF Lists, OnRing
    <3>2. e - Len(s) + (a + i) - 1 = e - Len(s2) + i - 1 /\ e - Len(s) + (a + i) = e - Len(s2) + i
      BY <1>1, <1>2
    <3> QED BY <3>1, <3>2, <1>3
  <2> QED BY <2>1, <2>2 DEF OnRing
<1>9. Lists(s2, q2, dq2, e, ld)
  BY <1>1, <1>5, <1>6, <1>7, <1>8 DEF Lists
<1> QED BY <1>9 DEF s2, q2

\* What waits after a taking waited before it.
LEMMA TakesWaits ==
  ASSUME NEW s \in Seq(TDs), NEW q \in Seq(TDs), NEW a, NEW b, Takes(s, q, a, b)
  PROVE  /\ \A c : Waits(c, From(s, a + 1), From(q, b + 1)) <=>
                     (\E i \in a + 1 .. Len(s) : s[i].cmd = c) \/ (\E i \in b + 1 .. Len(q) : q[i].cmd = c)
         /\ \A c : Waits(c, From(s, a + 1), From(q, b + 1)) => Waits(c, s, q)
         /\ \A c : WaitsIn(c, From(s, a + 1)) <=> \E i \in a + 1 .. Len(s) : s[i].cmd = c /\ s[i].final
         /\ \A c : WaitsIn(c, From(q, b + 1)) <=> \E i \in b + 1 .. Len(q) : q[i].cmd = c /\ q[i].final
<1> DEFINE s2 == From(s, a + 1)
           q2 == From(q, b + 1)
<1>1. /\ Len(s2) = Len(s) - a /\ \A i \in 1 .. Len(s) - a : s2[i] = s[a + i]
      /\ Len(q2) = Len(q) - b /\ \A i \in 1 .. Len(q) - b : q2[i] = q[b + i]
  BY FromOf DEF Takes
<1>2. /\ Len(s) \in Nat /\ a \in 0 .. Len(s) /\ Len(q) \in Nat /\ b \in 0 .. Len(q)
  BY SeqOf DEF Takes
<1> HIDE DEF s2, q2
<1>3. \A i \in 1 .. Len(s2) : a + i \in a + 1 .. Len(s) /\ s2[i] = s[a + i]
  BY <1>1, <1>2
<1>4. \A i \in 1 .. Len(q2) : b + i \in b + 1 .. Len(q) /\ q2[i] = q[b + i]
  BY <1>1, <1>2
<1>5. \A i \in a + 1 .. Len(s) : i - a \in 1 .. Len(s2) /\ s2[i - a] = s[i] /\ i \in 1 .. Len(s)
  <2> TAKE i \in a + 1 .. Len(s)
  <2>1. i - a \in 1 .. Len(s) - a /\ a + (i - a) = i /\ i \in 1 .. Len(s)
    BY <1>2
  <2> QED BY <2>1, <1>1
<1>6. \A i \in b + 1 .. Len(q) : i - b \in 1 .. Len(q2) /\ q2[i - b] = q[i] /\ i \in 1 .. Len(q)
  <2> TAKE i \in b + 1 .. Len(q)
  <2>1. i - b \in 1 .. Len(q) - b /\ b + (i - b) = i /\ i \in 1 .. Len(q)
    BY <1>2
  <2> QED BY <2>1, <1>1
<1>7. \A c : (\E i \in 1 .. Len(s2) : s2[i].cmd = c) <=> \E i \in a + 1 .. Len(s) : s[i].cmd = c
  BY <1>3, <1>5
<1>8. \A c : (\E i \in 1 .. Len(q2) : q2[i].cmd = c) <=> \E i \in b + 1 .. Len(q) : q[i].cmd = c
  BY <1>4, <1>6
<1>9. \A c : WaitsIn(c, s2) <=> \E i \in a + 1 .. Len(s) : s[i].cmd = c /\ s[i].final
  BY <1>3, <1>5 DEF WaitsIn
<1>10. \A c : WaitsIn(c, q2) <=> \E i \in b + 1 .. Len(q) : q[i].cmd = c /\ q[i].final
  BY <1>4, <1>6 DEF WaitsIn
<1>11. \A c : Waits(c, s2, q2) <=>
                (\E i \in a + 1 .. Len(s) : s[i].cmd = c) \/ (\E i \in b + 1 .. Len(q) : q[i].cmd = c)
  BY <1>7, <1>8 DEF Waits
<1>12. \A c : Waits(c, s2, q2) => Waits(c, s, q)
  BY <1>5, <1>6, <1>11 DEF Waits
<1> QED BY <1>9, <1>10, <1>11, <1>12 DEF s2, q2

\* A final TD that is taken is of an earlier request than those that wait still.
LEMMA TakenBefore ==
  ASSUME NEW s, NEW q, NEW dq, NEW e, NEW ld, Lists(s, q, dq, e, ld), NEW a, NEW b, Takes(s, q, a, b), NEW c,
         Waits(c, From(s, a + 1), From(q, b + 1))
  PROVE  /\ \A i \in 1 .. a : s[i].cmd <= c /\ (s[i].final => s[i].cmd < c)
         /\ \A i \in 1 .. b : q[i].cmd <= c /\ (q[i].final => q[i].cmd < c)
<1>1. /\ Len(s) \in Nat /\ a \in 0 .. Len(s) /\ Len(q) \in Nat /\ b \in 0 .. Len(q)
  BY SeqOf DEF Lists, Takes
<1>2. (\E i \in a + 1 .. Len(s) : s[i].cmd = c) \/ (\E i \in b + 1 .. Len(q) : q[i].cmd = c)
  BY TakesWaits DEF Lists
<1>3. CASE \E i \in a + 1 .. Len(s) : s[i].cmd = c
  <2>1. PICK j \in a + 1 .. Len(s) : s[j].cmd = c
    BY <1>3
  <2>2. j \in 1 .. Len(s) /\ a # Len(s) /\ b = 0
    BY <2>1, <1>1 DEF Takes
  <2>3. \A i \in 1 .. a : i \in 1 .. Len(s) /\ i < j
    BY <2>1, <1>1
  <2>4. \A i \in 1 .. a : Before(s[i], s[j])
    BY <2>2, <2>3 DEF Lists, Sorted
  <2> QED BY <2>1, <2>2, <2>4 DEF Before
<1>4. CASE \E i \in b + 1 .. Len(q) : q[i].cmd = c
  <2>1. PICK j \in b + 1 .. Len(q) : q[j].cmd = c
    BY <1>4
  <2>2. j \in 1 .. Len(q)
    BY <2>1, <1>1
  <2>3. \A i \in 1 .. b : i \in 1 .. Len(q) /\ i < j
    BY <2>1, <1>1
  <2>4. \A i \in 1 .. a : i \in 1 .. Len(s)
    BY <1>1
  <2>5. \A i \in 1 .. b : Before(q[i], q[j])
    BY <2>2, <2>3 DEF Lists, Sorted
  <2>6. \A i \in 1 .. a : Before(s[i], q[j])
    BY <2>2, <2>4 DEF Lists, Cross
  <2> QED BY <2>1, <2>5, <2>6 DEF Before
<1> QED BY <1>2, <1>3, <1>4

\* Nothing that was asked for is lost or returned out of order.
LEMMA TakesAsked ==
  ASSUME NEW s, NEW q, NEW dq, NEW e, NEW ld, Lists(s, q, dq, e, ld), NEW a, NEW b, Takes(s, q, a, b),
         NEW ret \in Seq(Returns), NEW req \in Nat, NEW ref, Asked(s, q, ret, req, ref, ld),
         NEW c, Taken(c, s, q, a, b)
  PROVE  Asked(From(s, a + 1), From(q, b + 1), ret \o c, req, ref, ld) /\ ret \o c \in Seq(Returns)
<1> DEFINE s2 == From(s, a + 1)
           q2 == From(q, b + 1)
           t == ret \o c
<1>1. /\ s2 \in Seq(TDs) /\ Len(s2) = Len(s) - a /\ \A i \in 1 .. Len(s) - a : s2[i] = s[a + i]
      /\ q2 \in Seq(TDs) /\ Len(q2) = Len(q) - b /\ \A i \in 1 .. Len(q) - b : q2[i] = q[b + i]
  BY FromOf DEF Lists, Takes
<1>2. /\ Len(s) \in Nat /\ a \in 0 .. Len(s) /\ Len(q) \in Nat /\ b \in 0 .. Len(q)
  BY SeqOf DEF Lists, Takes
<1>20. (\A i \in 1 .. Len(s) : s[i] \in TDs) /\ (\A i \in 1 .. Len(q) : q[i] \in TDs)
  BY SeqOf DEF Lists
<1>3. /\ t \in Seq(Returns) /\ Len(t) = Len(ret) + Len(c) /\ Len(ret) \in Nat /\ Len(c) \in Nat
      /\ \A i \in 1 .. Len(t) : t[i] = IF i <= Len(ret) THEN ret[i] ELSE c[i - Len(ret)]
  BY ConcatProperties, SeqOf DEF Taken
<1>4. \A x : Waits(x, s2, q2) => Waits(x, s, q)
  BY TakesWaits DEF Lists
<1>5. \A x : Waits(x, s2, q2) =>
         /\ \A i \in 1 .. a : s[i].final => s[i].cmd < x
         /\ \A i \in 1 .. b : q[i].final => q[i].cmd < x
  BY TakenBefore
<1>6. /\ \A x : WaitsIn(x, s2) <=> \E i \in a + 1 .. Len(s) : s[i].cmd = x /\ s[i].final
      /\ \A x : WaitsIn(x, q2) <=> \E i \in b + 1 .. Len(q) : q[i].cmd = x /\ q[i].final
  BY TakesWaits DEF Lists
<1> HIDE DEF s2, q2, t
<1>7. \A i \in 1 .. Len(s2) : a + i \in 1 .. Len(s) /\ s2[i] = s[a + i]
  BY SMTT(30), <1>1, <1>2
<1>8. \A i \in 1 .. Len(q2) : b + i \in 1 .. Len(q) /\ q2[i] = q[b + i]
  BY <1>1, <1>2
<1>9. \A l \in 1 .. Len(c) :
        /\ c[l].cmd \in Nat /\ c[l].cmd <= req /\ Waits(c[l].cmd, s, q)
        /\ \A x : Waits(x, s2, q2) => c[l].cmd < x
  <2> TAKE l \in 1 .. Len(c)
  <2>1. CASE \E i \in 1 .. a : s[i].final /\ s[i].cmd = c[l].cmd
    <3>1. PICK i \in 1 .. a : s[i].final /\ s[i].cmd = c[l].cmd
      BY <2>1
    <3>2. i \in 1 .. Len(s)
      BY <1>2
    <3>3. s[i].cmd \in Nat
      BY <3>2, <1>20 DEF TDs
    <3>4. s[i].cmd <= req
      BY <3>2 DEF Asked
    <3>5. Waits(s[i].cmd, s, q)
      BY <3>2 DEF Waits
    <3> QED BY <3>1, <3>3, <3>4, <3>5, <1>5
  <2>2. CASE \E i \in 1 .. b : q[i].final /\ q[i].cmd = c[l].cmd
    <3>1. PICK i \in 1 .. b : q[i].final /\ q[i].cmd = c[l].cmd
      BY <2>2
    <3>2. i \in 1 .. Len(q)
      BY <1>2
    <3>3. q[i].cmd \in Nat
      BY <3>2, <1>20 DEF TDs
    <3>4. q[i].cmd <= req
      BY <3>2 DEF Asked
    <3>5. Waits(q[i].cmd, s, q)
      BY <3>2 DEF Waits
    <3> QED BY <3>1, <3>3, <3>4, <3>5, <1>5
  <2> QED BY <2>1, <2>2 DEF Taken
<1>10. \A i \in 1 .. Len(t) : \/ i \in 1 .. Len(ret) /\ t[i] = ret[i]
                              \/ i - Len(ret) \in 1 .. Len(c) /\ t[i] = c[i - Len(ret)] /\ i > Len(ret)
  BY <1>3
<1>11. /\ \A i \in 1 .. Len(s2) : s2[i].cmd <= req
       /\ \A i \in 1 .. Len(q2) : q2[i].cmd <= req
       /\ \A i \in 1 .. Len(ld) : ld[i].cmd <= req
  BY <1>7, <1>8 DEF Asked
<1>12. \A k \in 1 .. Len(t) : t[k].cmd <= req
  BY <1>9, <1>10 DEF Asked
<1>13. \A k \in 1 .. Len(t), x \in Nat : Waits(x, s2, q2) => t[k].cmd < x
  BY <1>4, <1>9, <1>10 DEF Asked
<1>14. \A k, l \in 1 .. Len(t) : k < l => t[k].cmd < t[l].cmd
  <2> SUFFICES ASSUME NEW k \in 1 .. Len(t), NEW l \in 1 .. Len(t), k < l PROVE t[k].cmd < t[l].cmd
    OBVIOUS
  <2>1. CASE l \in 1 .. Len(ret) /\ t[l] = ret[l]
    <3>1. k \in 1 .. Len(ret) /\ t[k] = ret[k]
      BY <1>3, <2>1
    <3> QED BY <2>1, <3>1 DEF Asked
  <2>2. CASE l - Len(ret) \in 1 .. Len(c) /\ t[l] = c[l - Len(ret)]
    <3>1. CASE k \in 1 .. Len(ret) /\ t[k] = ret[k]
      <4>1. c[l - Len(ret)].cmd \in Nat /\ Waits(c[l - Len(ret)].cmd, s, q)
        BY <1>9, <2>2
      <4> QED BY <4>1, <3>1, <2>2 DEF Asked
    <3>2. CASE k - Len(ret) \in 1 .. Len(c) /\ t[k] = c[k - Len(ret)]
      <4>1. k - Len(ret) < l - Len(ret)
        BY <1>3
      <4> QED BY <4>1, <3>2, <2>2 DEF Taken
    <3> QED BY <3>1, <3>2, <1>10
  <2> QED BY <2>1, <2>2, <1>10
<1>15. \A l \in 1 .. Len(c) : l + Len(ret) \in 1 .. Len(t) /\ t[l + Len(ret)] = c[l]
  <2> TAKE l \in 1 .. Len(c)
  <2>1. l + Len(ret) \in 1 .. Len(t) /\ ~(l + Len(ret) <= Len(ret)) /\ (l + Len(ret)) - Len(ret) = l
    BY <1>3
  <2> QED BY <2>1, <1>3
<1>16. ASSUME NEW x \in 1 .. req
       PROVE  x \in ref \/ (\E k \in 1 .. Len(t) : t[k].cmd = x) \/ WaitsIn(x, s2) \/ WaitsIn(x, q2)
  <2>1. x \in ref \/ (\E k \in 1 .. Len(ret) : ret[k].cmd = x) \/ WaitsIn(x, s) \/ WaitsIn(x, q)
    BY DEF Asked
  <2>2. CASE \E k \in 1 .. Len(ret) : ret[k].cmd = x
    <3>1. PICK k \in 1 .. Len(ret) : ret[k].cmd = x
      BY <2>2
    <3>2. k \in 1 .. Len(t) /\ t[k] = ret[k]
      BY <1>3
    <3> QED BY <3>1, <3>2
  <2>3. CASE WaitsIn(x, s)
    <3>1. PICK i \in 1 .. Len(s) : s[i].cmd = x /\ s[i].final
      BY <2>3 DEF WaitsIn
    <3>2. CASE i \in 1 .. a
      <4>1. PICK l \in 1 .. Len(c) : c[l].cmd = x
        BY <3>1, <3>2 DEF Taken
      <4> QED BY <4>1, <1>15
    <3>3. CASE i \in a + 1 .. Len(s)
      BY <3>1, <3>3, <1>6
    <3> QED BY <3>2, <3>3, <1>2
  <2>4. CASE WaitsIn(x, q)
    <3>1. PICK i \in 1 .. Len(q) : q[i].cmd = x /\ q[i].final
      BY <2>4 DEF WaitsIn
    <3>2. CASE i \in 1 .. b
      <4>1. PICK l \in 1 .. Len(c) : c[l].cmd = x
        BY <3>1, <3>2 DEF Taken
      <4> QED BY <4>1, <1>15
    <3>3. CASE i \in b + 1 .. Len(q)
      BY <3>1, <3>3, <1>6
    <3> QED BY <3>2, <3>3, <1>2
  <2> QED BY <2>1, <2>2, <2>3, <2>4
<1>17. Asked(s2, q2, t, req, ref, ld)
  BY <1>11, <1>12, <1>13, <1>14, <1>16 DEF Asked
<1> QED BY <1>3, <1>17 DEF s2, q2, t

\* The TDs off the schedule stay done, if those taken are done or their request is gone.
LEMMA TakesOff ==
  ASSUME NEW s, NEW q, NEW dq, NEW e \in Nat, NEW ld, Lists(s, q, dq, e, ld), NEW a, NEW b, Takes(s, q, a, b),
         NEW rn, OffDone(s, q, e, ld, rn),
         \A i \in 1 .. a : Waits(s[i].cmd, From(s, a + 1), From(q, b + 1)) => Id(s[i]) \in rn
  PROVE  OffDone(From(s, a + 1), From(q, b + 1), e, ld, rn)
<1> DEFINE s2 == From(s, a + 1)
           q2 == From(q, b + 1)
<1>1. Len(s2) = Len(s) - a /\ Len(s) \in Nat /\ a \in 0 .. Len(s) /\ Len(s) <= e
  BY FromOf, SeqOf DEF Lists, Takes, OnRing
<1>2. \A x : Waits(x, s2, q2) => Waits(x, s, q)
  BY TakesWaits DEF Lists
<1>3. \A i \in 1 .. a : Waits(s[i].cmd, s2, q2) => Id(s[i]) \in rn
  OBVIOUS
<1> HIDE DEF s2, q2
<1>4. ASSUME NEW j \in 1 .. e - Len(s2), Waits(ld[j].cmd, s2, q2) PROVE Id(ld[j]) \in rn
  <2>1. CASE j \in 1 .. e - Len(s)
    BY <2>1, <1>2, <1>4 DEF OffDone
  <2>2. CASE j \notin 1 .. e - Len(s)
    <3>1. j - (e - Len(s)) \in 1 .. a /\ j - (e - Len(s)) \in 1 .. Len(s)
          /\ e - Len(s) + (j - (e - Len(s))) = j
      BY <2>2, <1>1
    <3>2. s[j - (e - Len(s))] = ld[j]
      BY <3>1 DEF Lists, OnRing
    <3> QED BY <3>1, <3>2, <1>3, <1>4
  <2> QED BY <2>1, <2>2
<1> QED BY <1>4 DEF OffDone, s2, q2

\* Requests returned with success have been carried out, if those were that are returned now: the
\* final TD of each was scheduled, and carried out with all scheduled before it.
LEMMA TakesSuccess ==
  ASSUME NEW s, NEW q, NEW dq, NEW e \in Nat, NEW ld, Lists(s, q, dq, e, ld), NEW rn, OffDone(s, q, e, ld, rn),
         NEW ret \in Seq(Returns), SuccessDone(ret, ld, rn), NEW c \in Seq(Returns),
         \A l \in 1 .. Len(c) : c[l].rc = "success" =>
           \E i \in 1 .. Len(s) : s[i].final /\ s[i].cmd = c[l].cmd /\ \A m \in 1 .. i : Id(s[m]) \in rn
  PROVE  SuccessDone(ret \o c, ld, rn)
<1> DEFINE t == ret \o c
<1>1. /\ Len(t) = Len(ret) + Len(c) /\ Len(ret) \in Nat /\ Len(c) \in Nat
      /\ \A i \in 1 .. Len(t) : t[i] = IF i <= Len(ret) THEN ret[i] ELSE c[i - Len(ret)]
  BY ConcatProperties, SeqOf
<1>2. Len(ld) = e /\ Len(s) <= e /\ Len(s) \in Nat
  BY SeqOf DEF Lists, OnRing
<1> HIDE DEF t
<1>3. ASSUME NEW k \in 1 .. Len(t), NEW j \in 1 .. Len(ld), t[k].rc = "success", ld[j].cmd = t[k].cmd
      PROVE  Id(ld[j]) \in rn
  <2>1. CASE k \in 1 .. Len(ret)
    <3>1. t[k] = ret[k]
      BY <2>1, <1>1
    <3> QED BY <3>1, <2>1, <1>3 DEF SuccessDone
  <2>2. CASE k \notin 1 .. Len(ret)
    <3>1. k - Len(ret) \in 1 .. Len(c) /\ t[k] = c[k - Len(ret)]
      BY <2>2, <1>1
    <3>2. PICK i \in 1 .. Len(s) : s[i].final /\ s[i].cmd = t[k].cmd /\ \A m \in 1 .. i : Id(s[m]) \in rn
      BY <3>1, <1>3
    <3>3. CASE j \in 1 .. e - Len(s)
      <4>1. Waits(ld[j].cmd, s, q)
        BY <3>2, <1>3 DEF Waits
      <4> QED BY <4>1, <3>3 DEF OffDone
    <3>4. CASE j \notin 1 .. e - Len(s)
      <4> DEFINE m == j - (e - Len(s))
      <4>1. m \in 1 .. Len(s) /\ e - Len(s) + m = j
        BY <3>4, <1>2
      <4>2. s[m] = ld[j]
        BY <4>1 DEF Lists, OnRing
      <4> HIDE DEF m
      <4>3. CASE m \in 1 .. i
        BY <4>3, <4>2, <3>2
      <4>4. CASE m > i
        <5>1. Before(s[i], s[m])
          BY <4>1, <4>4 DEF Lists, Sorted
        <5>2. s[i].cmd < s[m].cmd /\ s[i].cmd = s[m].cmd /\ s[i] \in TDs
          BY <5>1, <4>2, <3>2, <1>3, SeqOf DEF Before, Lists
        <5>3. s[i].cmd \in Nat
          BY <5>2 DEF TDs
        <5> QED BY <5>2, <5>3
      <4> QED BY <4>1, <4>3, <4>4
    <3> QED BY <3>3, <3>4
  <2> QED BY <2>1, <2>2
<1> QED BY <1>3 DEF SuccessDone, t

\* The TDs that are left are done as far as they were.
LEMMA TakesDone ==
  ASSUME NEW s \in Seq(TDs), NEW a \in 0 .. Len(s), NEW rn
  PROVE  /\ \A h : PastDone(s, h, rn) => PastDone(From(s, a + 1), h, rn)
         /\ \A ev : EventDone(s, ev, rn) => EventDone(From(s, a + 1), ev, rn)
<1> DEFINE s2 == From(s, a + 1)
<1>1. /\ Len(s2) = Len(s) - a /\ \A i \in 1 .. Len(s) - a : s2[i] = s[a + i]
      /\ Len(s) \in Nat
  BY FromOf, SeqOf
<1> HIDE DEF s2
<1>2. \A i \in 1 .. Len(s2) : a + i \in 1 .. Len(s) /\ s2[i] = s[a + i]
  BY <1>1
<1>3. \A h : PastDone(s, h, rn) => PastDone(s2, h, rn)
  BY <1>2 DEF PastDone
<1>4. ASSUME NEW ev, EventDone(s, ev, rn), NEW j \in 1 .. Len(ev), NEW i \in 1 .. Len(s2),
             ev[j].index = Index(s2[i].pos), NEW l \in 1 .. i
      PROVE  Id(s2[l]) \in rn
  <2>1. l \in 1 .. Len(s2) /\ a + l \in 1 .. a + i /\ a + i \in 1 .. Len(s)
    BY <1>1, <1>2
  <2>2. \A m \in 1 .. a + i : Id(s[m]) \in rn
    BY <2>1, <1>2, <1>4 DEF EventDone
  <2> QED BY <2>1, <2>2, <1>2
<1> QED BY <1>3, <1>4 DEF EventDone, s2

-----------------------------------------------------------------------------
(* Moving TDs from the queue to the ring.                                  *)

Placed(q, k) == [j \in 1 .. k |-> [q[j] EXCEPT !.pos = enqueue + j - 1]]

Overlaps(k) == \E j \in DOMAIN events, p \in enqueue .. enqueue + k - 1 : events[j].index = Index(p)

\* From lists s and q, k TDs are moved, for which there is room with the dequeue pointer dq.
Moves(s, q, dq, k) ==
  /\ k \in 0 .. Len(q) /\ k <= FreeSlots(dq, enqueue)
  /\ scheduled' = s \o Placed(q, k) /\ queued' = From(q, k + 1)
  /\ enqueue' = enqueue + k /\ laid' = laid \o Placed(q, k)
  /\ mixed' \in BOOLEAN /\ (~mixed' => ~mixed /\ ~Overlaps(k))

\* ScheduleTDs moves what there is room for, or stops early and says so.
LEMMA ScheduleMoves ==
  ASSUME TypeInv, NEW s, NEW q \in Seq(TDs), NEW dq \in 0 .. NumTRBs - 1,
         NEW state \in {"running", "stopped", "halted"}, ScheduleTDs(s, q, dq, state)
  PROVE  \E k : /\ Moves(s, q, dq, k)
                /\ kept' = TRUE \/ (kept' = FALSE /\ (k = Len(q) \/ k = FreeSlots(dq, enqueue)))
                /\ epState' \in {"running", "stopped", "halted"} /\ (epState' = "halted" <=> state = "halted")
                /\ failures' \in Nat
<1> DEFINE room == Min({Len(q), FreeSlots(dq, enqueue)})
<1>1. Len(q) \in Nat /\ FreeSlots(dq, enqueue) \in Nat
  <2>1. enqueue \in Int /\ Used(dq, enqueue) \in 0 .. NumTRBs - 1
        /\ FreeSlots(dq, enqueue) = NumTRBs - 1 - Used(dq, enqueue)
    <3>1. enqueue \in Int
      BY DEF TypeInv
    <3> QED BY <3>1, UsedBack
  <2> QED BY <2>1, Slots, SeqOf
<1>2. room \in {Len(q), FreeSlots(dq, enqueue)} /\ room <= Len(q) /\ room <= FreeSlots(dq, enqueue) /\ room \in Nat
  <2> DEFINE both == {Len(q), FreeSlots(dq, enqueue)}
  <2>1. both \in SUBSET Nat /\ both # {}
    BY <1>1
  <2> HIDE DEF both
  <2>2. Min(both) \in both /\ \A n \in both : Min(both) <= n
    BY <2>1, MinOf
  <2> QED BY <2>1, <2>2 DEF both
<1> HIDE DEF room
<1>3. PICK k \in 0 .. room :
    /\ \/ k = room /\ queued' = From(q, k + 1) /\ UNCHANGED failures /\ kept' = FALSE
       \/ k < room /\ queued' = PutBack(q, k) /\ Fails /\ kept' = TRUE
    /\ LET new == [j \in 1 .. k |-> [q[j] EXCEPT !.pos = enqueue + j - 1]]
       IN  scheduled' = s \o new /\ laid' = laid \o new
    /\ enqueue' = enqueue + k
    /\ mixed' = (mixed \/ \E j \in DOMAIN events, p \in enqueue .. enqueue + k - 1 :
                            events[j].index = Index(p))
    /\ epState' = IF k > 0 /\ state = "stopped" THEN "running" ELSE state
  BY DEF ScheduleTDs, room
<1>4. k \in 0 .. Len(q) /\ k <= FreeSlots(dq, enqueue)
  BY <1>1, <1>2, <1>3
<1>5. queued' = From(q, k + 1)
  BY <1>3 DEF PutBack
<1>6. scheduled' = s \o Placed(q, k) /\ laid' = laid \o Placed(q, k) /\ enqueue' = enqueue + k
  BY <1>3 DEF Placed
<1>7. mixed' \in BOOLEAN /\ (~mixed' => ~mixed /\ ~Overlaps(k))
  <2>1. mixed' = (mixed \/ Overlaps(k))
    BY <1>3 DEF Overlaps
  <2>2. mixed \in BOOLEAN /\ Overlaps(k) \in BOOLEAN
    BY DEF TypeInv, Overlaps
  <2> QED BY <2>1, <2>2
<1>8. Moves(s, q, dq, k)
  BY <1>4, <1>5, <1>6, <1>7 DEF Moves
<1>9. kept' = TRUE \/ (kept' = FALSE /\ (k = Len(q) \/ k = FreeSlots(dq, enqueue)))
  BY <1>2, <1>3
<1>10. epState' \in {"running", "stopped", "halted"} /\ (epState' = "halted" <=> state = "halted")
  BY <1>3
<1>11. failures' \in Nat
  BY <1>3 DEF Fails, TypeInv
<1> QED BY <1>8, <1>9, <1>10, <1>11

\* LeaveQueue moves none.
LEMMA LeaveMoves ==
  ASSUME TypeInv, NEW s \in Seq(TDs), NEW q \in Seq(TDs), NEW dq \in 0 .. NumTRBs - 1, laid \in Seq(TDs),
         LeaveQueue(s, q)
  PROVE  Moves(s, q, dq, 0)
<1>1. Placed(q, 0) = <<>>
  <2>1. 1 .. 0 = {}
    OBVIOUS
  <2> QED BY <2>1 DEF Placed
<1>2. s \o <<>> = s /\ laid \o <<>> = laid
  BY ConcatEmptySeq
<1>3. From(q, 0 + 1) = q
  BY SubSeqFull DEF From
<1>4. 0 \in 0 .. Len(q) /\ 0 <= FreeSlots(dq, enqueue)
  <2>1. enqueue \in Int /\ Len(q) \in Nat
    BY SeqOf DEF TypeInv
  <2>2. Used(dq, enqueue) \in 0 .. NumTRBs - 1 /\ FreeSlots(dq, enqueue) = NumTRBs - 1 - Used(dq, enqueue)
    BY <2>1, UsedBack
  <2> QED BY <2>1, <2>2, Slots
<1>5. scheduled' = s /\ queued' = q /\ enqueue' = enqueue /\ laid' = laid
  BY DEF LeaveQueue
<1>6. mixed' \in BOOLEAN /\ (~mixed' => ~mixed /\ ~Overlaps(0))
  <2>1. mixed' = mixed /\ mixed \in BOOLEAN
    BY DEF LeaveQueue, TypeInv
  <2>2. ~Overlaps(0)
    <3>1. enqueue \in Int
      BY DEF TypeInv
    <3>2. enqueue .. enqueue + 0 - 1 = {}
      BY <3>1
    <3> QED BY <3>2 DEF Overlaps
  <2> QED BY <2>1, <2>2
<1>7. enqueue' = enqueue + 0
  BY <1>5 DEF TypeInv
<1> QED BY <1>1, <1>2, <1>3, <1>4, <1>5, <1>6, <1>7 DEF Moves

\* The lists after a move, element by element.
LEMMA MovesElements ==
  ASSUME enqueue \in Nat, NEW s \in Seq(TDs), NEW q \in Seq(TDs), NEW dq, laid \in Seq(TDs), NEW k,
         Moves(s, q, dq, k)
  PROVE  /\ k \in Nat /\ k <= Len(q) /\ Len(q) \in Nat /\ Len(s) \in Nat /\ Len(laid) \in Nat
         /\ scheduled' \in Seq(TDs) /\ queued' \in Seq(TDs) /\ laid' \in Seq(TDs)
         /\ Len(scheduled') = Len(s) + k /\ Len(queued') = Len(q) - k /\ Len(laid') = Len(laid) + k
         /\ \A i \in 1 .. Len(s) : scheduled'[i] = s[i]
         /\ \A j \in 1 .. k : /\ scheduled'[Len(s) + j] = laid'[Len(laid) + j]
                              /\ scheduled'[Len(s) + j].cmd = q[j].cmd
                              /\ (scheduled'[Len(s) + j].final <=> q[j].final)
                              /\ scheduled'[Len(s) + j].pos = enqueue + j - 1
         /\ \A i \in 1 .. Len(q) - k : queued'[i] = q[k + i]
         /\ \A i \in 1 .. Len(laid) : laid'[i] = laid[i]
<1> DEFINE new == Placed(q, k)
<1>1. k \in 0 .. Len(q) /\ Len(q) \in Nat /\ Len(s) \in Nat /\ Len(laid) \in Nat
  BY SeqOf DEF Moves
<1>2. k \in Nat /\ k <= Len(q)
  BY <1>1
<1>3. \A j \in 1 .. k : /\ new[j] \in TDs /\ new[j].cmd = q[j].cmd /\ (new[j].final <=> q[j].final)
                        /\ new[j].pos = enqueue + j - 1
  <2> TAKE j \in 1 .. k
  <2>1. q[j] \in TDs
    <3>1. j \in 1 .. Len(q)
      BY <1>1
    <3> QED BY <3>1, SeqOf
  <2>2. new[j] = [q[j] EXCEPT !.pos = enqueue + j - 1] /\ enqueue + j - 1 \in Int
    BY <1>2 DEF Placed
  <2> QED BY <2>1, <2>2 DEF TDs
<1>4. new \in [1 .. k -> TDs]
  <2>1. new = [j \in 1 .. k |-> new[j]]
    BY DEF Placed
  <2> HIDE DEF new
  <2> QED BY <1>3, <2>1
<1> HIDE DEF new
<1>5. new \in Seq(TDs) /\ Len(new) = k
  BY <1>2, <1>4
<1>6. /\ s \o new \in Seq(TDs) /\ Len(s \o new) = Len(s) + Len(new)
      /\ \A i \in 1 .. Len(s) + Len(new) : (s \o new)[i] = IF i <= Len(s) THEN s[i] ELSE new[i - Len(s)]
  BY <1>5, ConcatProperties
<1>7. /\ laid \o new \in Seq(TDs) /\ Len(laid \o new) = Len(laid) + Len(new)
      /\ \A i \in 1 .. Len(laid) + Len(new) :
           (laid \o new)[i] = IF i <= Len(laid) THEN laid[i] ELSE new[i - Len(laid)]
  BY <1>5, ConcatProperties
<1>8. scheduled' = s \o new /\ laid' = laid \o new /\ queued' = From(q, k + 1)
  BY DEF Moves, new
<1>9. /\ queued' \in Seq(TDs) /\ Len(queued') = Len(q) - k /\ \A i \in 1 .. Len(q) - k : queued'[i] = q[k + i]
  BY <1>1, <1>8, FromOf
<1>10. /\ scheduled' \in Seq(TDs) /\ Len(scheduled') = Len(s) + k
       /\ \A i \in 1 .. Len(s) + k : scheduled'[i] = IF i <= Len(s) THEN s[i] ELSE new[i - Len(s)]
  BY <1>5, <1>6, <1>8
<1>11. /\ laid' \in Seq(TDs) /\ Len(laid') = Len(laid) + k
       /\ \A i \in 1 .. Len(laid) + k : laid'[i] = IF i <= Len(laid) THEN laid[i] ELSE new[i - Len(laid)]
  BY <1>5, <1>7, <1>8
<1>12. \A i \in 1 .. Len(s) : scheduled'[i] = s[i]
  BY <1>1, <1>2, <1>10
<1>13. \A i \in 1 .. Len(laid) : laid'[i] = laid[i]
  BY <1>1, <1>2, <1>11
<1>14. \A j \in 1 .. k : scheduled'[Len(s) + j] = new[j] /\ laid'[Len(laid) + j] = new[j]
  <2> TAKE j \in 1 .. k
  <2>1. Len(s) + j \in 1 .. Len(s) + k /\ ~(Len(s) + j <= Len(s)) /\ (Len(s) + j) - Len(s) = j
    BY <1>1, <1>2
  <2>2. Len(laid) + j \in 1 .. Len(laid) + k /\ ~(Len(laid) + j <= Len(laid)) /\ (Len(laid) + j) - Len(laid) = j
    BY <1>1, <1>2
  <2>3. scheduled'[Len(s) + j] = new[j]
    BY <2>1, <1>10
  <2>4. laid'[Len(laid) + j] = new[j]
    BY <2>2, <1>11
  <2> QED BY <2>3, <2>4
<1>15. \A j \in 1 .. k : /\ scheduled'[Len(s) + j] = laid'[Len(laid) + j]
                         /\ scheduled'[Len(s) + j].cmd = q[j].cmd
                         /\ (scheduled'[Len(s) + j].final <=> q[j].final)
                         /\ scheduled'[Len(s) + j].pos = enqueue + j - 1
  BY <1>3, <1>14
<1> QED BY <1>1, <1>2, <1>9, <1>10, <1>11, <1>12, <1>13, <1>15

\* TDs laid out use that many more slots, which were free.
LEMMA UsedMore ==
  ASSUME NEW dq \in 0 .. NumTRBs - 1, NEW e \in Nat, NEW k \in Nat, k <= FreeSlots(dq, e)
  PROVE  Used(dq, e + k) = Used(dq, e) + k
<1> DEFINE u == Used(dq, e)
           d == e - u
<1>1. u \in 0 .. NumTRBs - 1 /\ Index(d) = dq /\ k <= NumTRBs - 1 - u
  BY UsedBack
<1> HIDE DEF u
<1>2. d \in Int /\ d <= e + k /\ (e + k) - d < NumTRBs /\ e + k \in Int /\ (e + k) - d = u + k
  BY <1>1, Slots
<1> HIDE DEF d
<1>3. Used(Index(d), e + k) = u + k
  BY <1>2, UsedSince
<1> QED BY <1>1, <1>3 DEF u

\* Each TD that is scheduled after a move is one of s or of q, and so is its place in the order.
LEMMA MovesOrigin ==
  ASSUME enqueue \in Nat, NEW s \in Seq(TDs), NEW q \in Seq(TDs), NEW dq, laid \in Seq(TDs), NEW k,
         Moves(s, q, dq, k)
  PROVE  \A i \in 1 .. Len(scheduled') :
           \/ i \in 1 .. Len(s) /\ scheduled'[i] = s[i]
           \/ /\ i > Len(s) /\ i - Len(s) \in 1 .. k
              /\ scheduled'[i].cmd = q[i - Len(s)].cmd /\ (scheduled'[i].final <=> q[i - Len(s)].final)
              /\ scheduled'[i].pos = enqueue + (i - Len(s)) - 1
              /\ scheduled'[i] = laid'[Len(laid) + (i - Len(s))]
<1>1. /\ k \in Nat /\ Len(s) \in Nat /\ Len(scheduled') = Len(s) + k
      /\ \A i \in 1 .. Len(s) : scheduled'[i] = s[i]
      /\ \A j \in 1 .. k : /\ scheduled'[Len(s) + j] = laid'[Len(laid) + j]
                           /\ scheduled'[Len(s) + j].cmd = q[j].cmd
                           /\ (scheduled'[Len(s) + j].final <=> q[j].final)
                           /\ scheduled'[Len(s) + j].pos = enqueue + j - 1
  BY MovesElements
<1> SUFFICES ASSUME NEW i \in 1 .. Len(scheduled'), i \notin 1 .. Len(s)
             PROVE  /\ i > Len(s) /\ i - Len(s) \in 1 .. k
                    /\ scheduled'[i].cmd = q[i - Len(s)].cmd /\ (scheduled'[i].final <=> q[i - Len(s)].final)
                    /\ scheduled'[i].pos = enqueue + (i - Len(s)) - 1
                    /\ scheduled'[i] = laid'[Len(laid) + (i - Len(s))]
  BY <1>1
<1>2. i > Len(s) /\ i - Len(s) \in 1 .. k /\ Len(s) + (i - Len(s)) = i
  BY <1>1
<1>3. \A j : j = i - Len(s) => j \in 1 .. k /\ Len(s) + j = i
  BY <1>2
<1> QED BY <1>1, <1>2, <1>3

\* The lists stay lists.
LEMMA MovesLists ==
  ASSUME enqueue \in Nat, NEW s, NEW q, NEW dq \in 0 .. NumTRBs - 1, NEW k,
         Lists(s, q, dq, enqueue, laid), Moves(s, q, dq, k)
  PROVE  Lists(scheduled', queued', dq, enqueue', laid') /\ enqueue' \in Nat /\ Used(dq, enqueue') = Used(dq, enqueue) + k
<1>0. s \in Seq(TDs) /\ q \in Seq(TDs) /\ laid \in Seq(TDs)
  BY DEF Lists
<1>1. /\ k \in Nat /\ k <= Len(q) /\ Len(q) \in Nat /\ Len(s) \in Nat /\ Len(laid) \in Nat
      /\ scheduled' \in Seq(TDs) /\ queued' \in Seq(TDs) /\ laid' \in Seq(TDs)
      /\ Len(scheduled') = Len(s) + k /\ Len(queued') = Len(q) - k /\ Len(laid') = Len(laid) + k
  BY <1>0, MovesElements
<1>2. \A i \in 1 .. Len(queued') : k + i \in 1 .. Len(q) /\ queued'[i] = q[k + i] /\ k + i > k
  <2>1. \A i \in 1 .. Len(q) - k : queued'[i] = q[k + i]
    BY <1>0, MovesElements
  <2> QED BY <1>1, <2>1
<1>3. \A i \in 1 .. Len(laid) : laid'[i] = laid[i]
  BY <1>0, MovesElements
<1>4. \A i \in 1 .. Len(scheduled') :
        \/ i \in 1 .. Len(s) /\ scheduled'[i] = s[i]
        \/ /\ i > Len(s) /\ i - Len(s) \in 1 .. k
           /\ scheduled'[i].cmd = q[i - Len(s)].cmd /\ (scheduled'[i].final <=> q[i - Len(s)].final)
           /\ scheduled'[i].pos = enqueue + (i - Len(s)) - 1
           /\ scheduled'[i] = laid'[Len(laid) + (i - Len(s))]
  BY <1>0, MovesOrigin
<1>5. enqueue' = enqueue + k /\ enqueue' \in Nat /\ Len(laid) = enqueue /\ Len(s) <= enqueue
  BY <1>1 DEF Moves, Lists, OnRing
<1>6. Used(dq, enqueue') = Used(dq, enqueue) + k
  <2>1. k <= FreeSlots(dq, enqueue)
    BY DEF Moves
  <2>2. Used(dq, enqueue + k) = Used(dq, enqueue) + k
    BY <1>1, <2>1, UsedMore
  <2> QED BY <2>2, <1>5
<1>7. Len(scheduled') <= Used(dq, enqueue')
  <2>1. enqueue \in Int /\ Used(dq, enqueue) \in 0 .. NumTRBs - 1
    BY UsedBack
  <2> QED BY <2>1, <1>1, <1>6, Slots DEF Lists
<1>8. Sorted(queued')
  <2> SUFFICES ASSUME NEW i \in 1 .. Len(queued'), NEW j \in 1 .. Len(queued'), i < j
               PROVE  Before(queued'[i], queued'[j])
    BY DEF Sorted
  <2>1. k + i < k + j
    BY <1>1
  <2> QED BY <2>1, <1>2 DEF Lists, Sorted
<1>9. Sorted(scheduled')
  <2> SUFFICES ASSUME NEW i \in 1 .. Len(scheduled'), NEW j \in 1 .. Len(scheduled'), i < j
               PROVE  Before(scheduled'[i], scheduled'[j])
    BY DEF Sorted
  <2>1. CASE j \in 1 .. Len(s) /\ scheduled'[j] = s[j]
    <3>1. i \in 1 .. Len(s) /\ ~(i > Len(s))
      BY SMTT(30), <2>1, <1>1
    <3> QED BY <2>1, <3>1, <1>4 DEF Lists, Sorted
  <2>2. CASE /\ j > Len(s) /\ j - Len(s) \in 1 .. k
             /\ scheduled'[j].cmd = q[j - Len(s)].cmd /\ (scheduled'[j].final <=> q[j - Len(s)].final)
    <3>1. j - Len(s) \in 1 .. Len(q)
      BY SMTT(30), <2>2, <1>1
    <3>2. CASE i \in 1 .. Len(s) /\ scheduled'[i] = s[i]
      <4>1. Before(s[i], q[j - Len(s)])
        BY <3>1, <3>2 DEF Lists, Cross
      <4> QED BY <4>1, <2>2, <3>2 DEF Before
    <3>3. CASE /\ i - Len(s) \in 1 .. k
               /\ scheduled'[i].cmd = q[i - Len(s)].cmd /\ (scheduled'[i].final <=> q[i - Len(s)].final)
      <4>1. i - Len(s) \in 1 .. Len(q) /\ i - Len(s) < j - Len(s)
        BY SMTT(30), <3>3, <1>1
      <4>2. Before(q[i - Len(s)], q[j - Len(s)])
        BY <3>1, <4>1 DEF Lists, Sorted
      <4> QED BY <4>2, <2>2, <3>3 DEF Before
    <3> QED BY <3>2, <3>3, <1>4
  <2> QED BY <2>1, <2>2, <1>4
<1>10. Cross(scheduled', queued')
  <2> SUFFICES ASSUME NEW i \in 1 .. Len(scheduled'), NEW j \in 1 .. Len(queued')
               PROVE  Before(scheduled'[i], queued'[j])
    BY DEF Cross
  <2>1. CASE i \in 1 .. Len(s) /\ scheduled'[i] = s[i]
    BY <2>1, <1>2 DEF Lists, Cross
  <2>2. CASE /\ i - Len(s) \in 1 .. k
             /\ scheduled'[i].cmd = q[i - Len(s)].cmd /\ (scheduled'[i].final <=> q[i - Len(s)].final)
    <3>1. i - Len(s) \in 1 .. Len(q) /\ i - Len(s) < k + j
      BY SMTT(30), <2>2, <1>1
    <3>2. Before(q[i - Len(s)], q[k + j])
      BY <3>1, <1>2 DEF Lists, Sorted
    <3> QED BY <3>2, <2>2, <1>2 DEF Before
  <2> QED BY <2>1, <2>2, <1>4
<1>11. OnRing(scheduled', enqueue', laid')
  <2>1. Len(laid') = enqueue' /\ Len(scheduled') <= enqueue'
    BY <1>1, <1>5
  <2>2. ASSUME NEW i \in 1 .. Len(scheduled')
        PROVE  /\ scheduled'[i].pos = enqueue' - Len(scheduled') + i - 1
               /\ scheduled'[i] = laid'[enqueue' - Len(scheduled') + i]
    <3>1. enqueue' - Len(scheduled') = enqueue - Len(s)
      BY <1>1, <1>5
    <3>2. CASE i \in 1 .. Len(s) /\ scheduled'[i] = s[i]
      <4>1. s[i].pos = enqueue - Len(s) + i - 1 /\ s[i] = laid[enqueue - Len(s) + i]
        BY <3>2 DEF Lists, OnRing
      <4>2. enqueue - Len(s) + i \in 1 .. Len(laid)
        BY <3>2, <1>1, <1>5
      <4> QED BY <4>1, <4>2, <3>1, <3>2, <1>3
    <3>3. CASE /\ i - Len(s) \in 1 .. k
               /\ scheduled'[i].pos = enqueue + (i - Len(s)) - 1
               /\ scheduled'[i] = laid'[Len(laid) + (i - Len(s))]
      <4>1. enqueue + (i - Len(s)) - 1 = enqueue - Len(s) + i - 1
            /\ Len(laid) + (i - Len(s)) = enqueue - Len(s) + i
        BY <1>1, <1>5
      <4> QED BY <4>1, <3>1, <3>3
    <3> QED BY <3>2, <3>3, <1>4
  <2> QED BY <2>1, <2>2 DEF OnRing
<1> QED BY <1>1, <1>5, <1>6, <1>7, <1>8, <1>9, <1>10, <1>11 DEF Lists

\* The same requests wait before and after a move.
LEMMA MovesWaits ==
  ASSUME enqueue \in Nat, NEW s \in Seq(TDs), NEW q \in Seq(TDs), NEW dq, laid \in Seq(TDs), NEW k,
         Moves(s, q, dq, k)
  PROVE  /\ \A c : Waits(c, scheduled', queued') <=> Waits(c, s, q)
         /\ \A c : WaitsIn(c, scheduled') \/ WaitsIn(c, queued') <=> WaitsIn(c, s) \/ WaitsIn(c, q)
<1>1. /\ k \in Nat /\ k <= Len(q) /\ Len(q) \in Nat /\ Len(s) \in Nat
      /\ Len(scheduled') = Len(s) + k /\ Len(queued') = Len(q) - k
  BY MovesElements
<1>2. \A i \in 1 .. Len(queued') : k + i \in 1 .. Len(q) /\ queued'[i] = q[k + i]
  <2>1. \A i \in 1 .. Len(q) - k : queued'[i] = q[k + i]
    BY MovesElements
  <2> QED BY <1>1, <2>1
<1>3. \A i \in k + 1 .. Len(q) : i - k \in 1 .. Len(queued') /\ queued'[i - k] = q[i]
  <2> TAKE i \in k + 1 .. Len(q)
  <2>1. i - k \in 1 .. Len(queued') /\ k + (i - k) = i
    BY <1>1
  <2> QED BY <2>1, <1>2
<1>4. \A i \in 1 .. Len(scheduled') :
        \/ i \in 1 .. Len(s) /\ scheduled'[i] = s[i]
        \/ /\ i - Len(s) \in 1 .. Len(q)
           /\ scheduled'[i].cmd = q[i - Len(s)].cmd /\ (scheduled'[i].final <=> q[i - Len(s)].final)
  <2> TAKE i \in 1 .. Len(scheduled')
  <2>1. \/ i \in 1 .. Len(s) /\ scheduled'[i] = s[i]
        \/ /\ i - Len(s) \in 1 .. k
           /\ scheduled'[i].cmd = q[i - Len(s)].cmd /\ (scheduled'[i].final <=> q[i - Len(s)].final)
    BY MovesOrigin
  <2>2. i - Len(s) \in 1 .. k => i - Len(s) \in 1 .. Len(q)
    BY <1>1
  <2> QED BY <2>1, <2>2
<1>5. \A i \in 1 .. Len(s) : i \in 1 .. Len(scheduled') /\ scheduled'[i] = s[i]
  <2>1. \A i \in 1 .. Len(s) : scheduled'[i] = s[i]
    BY MovesElements
  <2> QED BY <2>1, <1>1
<1>6. \A j \in 1 .. k : /\ Len(s) + j \in 1 .. Len(scheduled') /\ scheduled'[Len(s) + j].cmd = q[j].cmd
                        /\ (scheduled'[Len(s) + j].final <=> q[j].final)
  <2>1. \A j \in 1 .. k : /\ scheduled'[Len(s) + j].cmd = q[j].cmd
                          /\ (scheduled'[Len(s) + j].final <=> q[j].final)
    BY MovesElements
  <2> QED BY <2>1, <1>1
<1>7. \A i \in 1 .. Len(q) : i \in 1 .. k \/ i \in k + 1 .. Len(q)
  BY <1>1
<1>8. ASSUME NEW c PROVE Waits(c, scheduled', queued') <=> Waits(c, s, q)
  <2>1. ASSUME Waits(c, scheduled', queued') PROVE Waits(c, s, q)
    BY <2>1, <1>2, <1>4 DEF Waits
  <2>2. ASSUME Waits(c, s, q) PROVE Waits(c, scheduled', queued')
    <3>1. CASE \E i \in 1 .. Len(s) : s[i].cmd = c
      BY <3>1, <1>5 DEF Waits
    <3>2. CASE \E i \in 1 .. Len(q) : q[i].cmd = c
      <4>1. PICK i \in 1 .. Len(q) : q[i].cmd = c
        BY <3>2
      <4>2. CASE i \in k + 1 .. Len(q)
        <5>1. i - k \in 1 .. Len(queued') /\ queued'[i - k].cmd = c
          BY <4>1, <4>2, <1>3
        <5> QED BY <5>1 DEF Waits
      <4>3. CASE i \in 1 .. k
        <5>1. Len(s) + i \in 1 .. Len(scheduled') /\ scheduled'[Len(s) + i].cmd = c
          BY <4>1, <4>3, <1>6
        <5> QED BY <5>1 DEF Waits
      <4> QED BY <4>2, <4>3, <1>7
    <3> QED BY <2>2, <3>1, <3>2 DEF Waits
  <2> QED BY <2>1, <2>2
<1>9. ASSUME NEW c PROVE WaitsIn(c, scheduled') \/ WaitsIn(c, queued') <=> WaitsIn(c, s) \/ WaitsIn(c, q)
  <2>1. ASSUME WaitsIn(c, scheduled') \/ WaitsIn(c, queued') PROVE WaitsIn(c, s) \/ WaitsIn(c, q)
    <3>1. CASE WaitsIn(c, queued')
      BY <3>1, <1>2 DEF WaitsIn
    <3>2. CASE WaitsIn(c, scheduled')
      <4>1. PICK i \in 1 .. Len(scheduled') : scheduled'[i].cmd = c /\ scheduled'[i].final
        BY <3>2 DEF WaitsIn
      <4>2. CASE i \in 1 .. Len(s) /\ scheduled'[i] = s[i]
        BY <4>1, <4>2 DEF WaitsIn
      <4>3. CASE /\ i - Len(s) \in 1 .. Len(q)
                 /\ scheduled'[i].cmd = q[i - Len(s)].cmd /\ (scheduled'[i].final <=> q[i - Len(s)].final)
        <5>1. q[i - Len(s)].cmd = c /\ q[i - Len(s)].final
          BY <4>1, <4>3
        <5> QED BY <5>1, <4>3 DEF WaitsIn
      <4> QED BY <4>2, <4>3, <1>4
    <3> QED BY <2>1, <3>1, <3>2
  <2>2. ASSUME WaitsIn(c, s) \/ WaitsIn(c, q) PROVE WaitsIn(c, scheduled') \/ WaitsIn(c, queued')
    <3>1. CASE WaitsIn(c, s)
      BY <3>1, <1>5 DEF WaitsIn
    <3>2. CASE WaitsIn(c, q)
      <4>1. PICK i \in 1 .. Len(q) : q[i].cmd = c /\ q[i].final
        BY <3>2 DEF WaitsIn
      <4>2. CASE i \in k + 1 .. Len(q)
        <5>1. i - k \in 1 .. Len(queued') /\ queued'[i - k].cmd = c /\ queued'[i - k].final
          BY <4>1, <4>2, <1>3
        <5> QED BY <5>1 DEF WaitsIn
      <4>3. CASE i \in 1 .. k
        <5>1. /\ Len(s) + i \in 1 .. Len(scheduled') /\ scheduled'[Len(s) + i].cmd = c
              /\ scheduled'[Len(s) + i].final
          BY <4>1, <4>3, <1>6
        <5> QED BY <5>1 DEF WaitsIn
      <4> QED BY <4>2, <4>3, <1>7
    <3> QED BY <2>2, <3>1, <3>2
  <2> QED BY <2>1, <2>2
<1> QED BY <1>8, <1>9

\* Nothing that was asked for is lost.
LEMMA MovesAsked ==
  ASSUME enqueue \in Nat, NEW s, NEW q, NEW dq \in 0 .. NumTRBs - 1, NEW k,
         Lists(s, q, dq, enqueue, laid), Moves(s, q, dq, k),
         NEW ret, NEW req, NEW ref, Asked(s, q, ret, req, ref, laid)
  PROVE  Asked(scheduled', queued', ret, req, ref, laid')
<1>0. s \in Seq(TDs) /\ q \in Seq(TDs) /\ laid \in Seq(TDs)
  BY DEF Lists
<1>1. \A c : Waits(c, scheduled', queued') <=> Waits(c, s, q)
  BY <1>0, MovesWaits
<1>2. \A c : WaitsIn(c, scheduled') \/ WaitsIn(c, queued') <=> WaitsIn(c, s) \/ WaitsIn(c, q)
  BY <1>0, MovesWaits
<1>3. \A c : Waits(c, s, q) => c <= req
  BY DEF Waits, Asked
<1>4. \A i \in 1 .. Len(scheduled') : scheduled'[i].cmd <= req
  <2>1. \A i \in 1 .. Len(scheduled') : Waits(scheduled'[i].cmd, scheduled', queued')
    BY DEF Waits
  <2> QED BY <2>1, <1>1, <1>3
<1>5. \A i \in 1 .. Len(queued') : queued'[i].cmd <= req
  <2>1. \A i \in 1 .. Len(queued') : Waits(queued'[i].cmd, scheduled', queued')
    BY DEF Waits
  <2> QED BY <2>1, <1>1, <1>3
<1>6. \A i \in 1 .. Len(laid') : laid'[i].cmd <= req
  <2>1. /\ k \in Nat /\ Len(s) \in Nat /\ Len(laid) \in Nat /\ Len(laid') = Len(laid) + k
        /\ Len(scheduled') = Len(s) + k
        /\ \A j \in 1 .. k : scheduled'[Len(s) + j] = laid'[Len(laid) + j]
        /\ \A i \in 1 .. Len(laid) : laid'[i] = laid[i]
    BY SMTT(30), <1>0, MovesElements
  <2> TAKE i \in 1 .. Len(laid')
  <2>2. CASE i \in 1 .. Len(laid)
    BY <2>1, <2>2 DEF Asked
  <2>3. CASE i \notin 1 .. Len(laid)
    <3> DEFINE j == i - Len(laid)
    <3>1. j \in 1 .. k /\ Len(laid) + j = i /\ Len(s) + j \in 1 .. Len(scheduled')
      BY <2>1, <2>3
    <3> HIDE DEF j
    <3>2. laid'[i] = scheduled'[Len(s) + j]
      BY <2>1, <3>1
    <3> QED BY <3>1, <3>2, <1>4
  <2> QED BY <2>2, <2>3
<1>7. \A l \in 1 .. Len(ret), c \in Nat : Waits(c, scheduled', queued') => ret[l].cmd < c
  BY <1>1 DEF Asked
<1>8. \A c \in 1 .. req :
        c \in ref \/ (\E l \in 1 .. Len(ret) : ret[l].cmd = c) \/ WaitsIn(c, scheduled') \/ WaitsIn(c, queued')
  BY <1>2 DEF Asked
<1> QED BY <1>4, <1>5, <1>6, <1>7, <1>8 DEF Asked

\* TDs laid out are not off the schedule, nor carried out, nor of requests that were returned.
LEMMA MovesDone ==
  ASSUME enqueue \in Nat, NEW s, NEW q, NEW dq \in 0 .. NumTRBs - 1, NEW k,
         Lists(s, q, dq, enqueue, laid), Moves(s, q, dq, k), NEW rn
  PROVE  /\ OffDone(s, q, enqueue, laid, rn) => OffDone(scheduled', queued', enqueue', laid', rn)
         /\ \A ret, req, ref : Asked(s, q, ret, req, ref, laid) /\ SuccessDone(ret, laid, rn)
                                 => SuccessDone(ret, laid', rn)
         /\ \A h \in Nat : h <= enqueue /\ PastDone(s, h, rn) => PastDone(scheduled', h, rn)
<1>0. s \in Seq(TDs) /\ q \in Seq(TDs) /\ laid \in Seq(TDs)
  BY DEF Lists
<1>1. /\ k \in Nat /\ Len(s) \in Nat /\ Len(laid) \in Nat /\ Len(laid') = Len(laid) + k
      /\ Len(scheduled') = Len(s) + k /\ scheduled' \in Seq(TDs)
      /\ \A j \in 1 .. k : scheduled'[Len(s) + j] = laid'[Len(laid) + j]
      /\ \A i \in 1 .. Len(laid) : laid'[i] = laid[i]
  BY SMTT(30), <1>0, MovesElements
<1>2. \A c : Waits(c, scheduled', queued') <=> Waits(c, s, q)
  BY <1>0, MovesWaits
<1>3. enqueue' = enqueue + k /\ Len(laid) = enqueue /\ Len(s) <= enqueue
  BY DEF Moves, Lists, OnRing
<1>4. ASSUME OffDone(s, q, enqueue, laid, rn) PROVE OffDone(scheduled', queued', enqueue', laid', rn)
  <2> SUFFICES ASSUME NEW j \in 1 .. enqueue' - Len(scheduled'), Waits(laid'[j].cmd, scheduled', queued')
               PROVE  Id(laid'[j]) \in rn
    BY DEF OffDone
  <2>1. j \in 1 .. enqueue - Len(s) /\ j \in 1 .. Len(laid)
    BY <1>1, <1>3
  <2>2. laid'[j] = laid[j]
    BY <2>1, <1>1
  <2> QED BY <2>1, <2>2, <1>2, <1>4 DEF OffDone
<1>5. ASSUME NEW ret, NEW req, NEW ref, Asked(s, q, ret, req, ref, laid), SuccessDone(ret, laid, rn)
      PROVE  SuccessDone(ret, laid', rn)
  <2> SUFFICES ASSUME NEW l \in 1 .. Len(ret), NEW j \in 1 .. Len(laid'),
                      ret[l].rc = "success", laid'[j].cmd = ret[l].cmd
               PROVE  Id(laid'[j]) \in rn
    BY DEF SuccessDone
  <2>1. CASE j \in 1 .. Len(laid)
    BY <2>1, <1>1, <1>5 DEF SuccessDone
  <2>2. CASE j \notin 1 .. Len(laid)
    <3> DEFINE i == j - Len(laid)
    <3>1. i \in 1 .. k /\ Len(laid) + i = j /\ Len(s) + i \in 1 .. Len(scheduled')
      BY <2>2, <1>1
    <3> HIDE DEF i
    <3>2. laid'[j] = scheduled'[Len(s) + i]
      BY <3>1, <1>1
    <3>3. laid'[j] \in TDs
      BY <3>1, <3>2, <1>1, SeqOf
    <3>4. laid'[j].cmd \in Nat
      BY <3>3 DEF TDs
    <3>5. Waits(laid'[j].cmd, scheduled', queued')
      BY <3>1, <3>2 DEF Waits
    <3>6. ret[l].cmd < laid'[j].cmd
      BY <3>4, <3>5, <1>2, <1>5 DEF Asked
    <3> QED BY <3>4, <3>6
  <2> QED BY <2>1, <2>2
<1>6. ASSUME NEW h \in Nat, h <= enqueue, PastDone(s, h, rn) PROVE PastDone(scheduled', h, rn)
  <2> SUFFICES ASSUME NEW i \in 1 .. Len(scheduled'), scheduled'[i].pos < h PROVE Id(scheduled'[i]) \in rn
    BY DEF PastDone
  <2>1. \/ i \in 1 .. Len(s) /\ scheduled'[i] = s[i]
        \/ i - Len(s) \in 1 .. k /\ scheduled'[i].pos = enqueue + (i - Len(s)) - 1
    BY <1>0, MovesOrigin
  <2>2. CASE i \in 1 .. Len(s) /\ scheduled'[i] = s[i]
    BY <2>2, <1>6 DEF PastDone
  <2>3. CASE i - Len(s) \in 1 .. k /\ scheduled'[i].pos = enqueue + (i - Len(s)) - 1
    BY <2>3, <1>1, <1>6
  <2> QED BY <2>1, <2>2, <2>3
<1> QED BY <1>4, <1>5, <1>6

\* An event that stands for a TD stands for the same one after a move, unless the use of its index
\* has passed to another.
LEMMA MovesEvents ==
  ASSUME enqueue \in Nat, NEW s, NEW q, NEW dq \in 0 .. NumTRBs - 1, NEW k,
         Lists(s, q, dq, enqueue, laid), Moves(s, q, dq, k), ~mixed', NEW rn,
         NEW ev, \A j \in 1 .. Len(ev) : \E i \in DOMAIN events : ev[j] = events[i],
         EventDone(s, ev, rn)
  PROVE  EventDone(scheduled', ev, rn)
<1>0. s \in Seq(TDs) /\ q \in Seq(TDs) /\ laid \in Seq(TDs)
  BY DEF Lists
<1>1. k \in Nat /\ Len(s) \in Nat /\ \A i \in 1 .. Len(s) : scheduled'[i] = s[i]
  BY <1>0, MovesElements
<1>2. SUFFICES ASSUME NEW j \in 1 .. Len(ev), NEW i \in 1 .. Len(scheduled'),
                      ev[j].index = Index(scheduled'[i].pos), NEW l \in 1 .. i
               PROVE  Id(scheduled'[l]) \in rn
  BY DEF EventDone
<1>3. \/ i \in 1 .. Len(s) /\ scheduled'[i] = s[i]
      \/ i - Len(s) \in 1 .. k /\ scheduled'[i].pos = enqueue + (i - Len(s)) - 1
  BY <1>0, MovesOrigin
<1>4. CASE i \in 1 .. Len(s) /\ scheduled'[i] = s[i]
  <2>1. Id(s[l]) \in rn
    BY <1>2, <1>4 DEF EventDone
  <2>2. l \in 1 .. Len(s)
    BY <1>1, <1>4
  <2> QED BY <2>1, <2>2, <1>1
<1>5. CASE i - Len(s) \in 1 .. k /\ scheduled'[i].pos = enqueue + (i - Len(s)) - 1
  <2>1. enqueue + (i - Len(s)) - 1 \in enqueue .. enqueue + k - 1
    BY <1>1, <1>5
  <2>2. PICK m \in DOMAIN events : ev[j] = events[m]
    OBVIOUS
  <2>3. Overlaps(k)
    BY <2>1, <2>2, <1>2, <1>5 DEF Overlaps
  <2> QED BY <2>3 DEF Moves
<1> QED BY <1>3, <1>4, <1>5

-----------------------------------------------------------------------------
(* An operation: what is left of the lists once TDs were taken or added, and *)
(* the move from there.                                                    *)

Mid(s, q, dq, ret, req, ref, h, ev) ==
  /\ Lists(s, q, dq, enqueue, laid) /\ Asked(s, q, ret, req, ref, laid)
  /\ ret \in Seq(Returns) /\ req \in Nat /\ ref \subseteq Nat
  /\ h \in Nat /\ h <= enqueue /\ PastDone(s, h, ran)
  /\ ev \in Seq(Events) /\ \A j \in 1 .. Len(ev) : \E i \in DOMAIN events : ev[j] = events[i]
  /\ ~mixed => /\ EventDone(s, ev, ran) /\ OffDone(s, q, enqueue, laid, ran)
               /\ SuccessDone(ret, laid, ran)

\* The invariant holds after the move, if the queue was only left alone with the schedule empty
\* when kept says so.
LEMMA Moved ==
  ASSUME TypeInv, NEW s, NEW q, NEW dq \in 0 .. NumTRBs - 1, NEW k, Moves(s, q, dq, k),
         NEW ret, NEW req, NEW ref, NEW h, NEW ev, Mid(s, q, dq, ret, req, ref, h, ev),
         returned' = ret, requests' = req, refused' = ref, hw' = h, events' = ev, ran' = ran,
         dequeueIndex' = dq, lastSeenDequeueIndex' = lastSeenDequeueIndex,
         epState' \in {"running", "stopped", "halted"}, failures' \in Nat,
         s = <<>> /\ ~mixed /\ epState' # "halted" => Used(dq, enqueue) = 0,
         \/ kept' = TRUE
         \/ /\ kept' = FALSE /\ (k = Len(q) \/ k = FreeSlots(dq, enqueue))
            /\ s = <<>> /\ ~mixed => Used(dq, enqueue) = 0
  PROVE  Inv'
<1>1. enqueue \in Nat
  BY DEF TypeInv
<1>2. Lists(s, q, dq, enqueue, laid) /\ Asked(s, q, ret, req, ref, laid)
  BY DEF Mid
<1>3. s \in Seq(TDs) /\ q \in Seq(TDs) /\ laid \in Seq(TDs)
  BY <1>2 DEF Lists
<1>4. Lists(scheduled', queued', dequeueIndex', enqueue', laid') /\ enqueue' \in Nat
  BY <1>1, <1>2, MovesLists
<1>5. Asked(scheduled', queued', returned', requests', refused', laid')
  BY <1>1, <1>2, MovesAsked
<1>6. PastDone(scheduled', hw', ran')
  BY <1>1, <1>2, MovesDone DEF Mid
<1>7. ~mixed' => ~mixed
  BY DEF Moves
<1>8. ~mixed' => EventDone(scheduled', events', ran')
  <2> SUFFICES ASSUME ~mixed' PROVE EventDone(scheduled', ev, ran)
    OBVIOUS
  <2>1. EventDone(s, ev, ran) /\ \A j \in 1 .. Len(ev) : \E i \in DOMAIN events : ev[j] = events[i]
    BY <1>7 DEF Mid
  <2> QED BY <2>1, <1>1, <1>2, MovesEvents
<1>9. ~mixed' => OffDone(scheduled', queued', enqueue', laid', ran')
  BY <1>1, <1>2, <1>7, MovesDone DEF Mid
<1>10. ~mixed' => SuccessDone(returned', laid', ran')
  BY <1>1, <1>2, <1>7, MovesDone DEF Mid
<1>11. enqueue' = enqueue + k /\ k \in Nat /\ mixed' \in BOOLEAN /\ Len(scheduled') = Len(s) + k /\ Len(s) \in Nat
       /\ Len(queued') = Len(q) - k /\ Len(q) \in Nat /\ scheduled' \in Seq(TDs) /\ queued' \in Seq(TDs)
  <2>1. enqueue' = enqueue + k /\ mixed' \in BOOLEAN
    BY DEF Moves
  <2> QED BY <2>1, <1>1, <1>3, MovesElements
<1>12. TypeInv'
  <2>1. hw' \in Nat /\ hw' <= enqueue'
    BY SMTT(30), <1>1, <1>11 DEF Mid
  <2>2. kept' \in BOOLEAN
    OBVIOUS
  <2>3. returned' \in Seq(Returns) /\ requests' \in Nat /\ refused' \subseteq Nat /\ events' \in Seq(Events)
    BY DEF Mid
  <2>4. lastSeenDequeueIndex' \in 0 .. NumTRBs - 1 /\ dequeueIndex' \in 0 .. NumTRBs - 1
    BY DEF TypeInv
  <2> QED BY <1>4, <1>11, <2>1, <2>2, <2>3, <2>4 DEF TypeInv
<1>13. scheduled' = <<>> => k = 0 /\ s = <<>>
  BY <1>3, <1>11, SeqOf
<1>14. Queue(scheduled, queued, dequeueIndex, enqueue)'
  <2>1. ASSUME ~mixed', epState' # "halted", scheduled' = <<>> PROVE Used(dequeueIndex', enqueue') = 0
    <3>1. Used(dq, enqueue) = 0 /\ enqueue' = enqueue
      BY <2>1, <1>1, <1>7, <1>11, <1>13
    <3> QED BY <3>1
  <2>2. ASSUME ~mixed', ~kept', scheduled' = <<>> PROVE queued' = <<>>
    <3>1. k = 0 /\ s = <<>> /\ (k = Len(q) \/ k = FreeSlots(dq, enqueue)) /\ Used(dq, enqueue) = 0
      BY <2>2, <1>7, <1>13
    <3>2. FreeSlots(dq, enqueue) = NumTRBs - 1 - Used(dq, enqueue)
      <4>1. enqueue \in Int
        BY <1>1
      <4> QED BY <4>1, UsedBack
    <3>3. Len(q) = 0
      BY <3>1, <3>2, Slots
    <3> QED BY <3>1, <3>3, <1>11, SeqOf
  <2> QED BY <2>1, <2>2 DEF Queue
<1> QED BY <1>4, <1>5, <1>6, <1>8, <1>9, <1>10, <1>12, <1>14 DEF Inv

-----------------------------------------------------------------------------
(* What the operations return.                                             *)

\* x is one of the TDs taken.
IsTaken(x, s, q, a, b) == (\E i \in 1 .. a : s[i] = x) \/ (\E i \in 1 .. b : q[i] = x)
IsIn(x, d) == \E i \in 1 .. Len(d) : d[i] = x

\* Two lists of TDs in the order of their requests make a list in that order.
LEMMA SortedConcat ==
  ASSUME NEW d \in Seq(TDs), NEW f \in Seq(TDs), Sorted(d), Sorted(f), Cross(d, f)
  PROVE  /\ d \o f \in Seq(TDs) /\ Sorted(d \o f)
         /\ \A x : IsIn(x, d \o f) <=> IsIn(x, d) \/ IsIn(x, f)
<1> DEFINE t == d \o f
<1>1. /\ t \in Seq(TDs) /\ Len(t) = Len(d) + Len(f) /\ Len(d) \in Nat /\ Len(f) \in Nat
      /\ \A i \in 1 .. Len(d) + Len(f) : t[i] = IF i <= Len(d) THEN d[i] ELSE f[i - Len(d)]
  BY ConcatProperties, SeqOf
<1> HIDE DEF t
<1>2. \A i \in 1 .. Len(t) : \/ i \in 1 .. Len(d) /\ t[i] = d[i]
                             \/ i > Len(d) /\ i - Len(d) \in 1 .. Len(f) /\ t[i] = f[i - Len(d)]
  BY <1>1
<1>3. Sorted(t)
  <2> SUFFICES ASSUME NEW i \in 1 .. Len(t), NEW j \in 1 .. Len(t), i < j PROVE Before(t[i], t[j])
    BY DEF Sorted
  <2>1. CASE j \in 1 .. Len(d) /\ t[j] = d[j]
    <3>1. i \in 1 .. Len(d) /\ ~(i > Len(d))
      BY <1>1, <2>1
    <3> QED BY <3>1, <2>1, <1>2 DEF Sorted
  <2>2. CASE j - Len(d) \in 1 .. Len(f) /\ t[j] = f[j - Len(d)]
    <3>1. CASE i \in 1 .. Len(d) /\ t[i] = d[i]
      BY <3>1, <2>2 DEF Cross
    <3>2. CASE i - Len(d) \in 1 .. Len(f) /\ t[i] = f[i - Len(d)]
      <4>1. i - Len(d) < j - Len(d)
        BY <1>1
      <4> QED BY <4>1, <3>2, <2>2 DEF Sorted
    <3> QED BY <3>1, <3>2, <1>2
  <2> QED BY <2>1, <2>2, <1>2
<1>4. \A i \in 1 .. Len(d) : i \in 1 .. Len(t) /\ t[i] = d[i]
  BY <1>1
<1>5. \A i \in 1 .. Len(f) : i + Len(d) \in 1 .. Len(t) /\ t[i + Len(d)] = f[i]
  <2> TAKE i \in 1 .. Len(f)
  <2>1. i + Len(d) \in 1 .. Len(t) /\ ~(i + Len(d) <= Len(d)) /\ (i + Len(d)) - Len(d) = i
    BY <1>1
  <2> QED BY <2>1, <1>1
<1>6. \A x : IsIn(x, t) <=> IsIn(x, d) \/ IsIn(x, f)
  BY <1>2, <1>4, <1>5 DEF IsIn
<1> QED BY <1>1, <1>3, <1>6 DEF t

\* Lists d and f hold the TDs taken; the entries c are of those in d with rc1, of those in f with rc2.
AreTaken(d, f, s, q, a, b) == \A x : IsIn(x, d) \/ IsIn(x, f) <=> IsTaken(x, s, q, a, b)
EntriesOf(c, d, rc1, f, rc2) ==
  \A l \in 1 .. Len(c) :
    \/ c[l].rc = rc1 /\ \E i \in 1 .. Len(d) : d[i].final /\ d[i].cmd = c[l].cmd
    \/ c[l].rc = rc2 /\ \E i \in 1 .. Len(f) : f[i].final /\ f[i].cmd = c[l].cmd

\* The completions of two lists that together hold the TDs taken, the first before the second.
LEMMA TakenTwo ==
  ASSUME NEW s \in Seq(TDs), NEW q \in Seq(TDs), NEW a, NEW b,
         NEW d \in Seq(TDs), NEW f \in Seq(TDs), Sorted(d), Sorted(f), Cross(d, f),
         AreTaken(d, f, s, q, a, b),
         NEW rc1 \in Status, NEW rc2 \in Status, NEW c, c = Completions(d, rc1) \o Completions(f, rc2)
  PROVE  /\ Taken(c, s, q, a, b)
         /\ EntriesOf(c, d, rc1, f, rc2)
<1> DEFINE g == Completions(d, rc1)
           h == Completions(f, rc2)
<1>1. Entries(g, d, rc1, Len(d)) /\ Entries(h, f, rc2, Len(f))
  BY CompletionsOf
<1> HIDE DEF g, h
<1>2. g \in Seq(Returns) /\ h \in Seq(Returns) /\ c = g \o h
  BY <1>1 DEF Entries, g, h
<1>3. /\ c \in Seq(Returns) /\ Len(c) = Len(g) + Len(h) /\ Len(g) \in Nat /\ Len(h) \in Nat
      /\ \A i \in 1 .. Len(g) + Len(h) : c[i] = IF i <= Len(g) THEN g[i] ELSE h[i - Len(g)]
  BY <1>2, ConcatProperties, SeqOf
<1>4. \A l \in 1 .. Len(c) : \/ l \in 1 .. Len(g) /\ c[l] = g[l]
                             \/ l > Len(g) /\ l - Len(g) \in 1 .. Len(h) /\ c[l] = h[l - Len(g)]
  BY <1>3
<1>5. \A l \in 1 .. Len(g) : l \in 1 .. Len(c) /\ c[l] = g[l]
  BY <1>3
<1>6. \A l \in 1 .. Len(h) : l + Len(g) \in 1 .. Len(c) /\ c[l + Len(g)] = h[l]
  <2> TAKE l \in 1 .. Len(h)
  <2>1. l + Len(g) \in 1 .. Len(c) /\ ~(l + Len(g) <= Len(g)) /\ (l + Len(g)) - Len(g) = l
    BY <1>3
  <2> QED BY <2>1, <1>3
<1>7. \A l \in 1 .. Len(g) : g[l].rc = rc1 /\ \E i \in 1 .. Len(d) : d[i].final /\ g[l].cmd = d[i].cmd
  BY <1>1 DEF Entries
<1>8. \A l \in 1 .. Len(h) : h[l].rc = rc2 /\ \E i \in 1 .. Len(f) : f[i].final /\ h[l].cmd = f[i].cmd
  BY <1>1 DEF Entries
<1>9. \A l \in 1 .. Len(c) :
        \/ c[l].rc = rc1 /\ \E i \in 1 .. Len(d) : d[i].final /\ d[i].cmd = c[l].cmd
        \/ c[l].rc = rc2 /\ \E i \in 1 .. Len(f) : f[i].final /\ f[i].cmd = c[l].cmd
  <2> TAKE l \in 1 .. Len(c)
  <2>1. CASE l \in 1 .. Len(g) /\ c[l] = g[l]
    BY <2>1, <1>7
  <2>2. CASE l - Len(g) \in 1 .. Len(h) /\ c[l] = h[l - Len(g)]
    BY <2>2, <1>8
  <2> QED BY <2>1, <2>2, <1>4
<1>10. \A l, m \in 1 .. Len(c) : l < m => c[l].cmd < c[m].cmd
  <2> SUFFICES ASSUME NEW l \in 1 .. Len(c), NEW m \in 1 .. Len(c), l < m PROVE c[l].cmd < c[m].cmd
    OBVIOUS
  <2>1. CASE m \in 1 .. Len(g) /\ c[m] = g[m]
    <3>1. l \in 1 .. Len(g) /\ ~(l > Len(g))
      BY SMTT(30), <1>3, <2>1
    <3> QED BY <3>1, <2>1, <1>1, <1>4 DEF Entries
  <2>2. CASE m - Len(g) \in 1 .. Len(h) /\ c[m] = h[m - Len(g)]
    <3>1. CASE l \in 1 .. Len(g) /\ c[l] = g[l]
      <4>1. PICK i \in 1 .. Len(d) : d[i].final /\ g[l].cmd = d[i].cmd
        BY <3>1, <1>7
      <4>2. PICK j \in 1 .. Len(f) : f[j].final /\ h[m - Len(g)].cmd = f[j].cmd
        BY <2>2, <1>8
      <4>3. Before(d[i], f[j])
        BY DEF Cross
      <4> QED BY <4>1, <4>2, <4>3, <2>2, <3>1 DEF Before
    <3>2. CASE l - Len(g) \in 1 .. Len(h) /\ c[l] = h[l - Len(g)]
      <4>1. l - Len(g) < m - Len(g)
        BY <1>3
      <4> QED BY <4>1, <3>2, <2>2, <1>1 DEF Entries
    <3> QED BY <3>1, <3>2, <1>4
  <2> QED BY <2>1, <2>2, <1>4
<1>11. \A x : x.final /\ IsTaken(x, s, q, a, b) => \E l \in 1 .. Len(c) : c[l].cmd = x.cmd
  <2> SUFFICES ASSUME NEW x, x.final, IsTaken(x, s, q, a, b) PROVE \E l \in 1 .. Len(c) : c[l].cmd = x.cmd
    OBVIOUS
  <2>1. CASE IsIn(x, d)
    <3>1. PICK i \in 1 .. Len(d) : d[i] = x
      BY <2>1 DEF IsIn
    <3>2. PICK l \in 1 .. Len(g) : g[l].cmd = x.cmd
      BY <3>1, <1>1 DEF Entries
    <3> QED BY <3>2, <1>5
  <2>2. CASE IsIn(x, f)
    <3>1. PICK i \in 1 .. Len(f) : f[i] = x
      BY <2>2 DEF IsIn
    <3>2. PICK l \in 1 .. Len(h) : h[l].cmd = x.cmd
      BY <3>1, <1>1 DEF Entries
    <3> QED BY <3>2, <1>6
  <2> QED BY <2>1, <2>2 DEF AreTaken
<1>12. \A l \in 1 .. Len(c) : \/ \E i \in 1 .. a : s[i].final /\ s[i].cmd = c[l].cmd
                              \/ \E i \in 1 .. b : q[i].final /\ q[i].cmd = c[l].cmd
  <2> TAKE l \in 1 .. Len(c)
  <2>1. PICK x : x.final /\ x.cmd = c[l].cmd /\ (IsIn(x, d) \/ IsIn(x, f))
    BY <1>9 DEF IsIn
  <2>2. IsTaken(x, s, q, a, b)
    BY <2>1 DEF AreTaken
  <2> QED BY <2>1, <2>2 DEF IsTaken
<1>13. \A i \in 1 .. a : s[i].final => \E l \in 1 .. Len(c) : c[l].cmd = s[i].cmd
  BY <1>11 DEF IsTaken
<1>14. \A i \in 1 .. b : q[i].final => \E l \in 1 .. Len(c) : c[l].cmd = q[i].cmd
  BY <1>11 DEF IsTaken
<1> QED BY <1>3, <1>9, <1>10, <1>12, <1>13, <1>14 DEF Taken, EntriesOf

\* So a step that returns them appends such entries.
Appends(ret, d, rc1, f, rc2, s, q, a, b) ==
  \E c : /\ ret \o Completions(d, rc1) \o Completions(f, rc2) = ret \o c
         /\ Taken(c, s, q, a, b)
         /\ EntriesOf(c, d, rc1, f, rc2)

\* And they are.
LEMMA ReturnTwo ==
  ASSUME NEW s \in Seq(TDs), NEW q \in Seq(TDs), NEW a, NEW b,
         NEW d \in Seq(TDs), NEW f \in Seq(TDs), Sorted(d), Sorted(f), Cross(d, f),
         AreTaken(d, f, s, q, a, b),
         NEW rc1 \in Status, NEW rc2 \in Status, NEW ret \in Seq(Returns)
  PROVE  Appends(ret, d, rc1, f, rc2, s, q, a, b)
<1> DEFINE g == Completions(d, rc1)
           h == Completions(f, rc2)
           c == g \o h
<1>1. /\ Taken(c, s, q, a, b)
      /\ EntriesOf(c, d, rc1, f, rc2)
  <2> HIDE DEF c
  <2>1. c = Completions(d, rc1) \o Completions(f, rc2)
    BY DEF c
  <2> QED BY <2>1, TakenTwo
<1>2. g \in Seq(Returns) /\ h \in Seq(Returns)
  BY CompletionsOf DEF Entries
<1> HIDE DEF g, h
<1>3. ret \o g \o h = ret \o c
  BY SMTT(30), <1>2, ConcatAssociative
<1> HIDE DEF c
<1> QED BY <1>1, <1>3 DEF Appends, g, h

\* The TDs before the k-th, that one, the j after it, and the first m of the queue: what RetireTDs
\* and the flush put on the done queue.
LEMMA DoneQueue ==
  ASSUME NEW s, NEW q, NEW dq, NEW e, NEW ld, Lists(s, q, dq, e, ld),
         NEW k \in 1 .. Len(s), NEW j \in 0 .. Len(s) - k, NEW m \in 0 .. Len(q)
  PROVE  LET orphans == SubSeq(s, 1, k - 1)
             one     == <<s[k]>>
             rest    == From(s, k + 1)
             same    == SubSeq(rest, 1, j)
             first   == SubSeq(q, 1, m)
         IN  /\ orphans \in Seq(TDs) /\ one \in Seq(TDs) /\ one \o same \o first \in Seq(TDs)
             /\ Sorted(orphans) /\ Sorted(one) /\ Sorted(one \o same \o first)
             /\ Cross(orphans, one) /\ Cross(orphans, one \o same \o first)
             /\ Len(orphans) = k - 1 /\ \A i \in 1 .. k - 1 : orphans[i] = s[i]
             /\ Len(one) = 1 /\ one[1] = s[k]
             /\ \A x : IsIn(x, orphans) \/ IsIn(x, one) <=> IsTaken(x, s, q, k, 0)
             /\ \A x : IsIn(x, orphans) \/ IsIn(x, one \o same \o first) <=> IsTaken(x, s, q, k + j, m)
<1> DEFINE orphans == SubSeq(s, 1, k - 1)
           one     == <<s[k]>>
           rest    == From(s, k + 1)
           same    == SubSeq(rest, 1, j)
           first   == SubSeq(q, 1, m)
<1>1. /\ s \in Seq(TDs) /\ q \in Seq(TDs) /\ Len(s) \in Nat /\ Len(q) \in Nat
      /\ k \in Nat /\ k >= 1 /\ k <= Len(s) /\ j \in Nat /\ k + j <= Len(s) /\ m \in Nat /\ m <= Len(q)
  <2>1. s \in Seq(TDs) /\ q \in Seq(TDs)
    BY DEF Lists
  <2>2. Len(s) \in Nat /\ Len(q) \in Nat
    BY <2>1, SeqOf
  <2> QED BY <2>1, <2>2
<1>2. orphans \in Seq(TDs) /\ Len(orphans) = k - 1 /\ \A i \in 1 .. k - 1 : orphans[i] = s[i]
  <2>1. k - 1 \in 0 .. Len(s)
    BY <1>1
  <2> QED BY <1>1, <2>1, FirstOf
<1>3. one \in Seq(TDs) /\ Len(one) = 1 /\ one[1] = s[k]
  BY <1>1, SeqOf
<1>4. rest \in Seq(TDs) /\ Len(rest) = Len(s) - k /\ \A i \in 1 .. Len(s) - k : rest[i] = s[k + i]
  <2>1. k \in 0 .. Len(s)
    BY <1>1
  <2> QED BY <1>1, <2>1, FromOf
<1> HIDE DEF orphans, one, rest
<1>5. same \in Seq(TDs) /\ Len(same) = j /\ \A i \in 1 .. j : same[i] = s[k + i]
  <2>1. j \in 0 .. Len(rest)
    BY <1>1, <1>4
  <2>2. same \in Seq(TDs) /\ Len(same) = j /\ \A i \in 1 .. j : same[i] = rest[i]
    BY <1>4, <2>1, FirstOf
  <2>3. \A i \in 1 .. j : i \in 1 .. Len(s) - k
    BY <1>1
  <2> QED BY <1>4, <2>2, <2>3
<1>6. first \in Seq(TDs) /\ Len(first) = m /\ \A i \in 1 .. m : first[i] = q[i]
  BY <1>1, FirstOf
<1> HIDE DEF same, first
<1>7. \A i, n \in 1 .. Len(s) : i < n => Before(s[i], s[n])
  BY DEF Lists, Sorted
<1>8. Sorted(orphans)
  <2>1. \A i \in 1 .. k - 1 : i \in 1 .. Len(s)
    BY <1>1
  <2> QED BY <1>2, <1>7, <2>1 DEF Sorted
<1>9. Sorted(one)
  <2>1. \A i, n \in 1 .. 1 : ~(i < n)
    OBVIOUS
  <2> QED BY <1>3, <2>1 DEF Sorted
<1>10. Sorted(same)
  <2> SUFFICES ASSUME NEW i \in 1 .. j, NEW n \in 1 .. j, i < n PROVE Before(same[i], same[n])
    BY <1>5 DEF Sorted
  <2>1. k + i \in 1 .. Len(s) /\ k + n \in 1 .. Len(s) /\ k + i < k + n
    BY <1>1
  <2> QED BY <2>1, <1>5, <1>7
<1>11. Sorted(first)
  <2>1. \A i \in 1 .. m : i \in 1 .. Len(q)
    BY <1>1
  <2>2. \A i, n \in 1 .. Len(q) : i < n => Before(q[i], q[n])
    BY DEF Lists, Sorted
  <2> QED BY <1>6, <2>1, <2>2 DEF Sorted
<1>12. Cross(one, same)
  <2> SUFFICES ASSUME NEW n \in 1 .. j PROVE Before(s[k], same[n])
    BY <1>3, <1>5 DEF Cross
  <2>1. k + n \in 1 .. Len(s) /\ k < k + n
    BY <1>1
  <2> QED BY <2>1, <1>5, <1>7
<1> DEFINE two == one \o same
<1>13. two \in Seq(TDs) /\ Sorted(two) /\ \A x : IsIn(x, two) <=> IsIn(x, one) \/ IsIn(x, same)
  BY <1>3, <1>5, <1>9, <1>10, <1>12, SortedConcat
<1> HIDE DEF two
<1>14. \A x : IsIn(x, orphans) <=> \E i \in 1 .. k - 1 : s[i] = x
  BY <1>2 DEF IsIn
<1>15. \A x : IsIn(x, one) <=> x = s[k]
  <2>1. 1 \in 1 .. 1 /\ \A i \in 1 .. 1 : i = 1
    OBVIOUS
  <2> QED BY <1>3, <2>1 DEF IsIn
<1>16. \A x : IsIn(x, same) <=> \E i \in k + 1 .. k + j : s[i] = x
  <2>1. \A i \in 1 .. j : k + i \in k + 1 .. k + j
    BY <1>1
  <2>2. \A i \in k + 1 .. k + j : i - k \in 1 .. j /\ same[i - k] = s[i]
    <3> TAKE i \in k + 1 .. k + j
    <3>1. i - k \in 1 .. j /\ k + (i - k) = i
      BY <1>1
    <3> QED BY <3>1, <1>5
  <2> QED BY <2>1, <2>2, <1>5 DEF IsIn
<1>17. \A x : IsIn(x, first) <=> \E i \in 1 .. m : q[i] = x
  BY <1>6 DEF IsIn
<1>18. Cross(two, first)
  <2> SUFFICES ASSUME NEW i \in 1 .. Len(two), NEW n \in 1 .. m PROVE Before(two[i], q[n])
    BY <1>6 DEF Cross
  <2>1. IsIn(two[i], two)
    BY DEF IsIn
  <2>2. PICK l \in 1 .. Len(s) : s[l] = two[i]
    <3>1. IsIn(two[i], one) \/ IsIn(two[i], same)
      BY <1>13, <2>1
    <3>2. k \in 1 .. Len(s) /\ \A l \in k + 1 .. k + j : l \in 1 .. Len(s)
      BY <1>1
    <3> QED BY <1>15, <1>16, <3>1, <3>2
  <2>3. n \in 1 .. Len(q)
    BY <1>1
  <2> QED BY <2>2, <2>3 DEF Lists, Cross
<1> DEFINE three == two \o first
<1>19. three \in Seq(TDs) /\ Sorted(three) /\ \A x : IsIn(x, three) <=> IsIn(x, two) \/ IsIn(x, first)
  BY <1>6, <1>11, <1>13, <1>18, SortedConcat
<1> HIDE DEF three
<1>20. ASSUME NEW i \in 1 .. k - 1, NEW x, IsIn(x, three) PROVE Before(s[i], x)
  <2>0. i \in 1 .. Len(s) /\ k \in 1 .. Len(s) /\ i < k
    BY <1>1
  <2>1. CASE IsIn(x, one)
    BY <2>0, <2>1, <1>7, <1>15
  <2>2. CASE IsIn(x, same)
    <3>1. PICK l \in k + 1 .. k + j : s[l] = x
      BY <2>2, <1>16
    <3>2. l \in 1 .. Len(s) /\ i < l
      BY <1>1
    <3> QED BY <2>0, <3>1, <3>2, <1>7
  <2>3. CASE IsIn(x, first)
    <3>1. PICK l \in 1 .. m : q[l] = x
      BY <2>3, <1>17
    <3>2. l \in 1 .. Len(q)
      BY <1>1
    <3> QED BY <2>0, <3>1, <3>2 DEF Lists, Cross
  <2> QED BY <1>13, <1>19, <1>20, <2>1, <2>2, <2>3
<1>21. Cross(orphans, three)
  <2>1. \A n \in 1 .. Len(three) : IsIn(three[n], three)
    BY DEF IsIn
  <2> QED BY <2>1, <1>2, <1>20 DEF Cross
<1>22. Cross(orphans, one)
  <2>1. \A i \in 1 .. k - 1 : i \in 1 .. Len(s) /\ k \in 1 .. Len(s) /\ i < k
    BY <1>1
  <2>2. \A n \in 1 .. 1 : n = 1
    OBVIOUS
  <2> QED BY <2>1, <2>2, <1>2, <1>3, <1>7 DEF Cross
<1>23. \A x : IsIn(x, orphans) \/ IsIn(x, one) <=> IsTaken(x, s, q, k, 0)
  <2>1. \A i : i \in 1 .. k <=> i \in 1 .. k - 1 \/ i = k
    BY <1>1
  <2>2. 1 .. 0 = {}
    OBVIOUS
  <2> QED BY <2>1, <2>2, <1>14, <1>15 DEF IsTaken
<1>24. \A x : IsIn(x, orphans) \/ IsIn(x, three) <=> IsTaken(x, s, q, k + j, m)
  <2>1. \A i : i \in 1 .. k + j <=> i \in 1 .. k - 1 \/ i = k \/ i \in k + 1 .. k + j
    BY <1>1
  <2> QED BY <2>1, <1>13, <1>14, <1>15, <1>16, <1>17, <1>19 DEF IsTaken
<1>25. three = one \o same \o first
  BY DEF three, two
<1> QED BY <1>2, <1>3, <1>8, <1>9, <1>19, <1>21, <1>22, <1>23, <1>24, <1>25 DEF orphans, one, rest, same, first

\* After a flush no TD of its request waits.
LEMMA FlushGone ==
  ASSUME NEW s, NEW q, NEW dq, NEW e, NEW ld, Lists(s, q, dq, e, ld), NEW k \in 1 .. Len(s), NEW c, c = s[k].cmd,
         NEW j, j = Leading(From(s, k + 1), c), NEW m, m = Leading(q, c)
  PROVE  /\ Takes(s, q, k + j, m) /\ ~Waits(c, From(s, k + j + 1), From(q, m + 1))
         /\ j \in 0 .. Len(s) - k /\ \A i \in k .. k + j : s[i].cmd = c
<1> DEFINE rest == From(s, k + 1)
<1>1. /\ s \in Seq(TDs) /\ q \in Seq(TDs) /\ Len(s) \in Nat /\ Len(q) \in Nat /\ k \in Nat /\ k >= 1 /\ k <= Len(s)
  <2>1. s \in Seq(TDs) /\ q \in Seq(TDs)
    BY DEF Lists
  <2>2. Len(s) \in Nat /\ Len(q) \in Nat
    BY <2>1, SeqOf
  <2> QED BY <2>1, <2>2
<1>2. rest \in Seq(TDs) /\ Len(rest) = Len(s) - k /\ \A i \in 1 .. Len(s) - k : rest[i] = s[k + i]
  <2>1. k \in 0 .. Len(s)
    BY <1>1
  <2> QED BY <1>1, <2>1, FromOf
<1>3. j \in 0 .. Len(rest) /\ (\A i \in 1 .. j : rest[i].cmd = c) /\ (j < Len(rest) => rest[j + 1].cmd # c)
  BY <1>2, LeadingOf
<1>4. m \in 0 .. Len(q) /\ (\A i \in 1 .. m : q[i].cmd = c) /\ (m < Len(q) => q[m + 1].cmd # c)
  BY <1>1, LeadingOf
<1> HIDE DEF rest
<1>5. j \in 0 .. Len(s) - k /\ j \in Nat /\ k + j <= Len(s) /\ m \in Nat
  BY <1>1, <1>2, <1>3, <1>4
<1>6. \A i \in k .. k + j : s[i].cmd = c
  <2> TAKE i \in k .. k + j
  <2>1. CASE i # k
    <3>1. i - k \in 1 .. j /\ i - k \in 1 .. Len(s) - k /\ k + (i - k) = i
      BY <1>1, <1>5, <2>1
    <3> QED BY <3>1, <1>2, <1>3
  <2> QED BY <2>1
<1>7. k + j < Len(s) => s[k + j + 1].cmd # c
  <2> SUFFICES ASSUME k + j < Len(s) PROVE s[k + j + 1].cmd # c
    OBVIOUS
  <2>1. j < Len(rest) /\ j + 1 \in 1 .. Len(s) - k /\ k + (j + 1) = k + j + 1
    BY SMTT(30), <1>1, <1>2, <1>5
  <2> QED BY <2>1, <1>2, <1>3
<1>8. \A i \in 1 .. Len(s) : s[i].cmd \in Int
  <2>1. \A i \in 1 .. Len(s) : s[i] \in TDs
    BY <1>1, SeqOf
  <2> QED BY <2>1 DEF TDs
<1>9. \A i \in 1 .. Len(q) : q[i].cmd \in Int
  <2>1. \A i \in 1 .. Len(q) : q[i] \in TDs
    BY <1>1, SeqOf
  <2> QED BY <2>1 DEF TDs
<1>10. c \in Int /\ k \in 1 .. Len(s)
  BY <1>8
<1>11. \A i \in k + j + 1 .. Len(s) : i \in 1 .. Len(s) /\ s[i].cmd > c
  <2> TAKE i \in k + j + 1 .. Len(s)
  <2>1. i \in 1 .. Len(s) /\ k + j < Len(s) /\ k + j + 1 \in 1 .. Len(s) /\ k < k + j + 1
    BY SMTT(30), <1>1, <1>5
  <2>2. s[k].cmd <= s[k + j + 1].cmd
    BY <2>1, <1>10 DEF Lists, Sorted, Before
  <2>3. s[k + j + 1].cmd > c
    BY <2>1, <2>2, <1>7, <1>8, <1>10
  <2>4. i = k + j + 1 \/ k + j + 1 < i
    <3>1. i \in Int /\ i >= k + j + 1 /\ k + j + 1 \in Int
      BY <1>1, <1>5
    <3> QED BY <3>1
  <2>5. s[k + j + 1].cmd <= s[i].cmd
    <3>1. CASE i = k + j + 1
      BY <3>1, <2>1, <1>8
    <3>2. CASE k + j + 1 < i
      BY <3>2, <2>1 DEF Lists, Sorted, Before
    <3> QED BY <3>1, <3>2, <2>4
  <2> QED BY <2>1, <2>3, <2>5, <1>8, <1>10
<1>12. \A i \in m + 1 .. Len(q) : q[i].cmd # c
  <2> TAKE i \in m + 1 .. Len(q)
  <2>1. i \in 1 .. Len(q) /\ m < Len(q) /\ m + 1 \in 1 .. Len(q)
    BY <1>1, <1>5
  <2>2. c <= q[m + 1].cmd
    BY <2>1, <1>10 DEF Lists, Cross, Before
  <2>3. q[m + 1].cmd > c
    BY <2>1, <2>2, <1>4, <1>9, <1>10
  <2>4. i = m + 1 \/ m + 1 < i
    BY <1>5
  <2>5. q[m + 1].cmd <= q[i].cmd
    <3>1. CASE i = m + 1
      BY <3>1, <2>1, <1>9
    <3>2. CASE m + 1 < i
      BY <3>2, <2>1 DEF Lists, Sorted, Before
    <3> QED BY <3>1, <3>2, <2>4
  <2> QED BY <2>1, <2>3, <2>5, <1>9, <1>10
<1>13. m > 0 => k + j = Len(s)
  <2>0. k + j \in Int /\ Len(s) \in Int /\ k + j <= Len(s)
    BY <1>1, <1>5
  <2> SUFFICES ASSUME m > 0, k + j < Len(s) PROVE FALSE
    BY <2>0
  <2>1. 1 \in 1 .. m /\ 1 \in 1 .. Len(q) /\ k + j + 1 \in k + j + 1 .. Len(s)
    BY SMTT(30), <1>1, <1>4, <1>5
  <2>2. s[k + j + 1].cmd > c /\ k + j + 1 \in 1 .. Len(s)
    BY <2>1, <1>11
  <2>3. s[k + j + 1].cmd <= q[1].cmd
    BY <2>1, <2>2 DEF Lists, Cross, Before
  <2>4. q[1].cmd = c
    BY <2>1, <1>4
  <2> QED BY <2>2, <2>3, <2>4, <1>8, <1>10
<1>14. k + j \in 0 .. Len(s)
  BY <1>1, <1>5
<1>15. Takes(s, q, k + j, m)
  BY <1>4, <1>13, <1>14 DEF Takes
<1>16. ~Waits(c, From(s, k + j + 1), From(q, m + 1))
  <2> DEFINE a == k + j
  <2>1. Takes(s, q, a, m)
    BY <1>15
  <2>2. \A i \in a + 1 .. Len(s) : s[i].cmd # c
    BY <1>8, <1>10, <1>11
  <2> HIDE DEF a
  <2>3. ~Waits(c, From(s, a + 1), From(q, m + 1))
    BY <2>1, <2>2, <1>1, <1>12, TakesWaits
  <2> QED BY <2>3 DEF a
<1> QED BY <1>5, <1>6, <1>15, <1>16

-----------------------------------------------------------------------------
(* The operations.                                                         *)

\* Behind the k-th scheduled TD there are the slots of those after it.
LEMMA BehindTD ==
  ASSUME Inv, NEW k \in 1 .. Len(scheduled)
  PROVE  LET next == NextIndex(Index(scheduled[k].pos))
         IN  /\ next \in 0 .. NumTRBs - 1 /\ Used(next, enqueue) = Len(scheduled) - k
             /\ PositionOf(next) = scheduled[k].pos + 1
             /\ scheduled[k].pos + 1 = enqueue - Len(scheduled) + k
             /\ scheduled[k].pos + 1 \in Nat /\ scheduled[k].pos + 1 <= enqueue
<1> DEFINE p == scheduled[k].pos
           next == NextIndex(Index(p))
<1>1. /\ Len(scheduled) \in Nat /\ Len(scheduled) <= enqueue /\ enqueue \in Nat
      /\ Len(scheduled) <= Used(dequeueIndex, enqueue) /\ dequeueIndex \in 0 .. NumTRBs - 1
      /\ p = enqueue - Len(scheduled) + k - 1
  <2>1. scheduled \in Seq(TDs) /\ OnRing(scheduled, enqueue, laid)
        /\ Len(scheduled) <= Used(dequeueIndex, enqueue)
    BY DEF Inv, Lists
  <2>2. enqueue \in Nat /\ dequeueIndex \in 0 .. NumTRBs - 1
    BY DEF Inv, TypeInv
  <2> QED BY <2>1, <2>2, SeqOf DEF OnRing
<1>2. Len(scheduled) < NumTRBs
  <2>1. enqueue \in Int
    BY <1>1
  <2>2. Used(dequeueIndex, enqueue) \in 0 .. NumTRBs - 1
    BY <1>1, <2>1, UsedBack
  <2> QED BY <1>1, <2>2, Slots
<1> HIDE DEF p
<1>3. p \in Int /\ p + 1 \in Int /\ p + 1 = enqueue - Len(scheduled) + k /\ p + 1 \in Nat /\ p + 1 <= enqueue
      /\ enqueue - (p + 1) = Len(scheduled) - k /\ enqueue - (p + 1) < NumTRBs /\ enqueue \in Int
  BY <1>1, <1>2, Slots
<1>4. next = Index(p + 1)
  BY <1>3, IndexNext
<1> HIDE DEF next
<1>5. next \in 0 .. NumTRBs - 1
  BY <1>3, <1>4, IndexType
<1>6. Used(next, enqueue) = Len(scheduled) - k
  BY <1>3, <1>4, UsedSince
<1>7. PositionOf(next) = p + 1
  <2> DEFINE Turn == {x \in enqueue - NumTRBs + 1 .. enqueue : Index(x) = Index(next)}
  <2>1. Index(next) = next
    <3>1. next = NumTRBs * 0 + next /\ next \in Int /\ 0 \in Int
      BY <1>5, Slots
    <3>2. next % NumTRBs = next
      BY <1>5, <3>1, Remainder
    <3> QED BY <3>2 DEF Index
  <2>2. p + 1 \in Turn
    <3>1. p + 1 \in enqueue - NumTRBs + 1 .. enqueue
      BY <1>3, Slots
    <3> QED BY <3>1, <2>1, <1>4
  <2>3. \A x \in Turn : x = p + 1
    <3> TAKE x \in Turn
    <3>1. x \in Int /\ x >= enqueue - NumTRBs + 1 /\ x <= enqueue /\ Index(x) = Index(p + 1)
      BY <1>3, <1>4, <2>1, Slots
    <3>2. CASE x <= p + 1
      <4>1. (p + 1) - x < NumTRBs
        BY <1>3, <3>1, Slots
      <4> QED BY <4>1, <1>3, <3>1, <3>2, IndexSame
    <3>3. CASE x > p + 1
      <4>1. x - (p + 1) < NumTRBs /\ p + 1 <= x
        BY <1>3, <3>1, <3>3, Slots
      <4> QED BY <4>1, <1>3, <3>1, IndexSame
    <3> QED BY <1>3, <3>1, <3>2, <3>3
  <2>4. PositionOf(next) \in Turn
    BY <2>2 DEF PositionOf
  <2> QED BY <2>3, <2>4
<1> QED BY <1>3, <1>5, <1>6, <1>7 DEF next, p

\* What is left once TDs were taken off the lists and returned.
LEMMA TakenMid ==
  ASSUME Inv, NEW a, NEW b, Takes(scheduled, queued, a, b), NEW c, Taken(c, scheduled, queued, a, b),
         NEW dq, Len(scheduled) - a <= Used(dq, enqueue),
         NEW h \in Nat, h <= enqueue, PastDone(From(scheduled, a + 1), h, ran),
         NEW ev \in Seq(Events), \A j \in 1 .. Len(ev) : \E i \in DOMAIN events : ev[j] = events[i],
         ~mixed => \A i \in 1 .. a :
                     Waits(scheduled[i].cmd, From(scheduled, a + 1), From(queued, b + 1)) => Id(scheduled[i]) \in ran,
         ~mixed => \A l \in 1 .. Len(c) : c[l].rc = "success" =>
                     \E i \in 1 .. Len(scheduled) : /\ scheduled[i].final /\ scheduled[i].cmd = c[l].cmd
                                                    /\ \A m \in 1 .. i : Id(scheduled[m]) \in ran
  PROVE  Mid(From(scheduled, a + 1), From(queued, b + 1), dq, returned \o c, requests, refused, h, ev)
<1>1. /\ Lists(scheduled, queued, dequeueIndex, enqueue, laid)
      /\ Asked(scheduled, queued, returned, requests, refused, laid)
      /\ enqueue \in Nat /\ returned \in Seq(Returns) /\ requests \in Nat /\ refused \subseteq Nat
      /\ events \in Seq(Events)
  BY DEF Inv, TypeInv
<1>2. Lists(From(scheduled, a + 1), From(queued, b + 1), dq, enqueue, laid)
  BY <1>1, TakesLists
<1>3. /\ Asked(From(scheduled, a + 1), From(queued, b + 1), returned \o c, requests, refused, laid)
      /\ returned \o c \in Seq(Returns)
  BY <1>1, TakesAsked
<1>4. ASSUME ~mixed PROVE EventDone(From(scheduled, a + 1), ev, ran)
  <2>1. EventDone(scheduled, events, ran)
    BY <1>4 DEF Inv
  <2>2. EventDone(scheduled, ev, ran)
    <3>1. \A j \in 1 .. Len(ev) : \E i \in 1 .. Len(events) : ev[j] = events[i]
      BY <1>1, SeqOf
    <3>2. SUFFICES ASSUME NEW j \in 1 .. Len(ev), NEW i \in 1 .. Len(scheduled),
                          ev[j].index = Index(scheduled[i].pos)
                   PROVE  \A l \in 1 .. i : Id(scheduled[l]) \in ran
      BY DEF EventDone
    <3>3. PICK n \in 1 .. Len(events) : ev[j] = events[n]
      BY <3>1
    <3>4. events[n].index = Index(scheduled[i].pos)
      BY <3>2, <3>3
    <3> QED BY <2>1, <3>4 DEF EventDone
  <2>3. scheduled \in Seq(TDs) /\ a \in 0 .. Len(scheduled)
    BY <1>1 DEF Lists, Takes
  <2> QED BY <2>2, <2>3, TakesDone
<1>5. ASSUME ~mixed PROVE OffDone(From(scheduled, a + 1), From(queued, b + 1), enqueue, laid, ran)
  <2>1. OffDone(scheduled, queued, enqueue, laid, ran)
    BY <1>5 DEF Inv
  <2> QED BY <1>1, <1>5, <2>1, TakesOff
<1>6. ASSUME ~mixed PROVE SuccessDone(returned \o c, laid, ran)
  <2>1. OffDone(scheduled, queued, enqueue, laid, ran) /\ SuccessDone(returned, laid, ran)
    BY <1>6 DEF Inv
  <2>2. c \in Seq(Returns)
    BY DEF Taken
  <2> QED BY <1>1, <1>6, <2>1, <2>2, TakesSuccess
<1> QED BY <1>1, <1>2, <1>3, <1>4, <1>5, <1>6 DEF Mid

\* RetireTDs without a flush: the TD an event stands for, and the orphans before it.
LEMMA RetireOneKeeps ==
  ASSUME Inv, NEW k \in 1 .. Len(scheduled), NEW rc \in Codes,
         RetireOne(scheduled[k], From(scheduled, k + 1), NextIndex(Index(scheduled[k].pos)), hw,
                   SubSeq(scheduled, 1, k - 1), rc),
         ~mixed => \A i \in 1 .. k : Id(scheduled[i]) \in ran,
         events' \in Seq(Events), \A j \in 1 .. Len(events') : \E i \in DOMAIN events : events'[j] = events[i],
         UNCHANGED <<lastSeenDequeueIndex, requests, refused, ran>>
  PROVE  Inv'
<1> DEFINE dq == NextIndex(Index(scheduled[k].pos))
           d == SubSeq(scheduled, 1, k - 1)
           f == <<scheduled[k]>>
           s == From(scheduled, k + 1)
           q == From(queued, 1)
<1>1. /\ Lists(scheduled, queued, dequeueIndex, enqueue, laid) /\ TypeInv
      /\ scheduled \in Seq(TDs) /\ queued \in Seq(TDs) /\ Len(scheduled) \in Nat /\ Len(queued) \in Nat
      /\ returned \in Seq(Returns) /\ PastDone(scheduled, hw, ran) /\ hw \in Nat /\ hw <= enqueue
  BY SeqOf DEF Inv, Lists, TypeInv
<1>2. dq \in 0 .. NumTRBs - 1 /\ Used(dq, enqueue) = Len(scheduled) - k
  BY BehindTD
<1>3. /\ d \in Seq(TDs) /\ f \in Seq(TDs) /\ Sorted(d) /\ Sorted(f) /\ Cross(d, f)
      /\ Len(d) = k - 1 /\ \A i \in 1 .. k - 1 : d[i] = scheduled[i]
      /\ Len(f) = 1 /\ f[1] = scheduled[k]
      /\ \A x : IsIn(x, d) \/ IsIn(x, f) <=> IsTaken(x, scheduled, queued, k, 0)
  <2>1. 0 \in 0 .. Len(scheduled) - k /\ 0 \in 0 .. Len(queued)
    BY <1>1
  <2> QED BY <1>1, <2>1, DoneQueue
<1>4. q = queued
  BY <1>1, SubSeqFull DEF From
<1> HIDE DEF dq, d, f, q
<1>5. "success" \in Status /\ rc \in Status
  BY DEF Status, Codes
<1>6. returned' = returned \o Completions(d, "success") \o Completions(f, rc)
  BY DEF RetireOne, d, f
<1>7. PICK c : /\ returned \o Completions(d, "success") \o Completions(f, rc) = returned \o c
               /\ Taken(c, scheduled, queued, k, 0)
               /\ EntriesOf(c, d, "success", f, rc)
  <2>1. /\ scheduled \in Seq(TDs) /\ queued \in Seq(TDs) /\ returned \in Seq(Returns)
        /\ d \in Seq(TDs) /\ f \in Seq(TDs) /\ Sorted(d) /\ Sorted(f) /\ Cross(d, f)
        /\ AreTaken(d, f, scheduled, queued, k, 0)
    BY <1>1, <1>3 DEF AreTaken
  <2>2. Appends(returned, d, "success", f, rc, scheduled, queued, k, 0)
    BY <2>1, <1>5, ReturnTwo
  <2> QED BY <2>2 DEF Appends
<1>8. \A l \in 1 .. Len(c) : \E i \in 1 .. k : scheduled[i].final /\ scheduled[i].cmd = c[l].cmd
  <2> TAKE l \in 1 .. Len(c)
  <2>1. CASE \E i \in 1 .. Len(d) : d[i].final /\ d[i].cmd = c[l].cmd
    <3>1. PICK i \in 1 .. Len(d) : d[i].final /\ d[i].cmd = c[l].cmd
      BY <2>1
    <3>2. i \in 1 .. k - 1 /\ i \in 1 .. k
      BY <1>1, <1>3
    <3> QED BY <1>3, <3>1, <3>2
  <2>2. CASE \E i \in 1 .. Len(f) : f[i].final /\ f[i].cmd = c[l].cmd
    <3>1. k \in 1 .. k /\ \A i \in 1 .. 1 : i = 1
      BY <1>1
    <3> QED BY <1>3, <2>2, <3>1
  <2> QED BY <1>7, <2>1, <2>2 DEF EntriesOf
<1>9. Takes(scheduled, queued, k, 0)
  <2>1. k \in 0 .. Len(scheduled) /\ 0 \in 0 .. Len(queued) /\ ~(0 > 0)
    BY <1>1
  <2> QED BY <2>1 DEF Takes
<1>10. \A i \in 1 .. k : i \in 1 .. Len(scheduled) /\ \A m \in 1 .. i : m \in 1 .. k
  BY <1>1
<1>11. PastDone(s, hw, ran)
  <2>1. k \in 0 .. Len(scheduled)
    BY <1>9 DEF Takes
  <2> QED BY <1>1, <2>1, TakesDone
<1>12. Mid(s, q, dq, returned \o c, requests, refused, hw, events')
  <2>1. \A z : z = 0 => From(queued, z + 1) = q
    BY DEF q
  <2>2. Len(scheduled) - k <= Used(dq, enqueue)
    BY <1>1, <1>2
  <2>3. ~mixed => \A l \in 1 .. Len(c) : c[l].rc = "success" =>
                    \E i \in 1 .. Len(scheduled) : /\ scheduled[i].final /\ scheduled[i].cmd = c[l].cmd
                                                   /\ \A m \in 1 .. i : Id(scheduled[m]) \in ran
    BY <1>8, <1>10
  <2>4. \A b : b = 0 => Mid(From(scheduled, k + 1), From(queued, b + 1), dq, returned \o c, requests, refused,
                            hw, events')
    BY <1>1, <1>7, <1>9, <1>11, <2>2, <2>3, TakenMid
  <2> QED BY <2>1, <2>4
<1>13. ScheduleTDs(s, q, dq, epState) /\ dequeueIndex' = dq /\ hw' = hw
  BY <1>4 DEF RetireOne, dq
<1>14. epState \in {"running", "stopped", "halted"}
  BY <1>1 DEF TypeInv
<1>15. PICK n : /\ Moves(s, q, dq, n)
                /\ kept' = TRUE \/ (kept' = FALSE /\ (n = Len(q) \/ n = FreeSlots(dq, enqueue)))
                /\ epState' \in {"running", "stopped", "halted"} /\ failures' \in Nat
  BY <1>1, <1>2, <1>4, <1>13, <1>14, ScheduleMoves
<1>16. s = <<>> => Used(dq, enqueue) = 0
  <2>1. Len(s) = Len(scheduled) - k
    <3>1. k \in 0 .. Len(scheduled)
      BY <1>9 DEF Takes
    <3> QED BY <1>1, <3>1, FromOf
  <2>2. s = <<>> => Len(s) = 0
    BY EmptySeq
  <2> HIDE DEF s
  <2> QED BY <1>2, <2>1, <2>2
<1> HIDE DEF s
<1>17. returned' = returned \o c
  BY <1>6, <1>7
<1> QED BY <1>1, <1>2, <1>17, <1>12, <1>13, <1>15, <1>16, Moved

\* RetireTDs with a flush: what is left of the lists, with the dequeue pointers where they may be.
LEMMA FlushMid ==
  ASSUME Inv, NEW k \in 1 .. Len(scheduled), NEW c, c = scheduled[k].cmd,
         NEW j, j = Leading(From(scheduled, k + 1), c), NEW m, m = Leading(queued, c),
         NEW rc \in Status, rc # "success",
         ~mixed => \A i \in 1 .. k - 1 : Id(scheduled[i]) \in ran,
         NEW dq, Len(scheduled) - (k + j) <= Used(dq, enqueue),
         NEW h \in Nat, h <= enqueue, PastDone(From(scheduled, k + j + 1), h, ran),
         NEW ev \in Seq(Events), \A i \in 1 .. Len(ev) : \E l \in DOMAIN events : ev[i] = events[l]
  PROVE  Mid(From(scheduled, k + j + 1), From(queued, m + 1), dq,
             returned \o Completions(SubSeq(scheduled, 1, k - 1), "success")
                      \o Completions(<<scheduled[k]>> \o SubSeq(From(scheduled, k + 1), 1, j)
                                                      \o SubSeq(queued, 1, m), rc),
             requests, refused, h, ev)
<1> DEFINE d == SubSeq(scheduled, 1, k - 1)
           f == <<scheduled[k]>> \o SubSeq(From(scheduled, k + 1), 1, j) \o SubSeq(queued, 1, m)
           a == k + j
<1>1. /\ Lists(scheduled, queued, dequeueIndex, enqueue, laid)
      /\ scheduled \in Seq(TDs) /\ queued \in Seq(TDs) /\ Len(scheduled) \in Nat /\ Len(queued) \in Nat
      /\ returned \in Seq(Returns)
  BY SeqOf DEF Inv, Lists, TypeInv
<1>2. /\ Takes(scheduled, queued, a, m) /\ ~Waits(c, From(scheduled, a + 1), From(queued, m + 1))
      /\ j \in 0 .. Len(scheduled) - k /\ \A i \in k .. a : scheduled[i].cmd = c
  BY SMTT(30), <1>1, FlushGone
<1>3. /\ d \in Seq(TDs) /\ f \in Seq(TDs) /\ Sorted(d) /\ Sorted(f) /\ Cross(d, f)
      /\ Len(d) = k - 1 /\ \A i \in 1 .. k - 1 : d[i] = scheduled[i]
      /\ AreTaken(d, f, scheduled, queued, a, m)
  <2>1. m \in 0 .. Len(queued)
    BY <1>2 DEF Takes
  <2> QED BY ZenonT(40), <1>1, <1>2, <2>1, DoneQueue DEF AreTaken
<1> HIDE DEF d, f
<1>4. a \in Nat /\ k \in Nat /\ k >= 1 /\ j \in Nat
  <2>1. k \in 1 .. Len(scheduled) /\ Len(scheduled) \in Nat /\ j \in 0 .. Len(scheduled) - k
    BY <1>1, <1>2
  <2> QED BY SMTT(30), <2>1
<1> HIDE DEF a
<1>5. "success" \in Status
  BY DEF Status, Codes
<1>6. PICK t : /\ returned \o Completions(d, "success") \o Completions(f, rc) = returned \o t
               /\ Taken(t, scheduled, queued, a, m)
               /\ EntriesOf(t, d, "success", f, rc)
  <2>1. Appends(returned, d, "success", f, rc, scheduled, queued, a, m)
    BY <1>1, <1>3, <1>5, ReturnTwo
  <2> QED BY <2>1 DEF Appends
<1>7. ASSUME ~mixed, NEW i \in 1 .. a,
             Waits(scheduled[i].cmd, From(scheduled, a + 1), From(queued, m + 1))
      PROVE  Id(scheduled[i]) \in ran
  <2>1. i \notin k .. a
    BY <1>7, <1>2
  <2>2. i \in 1 .. k - 1
    BY <2>1, <1>4
  <2> QED BY <1>7, <2>2
<1>8. ASSUME ~mixed, NEW l \in 1 .. Len(t), t[l].rc = "success"
      PROVE  \E i \in 1 .. Len(scheduled) : /\ scheduled[i].final /\ scheduled[i].cmd = t[l].cmd
                                            /\ \A n \in 1 .. i : Id(scheduled[n]) \in ran
  <2>1. PICK i \in 1 .. Len(d) : d[i].final /\ d[i].cmd = t[l].cmd
    BY <1>6, <1>8 DEF EntriesOf
  <2>2. i \in 1 .. k - 1 /\ i \in 1 .. Len(scheduled) /\ \A n \in 1 .. i : n \in 1 .. k - 1
    BY <1>1, <1>3
  <2>3. d[i] = scheduled[i] /\ \A n \in 1 .. i : Id(scheduled[n]) \in ran
    BY <1>3, <1>8, <2>2
  <2> QED BY <2>1, <2>2, <2>3
<1>9. Mid(From(scheduled, a + 1), From(queued, m + 1), dq, returned \o t, requests, refused, h, ev)
  <2>1. Len(scheduled) - a <= Used(dq, enqueue) /\ PastDone(From(scheduled, a + 1), h, ran)
    BY DEF a
  <2> QED BY <1>2, <1>6, <1>7, <1>8, <2>1, TakenMid
<1> QED BY <1>6, <1>9 DEF a, d, f

\* The k-th TD and the j of its request that follow it are taken off one by one.
LEMMA FromFrom ==
  ASSUME NEW s \in Seq(TDs), NEW k \in 0 .. Len(s), NEW j \in 0 .. Len(s) - k
  PROVE  From(From(s, k + 1), j + 1) = From(s, k + j + 1)
<1> DEFINE x == From(s, k + 1)
           y == From(x, j + 1)
           z == From(s, (k + j) + 1)
<1>1. x \in Seq(TDs) /\ Len(x) = Len(s) - k /\ (\A i \in 1 .. Len(s) - k : x[i] = s[k + i]) /\ Len(s) \in Nat
  BY FromOf, SeqOf
<1> HIDE DEF x
<1>2. y \in Seq(TDs) /\ Len(y) = Len(x) - j /\ \A i \in 1 .. Len(x) - j : y[i] = x[j + i]
  <2>1. j \in 0 .. Len(x)
    BY <1>1
  <2> QED BY ZenonT(40), <1>1, <2>1, FromOf
<1> DEFINE a == k + j
<1>3. z \in Seq(TDs) /\ Len(z) = Len(s) - a /\ \A i \in 1 .. Len(s) - a : z[i] = s[a + i]
  <2>1. a \in 0 .. Len(s)
    BY <1>1
  <2> HIDE DEF a
  <2>2. From(s, a + 1) \in Seq(TDs) /\ Len(From(s, a + 1)) = Len(s) - a
        /\ \A i \in 1 .. Len(s) - a : From(s, a + 1)[i] = s[a + i]
    BY <2>1, FromOf
  <2> QED BY <2>2 DEF a
<1> HIDE DEF y, z
<1>4. Len(y) = Len(z)
  BY <1>1, <1>2, <1>3
<1>5. ASSUME NEW i \in 1 .. Len(y) PROVE y[i] = z[i]
  <2>1. i \in 1 .. Len(x) - j /\ j + i \in 1 .. Len(s) - k /\ i \in 1 .. Len(s) - a /\ k + (j + i) = a + i
    BY <1>1, <1>2
  <2>2. \A l : l = j + i => x[l] = s[k + l]
    BY <2>1, <1>1
  <2>3. y[i] = x[j + i] /\ z[i] = s[a + i]
    BY <2>1, <1>2, <1>3
  <2> QED BY <2>1, <2>2, <2>3
<1>6. y = z
  BY <1>2, <1>3, <1>4, <1>5, SeqEqual
<1> QED BY <1>6 DEF x, y, z

\* RetireTDs with a flush, in each of its cases.
LEMMA RetireAllKeeps ==
  ASSUME Inv, NEW k \in 1 .. Len(scheduled), NEW rc \in Status, rc # "success",
         NEW h \in Nat, h <= enqueue, PastDone(From(scheduled, k + 1), h, ran),
         NEW state \in {"running", "stopped", "halted"}, state = "halted" => epState = "halted",
         RetireAll(scheduled[k], From(scheduled, k + 1), NextIndex(Index(scheduled[k].pos)), h, state,
                   SubSeq(scheduled, 1, k - 1), rc),
         ~mixed => \A i \in 1 .. k - 1 : Id(scheduled[i]) \in ran,
         events' \in Seq(Events), \A i \in 1 .. Len(events') : \E l \in DOMAIN events : events'[i] = events[l],
         UNCHANGED <<lastSeenDequeueIndex, requests, refused, ran>>
  PROVE  Inv'
<1> DEFINE c    == scheduled[k].cmd
           sch  == From(scheduled, k + 1)
           j    == Leading(sch, c)
           m    == Leading(queued, c)
           rest == From(sch, j + 1)
           que  == From(queued, m + 1)
           next == NextIndex(Index(scheduled[k].pos))
           last == IF j > 0 THEN NextIndex(Index(sch[j].pos)) ELSE next
           ret  == returned \o Completions(SubSeq(scheduled, 1, k - 1), "success")
                            \o Completions(<<scheduled[k]>> \o SubSeq(sch, 1, j) \o SubSeq(queued, 1, m), rc)
<1>1. /\ Lists(scheduled, queued, dequeueIndex, enqueue, laid) /\ TypeInv
      /\ scheduled \in Seq(TDs) /\ queued \in Seq(TDs) /\ laid \in Seq(TDs)
      /\ Len(scheduled) \in Nat /\ Len(queued) \in Nat /\ enqueue \in Nat
  BY SeqOf DEF Inv, Lists, TypeInv
<1>2. j \in 0 .. Len(scheduled) - k /\ Takes(scheduled, queued, k + j, m)
  BY ZenonT(40), <1>1, FlushGone
<1>3. k \in Nat /\ k >= 1 /\ k <= Len(scheduled) /\ j \in Nat /\ k + j <= Len(scheduled)
  <2>1. k \in 1 .. Len(scheduled) /\ Len(scheduled) \in Nat /\ j \in 0 .. Len(scheduled) - k
    BY <1>1, <1>2
  <2> HIDE DEF j
  <2> QED BY <2>1
<1>4. /\ sch \in Seq(TDs) /\ Len(sch) = Len(scheduled) - k
      /\ \A i \in 1 .. Len(scheduled) - k : sch[i] = scheduled[k + i]
  <2>1. k \in 0 .. Len(scheduled)
    BY <1>1
  <2> QED BY <1>1, <2>1, FromOf
<1>5. rest = From(scheduled, k + j + 1)
  <2>1. k \in 0 .. Len(scheduled)
    BY <1>1
  <2> HIDE DEF j
  <2> QED BY <1>1, <1>2, <2>1, FromFrom
<1>6. m \in 0 .. Len(queued)
  BY <1>2 DEF Takes
<1>7. \A dq, p, ev :
        /\ Len(scheduled) - (k + j) <= Used(dq, enqueue)
        /\ p \in Nat /\ p <= enqueue /\ PastDone(rest, p, ran)
        /\ ev \in Seq(Events) /\ \A i \in 1 .. Len(ev) : \E l \in DOMAIN events : ev[i] = events[l]
        => Mid(rest, que, dq, ret, requests, refused, p, ev)
  <2> HIDE DEF j, m, c
  <2>1. c = scheduled[k].cmd /\ j = Leading(From(scheduled, k + 1), c) /\ m = Leading(queued, c)
    BY DEF j, m, c
  <2> QED BY <2>1, <1>5, FlushMid
<1> HIDE DEF j, m, rest, que, ret
<1>8. /\ rest \in Seq(TDs) /\ Len(rest) = Len(scheduled) - (k + j)
      /\ \A i \in 1 .. Len(rest) : rest[i] \in TDs /\ rest[i] = scheduled[k + j + i]
  <2> DEFINE a == k + j
  <2>1. a \in 0 .. Len(scheduled)
    BY SMTT(30), <1>1, <1>3
  <2> HIDE DEF a
  <2>2. From(scheduled, a + 1) \in Seq(TDs) /\ Len(From(scheduled, a + 1)) = Len(scheduled) - a
        /\ \A i \in 1 .. Len(scheduled) - a : From(scheduled, a + 1)[i] = scheduled[a + i]
    BY <1>1, <2>1, FromOf
  <2>3. rest = From(scheduled, a + 1)
    BY <1>5 DEF a
  <2>4. \A i \in 1 .. Len(rest) : rest[i] \in TDs
    BY <2>2, <2>3, SeqOf
  <2> QED BY <2>2, <2>3, <2>4 DEF a
<1>9. que \in Seq(TDs)
  BY <1>1, <1>6, FromOf DEF que
<1>10. PastDone(rest, h, ran)
  <2>1. j \in 0 .. Len(sch)
    BY <1>2, <1>4
  <2> HIDE DEF sch
  <2>2. PastDone(sch, h, ran)
    BY DEF sch
  <2> QED BY <1>4, <2>1, <2>2, TakesDone DEF rest
<1>11. next \in 0 .. NumTRBs - 1 /\ Used(next, enqueue) = Len(scheduled) - k
       /\ Len(scheduled) - (k + j) <= Used(next, enqueue)
  <2>1. next \in 0 .. NumTRBs - 1 /\ Used(next, enqueue) = Len(scheduled) - k
    BY BehindTD
  <2> HIDE DEF next
  <2> QED BY <1>1, <1>3, <2>1
<1>12. /\ last \in 0 .. NumTRBs - 1 /\ Used(last, enqueue) = Len(scheduled) - (k + j)
       /\ j > 0 => /\ PositionOf(last) \in Nat /\ PositionOf(last) <= enqueue
                   /\ PositionOf(last) = enqueue - Len(scheduled) + (k + j)
  <2>1. CASE j > 0
    <3>1. j \in 1 .. Len(scheduled) - k /\ k + j \in 1 .. Len(scheduled)
      BY <1>1, <1>2, <1>3, <2>1
    <3>2. last = NextIndex(Index(scheduled[k + j].pos))
      BY <1>4, <2>1, <3>1
    <3> HIDE DEF last
    <3>3. \A x \in 1 .. Len(scheduled) : \A y : y = NextIndex(Index(scheduled[x].pos)) =>
            /\ y \in 0 .. NumTRBs - 1 /\ Used(y, enqueue) = Len(scheduled) - x
            /\ PositionOf(y) = scheduled[x].pos + 1
            /\ scheduled[x].pos + 1 = enqueue - Len(scheduled) + x
            /\ scheduled[x].pos + 1 \in Nat /\ scheduled[x].pos + 1 <= enqueue
      BY BehindTD
    <3> QED BY <3>1, <3>2, <3>3
  <2>2. CASE ~(j > 0)
    <3>1. j = 0 /\ k + j = k
      BY <1>3, <2>2
    <3> QED BY <1>11, <2>2, <3>1
  <2> QED BY <2>1, <2>2
<1>13. lastSeenDequeueIndex' = lastSeenDequeueIndex /\ requests' = requests /\ refused' = refused /\ ran' = ran
  OBVIOUS
<1>14. returned' = ret
  BY DEF RetireAll, FlushLength, ret, j, m
<1>15. \/ /\ state = "running" /\ rest # <<>>
          /\ dequeueIndex' = next /\ hw' = h /\ ScheduleTDs(rest, que, next, state)
       \/ /\ state = "running" /\ rest = <<>>
          /\ dequeueIndex' = Index(enqueue) /\ hw' = enqueue /\ ScheduleTDs(<<>>, que, Index(enqueue), "stopped")
       \/ /\ state = "halted"
          /\ dequeueIndex' = next /\ hw' = h /\ LeaveQueue(rest, que) /\ kept' = TRUE
       \/ /\ state = "stopped"
          /\ dequeueIndex' = last /\ hw' = IF j > 0 THEN PositionOf(last) ELSE h
          /\ ScheduleTDs(rest, que, last, IF rest # <<>> THEN "running" ELSE state)
  BY DEF RetireAll, FlushLength, rest, que, j, m
<1> HIDE DEF next, last, sch
<1>16. ASSUME NEW dq \in 0 .. NumTRBs - 1, NEW p \in Nat, p <= enqueue, PastDone(rest, p, ran),
              Len(scheduled) - (k + j) <= Used(dq, enqueue), rest = <<>> => Used(dq, enqueue) = 0,
              NEW st \in {"running", "stopped", "halted"}, ScheduleTDs(rest, que, dq, st),
              dequeueIndex' = dq, hw' = p
       PROVE  Inv'
  <2>1. PICK n : /\ Moves(rest, que, dq, n)
                 /\ kept' = TRUE \/ (kept' = FALSE /\ (n = Len(que) \/ n = FreeSlots(dq, enqueue)))
                 /\ epState' \in {"running", "stopped", "halted"} /\ failures' \in Nat
    BY <1>1, <1>9, <1>16, ScheduleMoves
  <2>2. Mid(rest, que, dq, ret, requests, refused, p, events')
    BY <1>7, <1>16
  <2> QED BY <1>1, <1>13, <1>14, <1>16, <2>1, <2>2, Moved
<1>17. rest = <<>> => Len(scheduled) - (k + j) = 0
  BY <1>8, EmptySeq
<1>18. CASE state = "running" /\ rest # <<>> /\ dequeueIndex' = next /\ hw' = h
            /\ ScheduleTDs(rest, que, next, state)
  BY <1>10, <1>11, <1>16, <1>18
<1>19. CASE state = "running" /\ rest = <<>> /\ dequeueIndex' = Index(enqueue) /\ hw' = enqueue
            /\ ScheduleTDs(<<>>, que, Index(enqueue), "stopped")
  <2>1. Index(enqueue) \in 0 .. NumTRBs - 1 /\ Used(Index(enqueue), enqueue) = 0
    <3>1. enqueue \in Int /\ enqueue <= enqueue /\ enqueue - enqueue < NumTRBs /\ enqueue - enqueue = 0
      BY <1>1, Slots
    <3> QED BY <3>1, IndexType, UsedSince
  <2>2. PastDone(rest, enqueue, ran)
    <3>1. Len(rest) = 0
      BY <1>19, EmptySeq
    <3>2. 1 .. 0 = {}
      OBVIOUS
    <3> QED BY <3>1, <3>2 DEF PastDone
  <2>3. Len(scheduled) - (k + j) <= Used(Index(enqueue), enqueue)
    BY <1>17, <1>19, <2>1
  <2>4. ScheduleTDs(rest, que, Index(enqueue), "stopped") /\ enqueue <= enqueue
    BY <1>1, <1>19
  <2>5. \A x : x = Index(enqueue) => x \in 0 .. NumTRBs - 1 /\ Used(x, enqueue) = 0
               /\ Len(scheduled) - (k + j) <= Used(x, enqueue) /\ ScheduleTDs(rest, que, x, "stopped")
               /\ dequeueIndex' = x
    BY <1>19, <2>1, <2>3, <2>4
  <2> QED BY <1>1, <1>16, <1>19, <2>2, <2>4, <2>5
<1>20. CASE state = "halted" /\ dequeueIndex' = next /\ hw' = h /\ LeaveQueue(rest, que) /\ kept' = TRUE
  <2>1. Moves(rest, que, next, 0)
    BY <1>1, <1>8, <1>9, <1>11, <1>20, LeaveMoves
  <2>2. Mid(rest, que, next, ret, requests, refused, h, events')
    BY <1>7, <1>10, <1>11
  <2>3. epState' = "halted" /\ failures' \in Nat
    BY <1>1, <1>20 DEF LeaveQueue, TypeInv
  <2> QED BY <1>1, <1>11, <1>13, <1>14, <1>20, <2>1, <2>2, <2>3, Moved
<1>21. CASE state = "stopped" /\ dequeueIndex' = last /\ hw' = (IF j > 0 THEN PositionOf(last) ELSE h)
            /\ ScheduleTDs(rest, que, last, IF rest # <<>> THEN "running" ELSE state)
  <2> DEFINE p  == IF j > 0 THEN PositionOf(last) ELSE h
             st == IF rest # <<>> THEN "running" ELSE state
  <2>1. p \in Nat /\ p <= enqueue
    BY <1>12
  <2>2. PastDone(rest, p, ran)
    <3>1. CASE j > 0
      <4>1. p = enqueue - Len(scheduled) + (k + j)
        BY <1>12, <3>1
      <4> HIDE DEF p
      <4>2. ASSUME NEW i \in 1 .. Len(rest) PROVE ~(rest[i].pos < p)
        <5>1. k + j + i \in 1 .. Len(scheduled)
          BY SMTT(30), <1>1, <1>3, <1>8
        <5>2. scheduled[k + j + i].pos = enqueue - Len(scheduled) + (k + j + i) - 1
          BY <1>1, <5>1 DEF Lists, OnRing
        <5>3. rest[i].pos = enqueue - Len(scheduled) + (k + j + i) - 1
          BY <1>8, <5>2
        <5>4. enqueue - Len(scheduled) + (k + j + i) - 1 >= p
          BY <1>1, <1>3, <1>8, <4>1
        <5> QED BY <1>1, <1>3, <4>1, <5>3, <5>4
      <4> QED BY <4>2 DEF PastDone
    <3>2. CASE ~(j > 0)
      BY <1>10, <3>2
    <3> QED BY <3>1, <3>2
  <2>3. Len(scheduled) - (k + j) <= Used(last, enqueue) /\ (rest = <<>> => Used(last, enqueue) = 0)
    BY <1>1, <1>3, <1>12, <1>17
  <2>4. st \in {"running", "stopped", "halted"} /\ ScheduleTDs(rest, que, last, st) /\ hw' = p
    BY <1>21
  <2> HIDE DEF p, st
  <2> QED BY <1>12, <1>16, <1>21, <2>1, <2>2, <2>3, <2>4
<1> QED BY <1>15, <1>18, <1>19, <1>20, <1>21

\* The events that are left when the oldest is taken, or lost.
LEMMA TailEvents ==
  ASSUME TypeInv, events # <<>>
  PROVE  /\ Head(events) \in Events /\ Head(events) = events[1] /\ 1 \in 1 .. Len(events)
         /\ Tail(events) \in Seq(Events) /\ \A j \in 1 .. Len(Tail(events)) : \E i \in DOMAIN events : Tail(events)[j] = events[i]
<1>1. events \in Seq(Events)
  BY DEF TypeInv
<1>2. Len(events) \in Nat /\ DOMAIN events = 1 .. Len(events) /\ Len(events) # 0
  BY <1>1, SeqOf
<1>3. /\ Head(events) \in Events /\ Tail(events) \in Seq(Events) /\ Len(Tail(events)) = Len(events) - 1
      /\ \A i \in 1 .. Len(Tail(events)) : Tail(events)[i] = events[i + 1]
  BY <1>1, <1>2, HeadTailProperties
<1>4. Head(events) = events[1] /\ 1 \in 1 .. Len(events)
  BY <1>1, <1>2
<1>5. \A j \in 1 .. Len(Tail(events)) : j + 1 \in DOMAIN events
  BY <1>2, <1>3
<1> QED BY <1>3, <1>4, <1>5

\* While a TD is scheduled the ring does not look empty to the driver.
LEMMA NotEmpty ==
  ASSUME Inv, scheduled # <<>>
  PROVE  Index(enqueue) # dequeueIndex
<1>1. scheduled \in Seq(TDs) /\ Len(scheduled) <= Used(dequeueIndex, enqueue) /\ enqueue \in Nat
  BY DEF Inv, TypeInv, Lists
<1>2. Len(scheduled) \in Nat /\ Len(scheduled) # 0
  BY <1>1, SeqOf
<1>3. Used(Index(enqueue), enqueue) = 0
  <2>1. enqueue \in Int /\ enqueue <= enqueue /\ enqueue - enqueue < NumTRBs /\ enqueue - enqueue = 0
    BY <1>1, Slots
  <2> QED BY <2>1, UsedSince
<1>4. SUFFICES ASSUME Index(enqueue) = dequeueIndex PROVE FALSE
  OBVIOUS
<1>5. Used(dequeueIndex, enqueue) = 0
  BY <1>3, <1>4
<1> QED BY <1>1, <1>2, <1>5

\* processTransferEvent2 finds the TD an event stands for: it and the orphans before it are done.
LEMMA TransferEventKeeps == ASSUME Inv, TransferEvent PROVE Inv'
<1> DEFINE e       == Head(events)
           k       == Min(Matches)
           td      == scheduled[k]
           orphans == SubSeq(scheduled, 1, k - 1)
           sch     == From(scheduled, k + 1)
           next    == NextIndex(e.index)
<1>1. events # <<>> /\ Matches # {} /\ events' = Tail(events)
      /\ lastSeenDequeueIndex' = lastSeenDequeueIndex /\ requests' = requests /\ refused' = refused /\ ran' = ran
  BY DEF TransferEvent
<1>2. /\ scheduled \in Seq(TDs) /\ Len(scheduled) \in Nat /\ DOMAIN scheduled = 1 .. Len(scheduled) /\ TypeInv
      /\ hw \in Nat /\ hw <= enqueue /\ PastDone(scheduled, hw, ran) /\ epState \in {"running", "stopped", "halted"}
  BY SeqOf DEF Inv, Lists, TypeInv
<1>3. k \in 1 .. Len(scheduled) /\ Index(td.pos) = e.index
  <2>1. Matches \in SUBSET Nat
    BY <1>2 DEF Matches
  <2>2. k \in Matches
    BY <1>1, <2>1, MinOf
  <2> QED BY <1>2, <2>2 DEF Matches
<1>4. e \in Events /\ e = events[1] /\ 1 \in 1 .. Len(events) /\ events' \in Seq(Events)
      /\ \A j \in 1 .. Len(events') : \E i \in DOMAIN events : events'[j] = events[i]
  BY <1>1, <1>2, TailEvents
<1>5. e.code \in Codes /\ e.code \in Status
  BY <1>4 DEF Events, Status
<1>6. ~mixed => \A i \in 1 .. k : Id(scheduled[i]) \in ran
  <2> SUFFICES ASSUME ~mixed PROVE \A i \in 1 .. k : Id(scheduled[i]) \in ran
    OBVIOUS
  <2>1. EventDone(scheduled, events, ran)
    BY DEF Inv
  <2>2. events[1].index = Index(scheduled[k].pos)
    BY <1>3, <1>4
  <2> HIDE DEF k, e
  <2> QED BY <1>3, <1>4, <2>1, <2>2 DEF EventDone
<1>7. scheduled # <<>>
  <2>1. Len(scheduled) # 0
    BY <1>2, <1>3
  <2> QED BY <1>2, <2>1, SeqOf
<1>8. Index(enqueue) # dequeueIndex
  BY <1>7, NotEmpty
<1>9. IF Flushes(e.code, td)
      THEN RetireAll(td, sch, next, hw, epState, orphans, e.code)
      ELSE RetireOne(td, sch, next, hw, orphans, e.code)
  BY <1>8 DEF TransferEvent
<1>10. next = NextIndex(Index(scheduled[k].pos))
  BY <1>3
<1> HIDE DEF k, e, next
<1>11. CASE Flushes(e.code, td)
  <2>1. e.code # "success"
    BY <1>11 DEF Flushes
  <2>2. RetireAll(scheduled[k], From(scheduled, k + 1), NextIndex(Index(scheduled[k].pos)), hw, epState,
                  SubSeq(scheduled, 1, k - 1), e.code)
    BY <1>9, <1>10, <1>11
  <2>3. ~mixed => \A i \in 1 .. k - 1 : Id(scheduled[i]) \in ran
    <3>1. \A i \in 1 .. k - 1 : i \in 1 .. k
      BY <1>2, <1>3
    <3> QED BY <3>1, <1>6
  <2>4. PastDone(From(scheduled, k + 1), hw, ran)
    <3>1. k \in 0 .. Len(scheduled)
      BY <1>2, <1>3
    <3> QED BY <1>2, <3>1, TakesDone
  <2> QED BY <1>1, <1>2, <1>3, <1>4, <1>5, <2>1, <2>2, <2>3, <2>4, RetireAllKeeps
<1>12. CASE ~Flushes(e.code, td)
  <2>1. RetireOne(scheduled[k], From(scheduled, k + 1), NextIndex(Index(scheduled[k].pos)), hw,
                  SubSeq(scheduled, 1, k - 1), e.code)
    BY <1>9, <1>10, <1>12
  <2> QED BY <1>1, <1>3, <1>4, <1>5, <1>6, <2>1, RetireOneKeeps
<1> QED BY <1>11, <1>12

\* UpdateTimeouts flushes the request of the oldest TD.
LEMMA UpdateTimeoutsKeeps == ASSUME Inv, UpdateTimeouts PROVE Inv'
<1> DEFINE next == NextIndex(Index(scheduled[1].pos))
<1>1. /\ scheduled \in Seq(TDs) /\ Len(scheduled) \in Nat /\ scheduled # <<>> /\ TypeInv
      /\ events \in Seq(Events) /\ Len(events) \in Nat /\ DOMAIN events = 1 .. Len(events)
      /\ enqueue \in Nat /\ OnRing(scheduled, enqueue, laid)
  BY SeqOf DEF Inv, Lists, TypeInv, UpdateTimeouts
<1>2. /\ events' = events /\ lastSeenDequeueIndex' = lastSeenDequeueIndex /\ requests' = requests
      /\ refused' = refused /\ ran' = ran
  BY DEF UpdateTimeouts
<1>3. 1 \in 1 .. Len(scheduled)
  <2>1. Len(scheduled) # 0
    BY <1>1, SeqOf
  <2> QED BY <1>1, <2>1
<1>4. /\ Head(scheduled) = scheduled[1] /\ \A x : x = 1 => Tail(scheduled) = From(scheduled, x + 1)
      /\ \A x : x = 1 => SubSeq(scheduled, 1, x - 1) = <<>>
  <2>1. Tail(scheduled) = SubSeq(scheduled, 2, Len(scheduled))
    BY <1>1, TailIsSubSeq
  <2>2. SubSeq(scheduled, 1, 0) = <<>>
    <3>1. 0 \in 0 .. Len(scheduled)
      BY <1>1
    <3>2. \A z : z = 0 => SubSeq(scheduled, 1, z) \in Seq(TDs) /\ Len(SubSeq(scheduled, 1, z)) = z
      BY <1>1, <3>1, FirstOf
    <3> QED BY <3>2, EmptySeq
  <2>3. 1 + 1 = 2 /\ 1 - 1 = 0
    OBVIOUS
  <2> QED BY <1>1, <1>3, <2>1, <2>2, <2>3 DEF From
<1>5. /\ PositionOf(next) = scheduled[1].pos + 1 /\ PositionOf(next) \in Nat /\ PositionOf(next) <= enqueue
      /\ PositionOf(next) = enqueue - Len(scheduled) + 1
  <2>1. \A x : x = 1 => /\ PositionOf(NextIndex(Index(scheduled[x].pos))) = scheduled[x].pos + 1
                        /\ scheduled[x].pos + 1 = enqueue - Len(scheduled) + x
                        /\ scheduled[x].pos + 1 \in Nat /\ scheduled[x].pos + 1 <= enqueue
    BY <1>3, BehindTD
  <2> QED BY <2>1
<1> DEFINE h == PositionOf(next)
<1>6. \A x : x = 1 => PastDone(From(scheduled, x + 1), h, ran)
  <2> HIDE DEF h
  <2> DEFINE s == Tail(scheduled)
  <2>1. Len(s) = Len(scheduled) - 1 /\ \A i \in 1 .. Len(s) : s[i] = scheduled[i + 1]
    BY <1>1, HeadTailProperties
  <2> HIDE DEF s
  <2>2. ASSUME NEW i \in 1 .. Len(s) PROVE ~(s[i].pos < h)
    <3>1. i + 1 \in 1 .. Len(scheduled)
      BY <1>1, <2>1
    <3>2. scheduled[i + 1].pos = enqueue - Len(scheduled) + (i + 1) - 1
      BY <1>1, <3>1 DEF OnRing
    <3>3. s[i].pos = enqueue - Len(scheduled) + (i + 1) - 1 /\ h = enqueue - Len(scheduled) + 1
      BY <1>5, <2>1, <3>2 DEF h
    <3> QED BY <1>1, <3>3
  <2>3. PastDone(s, h, ran)
    BY <2>2 DEF PastDone
  <2> QED BY <1>4, <2>3 DEF s
<1>7. RetireAll(scheduled[1], Tail(scheduled), next, h, "stopped", <<>>, "timeout")
  BY <1>4 DEF UpdateTimeouts
<1>8. \A x : x = 1 => RetireAll(scheduled[x], From(scheduled, x + 1), NextIndex(Index(scheduled[x].pos)), h,
                               "stopped", SubSeq(scheduled, 1, x - 1), "timeout")
  BY <1>4, <1>7
<1>9. "timeout" \in Status /\ "timeout" # "success"
  BY DEF Status
<1>10. \A x : x = 1 => \A i \in 1 .. x - 1 : Id(scheduled[i]) \in ran
  <2>1. 1 .. 1 - 1 = {}
    OBVIOUS
  <2> QED BY <2>1
<1>11. events' \in Seq(Events) /\ \A i \in 1 .. Len(events') : \E l \in DOMAIN events : events'[i] = events[l]
  BY <1>1, <1>2
<1>12. h \in Nat /\ h <= enqueue
  BY <1>5
<1> HIDE DEF h
<1>13. \A x : x = 1 => Inv'
  <2> SUFFICES ASSUME NEW x, x = 1 PROVE Inv'
    OBVIOUS
  <2>1. /\ x \in 1 .. Len(scheduled) /\ PastDone(From(scheduled, x + 1), h, ran)
        /\ RetireAll(scheduled[x], From(scheduled, x + 1), NextIndex(Index(scheduled[x].pos)), h,
                     "stopped", SubSeq(scheduled, 1, x - 1), "timeout")
        /\ \A i \in 1 .. x - 1 : Id(scheduled[i]) \in ran
    BY <1>3, <1>6, <1>8, <1>10
  <2> QED BY <1>2, <1>9, <1>11, <1>12, <2>1, RetireAllKeeps
<1> QED BY <1>13

\* Two indices with the same next index are the same.
LEMMA NextSame ==
  ASSUME NEW x \in 0 .. NumTRBs - 1, NEW y \in 0 .. NumTRBs - 1, NextIndex(x) = NextIndex(y)
  PROVE  x = y
<1>1. x + 1 \in Int /\ y + 1 \in Int /\ (x + 1) - (y + 1) < NumTRBs /\ (y + 1) - (x + 1) < NumTRBs
  BY Slots
<1>2. \A a, b : a = x + 1 /\ b = y + 1 => Index(a) = Index(b)
  BY DEF Index, NextIndex
<1> DEFINE a == x + 1
           b == y + 1
<1>3. a \in Int /\ b \in Int /\ a - b < NumTRBs /\ b - a < NumTRBs /\ Index(a) = Index(b)
  BY <1>1, <1>2
<1>4. x \in Int /\ y \in Int
  BY Slots
<1> HIDE DEF a, b
<1>5. CASE a <= b
  <2>1. a = b
    BY <1>3, <1>5, IndexSame
  <2> QED BY <2>1, <1>4 DEF a, b
<1>6. CASE b <= a
  <2>1. a = b
    BY <1>3, <1>6, IndexSame
  <2> QED BY <2>1, <1>4 DEF a, b
<1> QED BY <1>3, <1>5, <1>6

\* An event with the index of no scheduled TD moves the dequeue pointer past none of them.
LEMMA StrayBehind ==
  ASSUME Inv, NEW x \in 0 .. NumTRBs - 1, \A k \in 1 .. Len(scheduled) : Index(scheduled[k].pos) # x
  PROVE  NextIndex(x) \in 0 .. NumTRBs - 1 /\ Len(scheduled) <= Used(NextIndex(x), enqueue)
<1> DEFINE next == NextIndex(x)
           v == Used(next, enqueue)
<1>1. /\ Len(scheduled) \in Nat /\ Len(scheduled) <= enqueue /\ enqueue \in Nat /\ enqueue \in Int
      /\ \A k \in 1 .. Len(scheduled) : scheduled[k].pos = enqueue - Len(scheduled) + k - 1
  <2>1. scheduled \in Seq(TDs) /\ OnRing(scheduled, enqueue, laid) /\ enqueue \in Nat
    BY DEF Inv, TypeInv, Lists
  <2> QED BY <2>1, SeqOf DEF OnRing
<1>2. next \in 0 .. NumTRBs - 1
  <2>1. \A y : y = x + 1 => y \in Int /\ Index(y) = next
    BY Slots DEF Index, NextIndex
  <2> HIDE DEF next
  <2> QED BY <2>1, IndexType
<1> HIDE DEF next
<1>3. v \in 0 .. NumTRBs - 1 /\ Index(enqueue - v) = next
  BY <1>1, <1>2, UsedBack
<1> HIDE DEF v
<1>4. ASSUME v < Len(scheduled) PROVE FALSE
  <2> DEFINE k == Len(scheduled) - v
             p == scheduled[k].pos
  <2>1. k \in 1 .. Len(scheduled)
    BY <1>1, <1>3, <1>4, Slots
  <2>2. p = enqueue - Len(scheduled) + k - 1
    BY <1>1, <2>1
  <2> HIDE DEF p
  <2>3. p \in Int /\ p + 1 = enqueue - v
    BY <1>1, <1>3, <2>2, Slots
  <2>4. NextIndex(Index(p)) = next
    BY <1>3, <2>3, IndexNext
  <2>5. Index(p) \in 0 .. NumTRBs - 1
    BY <2>3, IndexType
  <2>6. Index(p) = x
    BY <2>4, <2>5, NextSame DEF next
  <2>7. Index(scheduled[k].pos) = x
    BY <2>6 DEF p
  <2> QED BY <2>1, <2>7
<1>5. Len(scheduled) <= v
  BY <1>1, <1>3, <1>4, Slots
<1> QED BY <1>2, <1>5 DEF next, v

\* The events that are left speak for no more TDs than all did.
LEMMA EventsKept ==
  ASSUME TypeInv, events # <<>>, NEW s, NEW rn, EventDone(s, events, rn)
  PROVE  EventDone(s, Tail(events), rn)
<1>1. \A j \in 1 .. Len(Tail(events)) : \E i \in 1 .. Len(events) : Tail(events)[j] = events[i]
  <2>1. DOMAIN events = 1 .. Len(events)
    BY SeqOf DEF TypeInv
  <2> QED BY <2>1, TailEvents
<1> QED BY <1>1 DEF EventDone

\* An event that stands for no scheduled TD.
LEMMA StrayEventKeeps == ASSUME Inv, StrayEvent PROVE Inv'
<1> DEFINE x == Head(events).index
<1>1. /\ events # <<>> /\ Matches = {} /\ events' = Tail(events) /\ dequeueIndex' = NextIndex(x)
      /\ mixed' = (mixed \/ (scheduled = <<>> /\ dequeueIndex' # Index(enqueue)))
  BY DEF StrayEvent
<1>2. /\ queued' = queued /\ scheduled' = scheduled /\ enqueue' = enqueue
      /\ lastSeenDequeueIndex' = lastSeenDequeueIndex /\ epState' = epState /\ hw' = hw /\ laid' = laid
      /\ requests' = requests /\ refused' = refused /\ returned' = returned /\ ran' = ran
      /\ failures' = failures
  BY DEF StrayEvent, listVars
<1>3. kept' = kept
  BY DEF StrayEvent
<1>4. TypeInv /\ Lists(scheduled, queued, dequeueIndex, enqueue, laid)
  BY DEF Inv
<1>5. x \in 0 .. NumTRBs - 1 /\ Tail(events) \in Seq(Events)
  <2>1. Head(events) \in Events /\ Tail(events) \in Seq(Events)
    BY <1>1, <1>4, TailEvents
  <2> QED BY <2>1 DEF Events
<1>6. \A k \in 1 .. Len(scheduled) : Index(scheduled[k].pos) # x
  <2>1. DOMAIN scheduled = 1 .. Len(scheduled)
    BY <1>4, SeqOf DEF Lists
  <2> QED BY <1>1, <2>1 DEF Matches
<1> HIDE DEF x
<1>7. dequeueIndex' \in 0 .. NumTRBs - 1 /\ Len(scheduled) <= Used(dequeueIndex', enqueue)
  BY <1>1, <1>5, <1>6, StrayBehind
<1>8. mixed' \in BOOLEAN /\ (~mixed' => ~mixed /\ (scheduled = <<>> => dequeueIndex' = Index(enqueue)))
  <2>1. mixed \in BOOLEAN
    BY <1>4 DEF TypeInv
  <2> QED BY <1>1, <2>1
<1>9. TypeInv'
  <2>1. kept' \in BOOLEAN
    BY <1>3, <1>4 DEF TypeInv
  <2> QED BY <1>1, <1>2, <1>4, <1>5, <1>7, <1>8, <2>1 DEF TypeInv
<1>10. Lists(scheduled', queued', dequeueIndex', enqueue', laid')
  BY <1>2, <1>4, <1>7 DEF Lists
<1>11. Asked(scheduled', queued', returned', requests', refused', laid') /\ PastDone(scheduled', hw', ran')
  BY <1>2 DEF Inv
<1>12. ~mixed' => EventDone(scheduled', events', ran')
  BY <1>1, <1>2, <1>4, <1>8, EventsKept DEF Inv
<1>13. ~mixed' => OffDone(scheduled', queued', enqueue', laid', ran') /\ SuccessDone(returned', laid', ran')
  BY <1>2, <1>8 DEF Inv
<1>14. Queue(scheduled, queued, dequeueIndex, enqueue)'
  <2>1. ASSUME ~mixed', scheduled' = <<>> PROVE Used(dequeueIndex', enqueue') = 0
    <3>1. enqueue \in Int /\ enqueue <= enqueue /\ enqueue - enqueue < NumTRBs /\ enqueue - enqueue = 0
      BY <1>4, Slots DEF TypeInv
    <3>2. Used(Index(enqueue), enqueue) = 0
      BY <3>1, UsedSince
    <3>3. dequeueIndex' = Index(enqueue)
      BY <1>2, <1>8, <2>1
    <3> QED BY <1>2, <3>2, <3>3
  <2>2. ASSUME ~mixed', ~kept', scheduled' = <<>> PROVE queued' = <<>>
    <3>1. Queue(scheduled, queued, dequeueIndex, enqueue)
      BY DEF Inv
    <3>2. ~kept
      BY <1>3, <2>2
    <3> QED BY <1>2, <1>8, <2>2, <3>1, <3>2 DEF Queue
  <2> QED BY <2>1, <2>2 DEF Queue
<1> QED BY <1>9, <1>10, <1>11, <1>12, <1>13, <1>14 DEF Inv

\* An event that finds the bounce queue full.
LEMMA LoseEventKeeps == ASSUME Inv, LoseEvent PROVE Inv'
<1>1. events # <<>> /\ events' = Tail(events) /\ failures' = failures + 1
  BY DEF LoseEvent, Fails
<1>2. /\ queued' = queued /\ scheduled' = scheduled /\ enqueue' = enqueue /\ dequeueIndex' = dequeueIndex
      /\ lastSeenDequeueIndex' = lastSeenDequeueIndex /\ epState' = epState /\ hw' = hw /\ laid' = laid
      /\ requests' = requests /\ refused' = refused /\ returned' = returned /\ ran' = ran
  BY DEF LoseEvent, listVars, ringVars
<1>3. kept' = kept /\ mixed' = mixed
  BY DEF LoseEvent
<1>4. TypeInv
  BY DEF Inv
<1>5. TypeInv'
  <2>1. kept' \in BOOLEAN /\ mixed' \in BOOLEAN
    BY <1>3, <1>4 DEF TypeInv
  <2>2. events' \in Seq(Events)
    BY <1>1, <1>4, TailEvents
  <2> QED BY <1>1, <1>2, <1>4, <2>1, <2>2 DEF TypeInv
<1>6. /\ Lists(scheduled', queued', dequeueIndex', enqueue', laid')
      /\ Asked(scheduled', queued', returned', requests', refused', laid') /\ PastDone(scheduled', hw', ran')
  BY <1>2 DEF Inv
<1>7. ASSUME ~mixed' PROVE /\ EventDone(scheduled', events', ran')
                           /\ OffDone(scheduled', queued', enqueue', laid', ran')
                           /\ SuccessDone(returned', laid', ran')
  <2>1. ~mixed
    BY <1>3, <1>7
  <2>2. EventDone(scheduled, events, ran) /\ OffDone(scheduled, queued, enqueue, laid, ran)
        /\ SuccessDone(returned, laid, ran)
    BY <2>1 DEF Inv
  <2> QED BY <1>1, <1>2, <1>4, <2>2, EventsKept
<1>8. Queue(scheduled, queued, dequeueIndex, enqueue)'
  <2>1. Queue(scheduled, queued, dequeueIndex, enqueue)
    BY DEF Inv
  <2>2. (~mixed' => ~mixed) /\ (~kept' => ~kept)
    BY <1>3
  <2> QED BY <1>2, <2>1, <2>2 DEF Queue
<1> QED BY <1>5, <1>6, <1>7, <1>8 DEF Inv

\* checkEPForTimeOuts notes where the ring is.
LEMMA LookAtRingKeeps == ASSUME Inv, LookAtRing PROVE Inv'
<1>1. lastSeenDequeueIndex' = dequeueIndex
  BY DEF LookAtRing
<1>2. /\ queued' = queued /\ scheduled' = scheduled /\ enqueue' = enqueue /\ dequeueIndex' = dequeueIndex
      /\ epState' = epState /\ hw' = hw /\ laid' = laid /\ events' = events
      /\ requests' = requests /\ refused' = refused /\ returned' = returned /\ ran' = ran
      /\ failures' = failures
  BY DEF LookAtRing, listVars, hwVars, histVars
<1>3. kept' = kept /\ mixed' = mixed
  BY DEF LookAtRing, histVars
<1>4. TypeInv
  BY DEF Inv
<1>5. TypeInv'
  <2>1. kept' \in BOOLEAN /\ mixed' \in BOOLEAN
    BY <1>3, <1>4 DEF TypeInv
  <2> QED BY <1>1, <1>2, <1>4, <2>1 DEF TypeInv
<1>6. /\ Lists(scheduled', queued', dequeueIndex', enqueue', laid')
      /\ Asked(scheduled', queued', returned', requests', refused', laid') /\ PastDone(scheduled', hw', ran')
  BY <1>2 DEF Inv
<1>7. ASSUME ~mixed' PROVE /\ EventDone(scheduled', events', ran')
                           /\ OffDone(scheduled', queued', enqueue', laid', ran')
                           /\ SuccessDone(returned', laid', ran')
  <2>1. ~mixed
    BY <1>3, <1>7
  <2>2. EventDone(scheduled, events, ran) /\ OffDone(scheduled, queued, enqueue, laid, ran)
        /\ SuccessDone(returned, laid, ran)
    BY <2>1 DEF Inv
  <2> QED BY <1>2, <2>2
<1>8. Queue(scheduled, queued, dequeueIndex, enqueue)'
  <2>1. Queue(scheduled, queued, dequeueIndex, enqueue)
    BY DEF Inv
  <2>2. (~mixed' => ~mixed) /\ (~kept' => ~kept)
    BY <1>3
  <2> QED BY <1>2, <2>1, <2>2 DEF Queue
<1> QED BY <1>5, <1>6, <1>7, <1>8 DEF Inv

\* The xHC carries out a TD: every TD it is past is done, and so is what the new event stands for.
LEMMA HwTransferKeeps == ASSUME Inv, HwTransfer PROVE Inv'
<1> DEFINE id == Id(laid[hw + 1])
<1>1. PICK code \in Codes :
        /\ events' = Append(events, [index |-> Index(hw), code |-> code, id |-> id])
        /\ epState' = IF code = "error" THEN "halted" ELSE epState
  BY DEF HwTransfer, Codes
<1> DEFINE new == [index |-> Index(hw), code |-> code, id |-> id]
<1>2. epState = "running" /\ hw < enqueue /\ enqueue <= hw + NumTRBs /\ ran' = ran \cup {id} /\ hw' = hw + 1
  BY DEF HwTransfer
<1>3. /\ queued' = queued /\ scheduled' = scheduled /\ enqueue' = enqueue /\ dequeueIndex' = dequeueIndex
      /\ lastSeenDequeueIndex' = lastSeenDequeueIndex /\ laid' = laid
      /\ requests' = requests /\ refused' = refused /\ returned' = returned /\ failures' = failures
  BY DEF HwTransfer, listVars, ringVars
<1>4. kept' = kept /\ mixed' = mixed
  BY DEF HwTransfer
<1>5. /\ TypeInv /\ Lists(scheduled, queued, dequeueIndex, enqueue, laid) /\ laid \in Seq(TDs)
      /\ scheduled \in Seq(TDs) /\ Len(scheduled) \in Nat /\ events \in Seq(Events) /\ Len(events) \in Nat
      /\ enqueue \in Nat /\ hw \in Nat /\ Len(laid) = enqueue /\ OnRing(scheduled, enqueue, laid)
      /\ PastDone(scheduled, hw, ran)
  BY SeqOf DEF Inv, TypeInv, Lists, OnRing
<1>6. laid[hw + 1] \in TDs /\ Index(hw) \in 0 .. NumTRBs - 1
  <2>1. hw + 1 \in 1 .. Len(laid) /\ hw \in Int
    BY <1>2, <1>5
  <2> QED BY <1>5, <2>1, SeqOf, IndexType
<1>7. new \in Events
  <2>1. id \in Nat \X Nat
    BY <1>6 DEF Id, TDs
  <2> HIDE DEF id
  <2> QED BY <1>6, <2>1 DEF Events
<1> HIDE DEF id
<1>8. /\ events' \in Seq(Events) /\ Len(events') = Len(events) + 1 /\ events'[Len(events) + 1] = new
      /\ \A i \in 1 .. Len(events) : events'[i] = events[i]
  <2> HIDE DEF new
  <2>1. events' = Append(events, new)
    BY <1>1 DEF new
  <2> QED BY <1>5, <1>7, <2>1, AppendProperties
<1>9. \A i \in 1 .. Len(scheduled) :
        scheduled[i].pos = enqueue - Len(scheduled) + i - 1 /\ scheduled[i] = laid[enqueue - Len(scheduled) + i]
  BY <1>5 DEF OnRing
<1>10. PastDone(scheduled', hw', ran')
  <2> SUFFICES ASSUME NEW i \in 1 .. Len(scheduled), scheduled[i].pos < hw + 1 PROVE Id(scheduled[i]) \in ran \cup {id}
    BY <1>2, <1>3 DEF PastDone
  <2>1. CASE scheduled[i].pos < hw
    BY <1>5, <2>1 DEF PastDone
  <2>2. CASE ~(scheduled[i].pos < hw)
    <3> DEFINE p == scheduled[i].pos
    <3>0. p = enqueue - Len(scheduled) + i - 1 /\ p < hw + 1 /\ ~(p < hw) /\ i \in Int
      BY <1>9, <2>2
    <3> HIDE DEF p
    <3>1. enqueue - Len(scheduled) + i = hw + 1
      BY SMTT(30), <1>5, <3>0
    <3>2. scheduled[i] = laid[hw + 1]
      BY <1>9, <3>1
    <3> QED BY <3>2 DEF id
  <2> QED BY <2>1, <2>2
<1>11. Len(scheduled) < NumTRBs
  <2>1. dequeueIndex \in 0 .. NumTRBs - 1 /\ enqueue \in Int /\ Len(scheduled) <= Used(dequeueIndex, enqueue)
    BY <1>5 DEF TypeInv, Lists
  <2>2. Used(dequeueIndex, enqueue) \in 0 .. NumTRBs - 1
    BY <2>1, UsedBack
  <2> QED BY <1>5, <2>1, <2>2, Slots
<1>12. ASSUME ~mixed PROVE EventDone(scheduled', events', ran')
  <2> SUFFICES ASSUME NEW j \in 1 .. Len(events'), NEW i \in 1 .. Len(scheduled),
                      events'[j].index = Index(scheduled[i].pos), NEW l \in 1 .. i
               PROVE  Id(scheduled[l]) \in ran'
    BY <1>3 DEF EventDone
  <2>1. CASE j \in 1 .. Len(events)
    <3>1. EventDone(scheduled, events, ran) /\ events[j].index = Index(scheduled[i].pos)
      BY <1>8, <1>12, <2>1 DEF Inv
    <3>2. Id(scheduled[l]) \in ran
      BY <2>1, <3>1 DEF EventDone
    <3> QED BY <1>2, <3>2
  <2>2. CASE j \notin 1 .. Len(events)
    <3>1. j = Len(events) + 1
      BY <1>5, <1>8, <2>2
    <3> DEFINE p == scheduled[i].pos
    <3>2. Index(hw) = Index(p)
      BY <1>8, <3>1
    <3>3. p = enqueue - Len(scheduled) + i - 1
      BY <1>9
    <3> HIDE DEF p
    <3>4. p \in Int /\ hw \in Int /\ p - hw < NumTRBs /\ hw - p < NumTRBs
      BY <1>2, <1>5, <1>11, <3>3, Slots
    <3>5. p = hw
      <4>1. CASE p <= hw
        BY <3>2, <3>4, <4>1, IndexSame
      <4>2. CASE hw <= p
        <5>1. hw = p
          BY <3>2, <3>4, <4>2, IndexSame
        <5> QED BY <5>1
      <4> QED BY <3>4, <4>1, <4>2
    <3>6. l \in 1 .. Len(scheduled) /\ scheduled[l].pos = enqueue - Len(scheduled) + l - 1
      <4>1. l \in 1 .. Len(scheduled)
        BY <1>5
      <4> QED BY <1>9, <4>1
    <3>7. scheduled[l].pos < hw'
      BY <1>2, <1>5, <3>3, <3>5, <3>6
    <3> QED BY <1>3, <1>10, <3>6, <3>7 DEF PastDone
  <2> QED BY <2>1, <2>2
<1>13. ASSUME ~mixed PROVE OffDone(scheduled', queued', enqueue', laid', ran') /\ SuccessDone(returned', laid', ran')
  <2>1. OffDone(scheduled, queued, enqueue, laid, ran) /\ SuccessDone(returned, laid, ran)
    BY <1>13 DEF Inv
  <2>2. \A y \in ran : y \in ran'
    BY <1>2
  <2>3. OffDone(scheduled, queued, enqueue, laid, ran')
    BY <2>1, <2>2 DEF OffDone
  <2>4. SuccessDone(returned, laid, ran')
    BY <2>1, <2>2 DEF SuccessDone
  <2> QED BY <1>3, <2>3, <2>4
<1>14. TypeInv'
  <2>1. kept' \in BOOLEAN /\ mixed' \in BOOLEAN
    BY <1>4, <1>5 DEF TypeInv
  <2>2. hw' \in Nat /\ hw' <= enqueue'
    BY <1>2, <1>3, <1>5
  <2>3. epState' \in {"running", "stopped", "halted"}
    BY <1>1, <1>2
  <2> QED BY <1>3, <1>5, <1>8, <2>1, <2>2, <2>3 DEF TypeInv
<1>15. Lists(scheduled', queued', dequeueIndex', enqueue', laid')
       /\ Asked(scheduled', queued', returned', requests', refused', laid')
  BY <1>3 DEF Inv
<1>16. Queue(scheduled, queued, dequeueIndex, enqueue)'
  <2>1. Queue(scheduled, queued, dequeueIndex, enqueue)
    BY DEF Inv
  <2>2. (~mixed' => ~mixed) /\ (~kept' => ~kept)
    BY <1>4
  <2> QED BY <1>2, <1>3, <2>1, <2>2 DEF Queue
<1>17. ~mixed' => ~mixed
  BY <1>4
<1> QED BY <1>10, <1>12, <1>13, <1>14, <1>15, <1>16, <1>17 DEF Inv

\* A list with nothing in it.
LEMMA NoneOn == Len(<<>>) = 0 /\ 1 .. 0 = {} /\ \A S : <<>> \in Seq(S)
BY EmptySeq

\* The ring is initialised with nothing scheduled: what waits on the queue q is all there is.
LEMMA Reinitialised ==
  ASSUME TypeInv, NEW s, NEW q \in Seq(TDs), Sorted(q), NEW ret \in Seq(Returns), NEW ld, s = <<>>,
         Asked(s, q, ret, requests, refused, ld),
         scheduled' = <<>>, queued' = q, returned' = ret, enqueue' = 0, dequeueIndex' = 0,
         lastSeenDequeueIndex' = 0, hw' = 0, laid' = <<>>, mixed' \in BOOLEAN, epState' = "stopped",
         kept' = TRUE, events' = events, requests' = requests, refused' = refused, ran' = ran,
         failures' = failures
  PROVE  Inv'
<1>1. 0 \in 0 .. NumTRBs - 1
  BY Slots
<1>2. Used(0, 0) = 0
  <2>1. 0 = NumTRBs * 0 + 0 /\ 0 \in Int
    BY Slots
  <2>2. Index(0) = 0
    BY <1>1, <2>1, Remainder DEF Index
  <2>3. \A x : x = 0 => Used(Index(x), x) = 0
    <3>1. \A x : x = 0 => x \in Int /\ x <= x /\ x - x < NumTRBs /\ x - x = 0
      BY Slots
    <3> QED BY <3>1, UsedSince
  <2>4. Used(Index(0), 0) = 0
    BY <2>3
  <2> QED BY <2>2, <2>4
<1>3. TypeInv'
  BY <1>1 DEF TypeInv
<1>4. Lists(<<>>, q, 0, 0, <<>>)
  BY <1>2, NoneOn DEF Lists, Sorted, Cross, OnRing
<1>5. Asked(<<>>, q, ret, requests, refused, <<>>)
  <2>1. Asked(<<>>, q, ret, requests, refused, ld)
    OBVIOUS
  <2>2. \A i \in 1 .. Len(<<>>) : <<>>[i].cmd <= requests
    BY NoneOn
  <2> QED BY <2>1, <2>2 DEF Asked
<1>6. PastDone(<<>>, 0, ran)
  BY NoneOn DEF PastDone
<1>7. EventDone(<<>>, events, ran)
  BY NoneOn DEF EventDone
<1>8. OffDone(<<>>, q, 0, <<>>, ran)
  <2>1. 0 - Len(<<>>) = 0
    <3>1. \A n : n = 0 => 0 - n = 0
      OBVIOUS
    <3> QED BY <3>1, NoneOn
  <2> QED BY <2>1, NoneOn DEF OffDone
<1>9. SuccessDone(ret, <<>>, ran)
  BY NoneOn DEF SuccessDone
<1>10. Queue(scheduled, queued, dequeueIndex, enqueue)'
  BY <1>2 DEF Queue
<1> QED BY <1>3, <1>4, <1>5, <1>6, <1>7, <1>8, <1>9, <1>10 DEF Inv

\* Nothing is returned for an empty done queue.
LEMMA CompletionsNone == ASSUME NEW rc \in Status PROVE Completions(<<>>, rc) = <<>>
<1> DEFINE x == Completions(<<>>, rc)
<1>1. <<>> \in Seq(TDs) /\ Len(<<>>) = 0 /\ 1 .. 0 = {} /\ Sorted(<<>>)
  BY NoneOn DEF Sorted
<1>2. Entries(x, <<>>, rc, 0)
  <2>1. \A t : t = <<>> => t \in Seq(TDs) /\ Sorted(t)
    BY <1>1
  <2>2. \A t : t = <<>> => Entries(Completions(t, rc), t, rc, Len(t))
    BY <2>1, CompletionsOf
  <2> QED BY <1>1, <2>2
<1> HIDE DEF x
<1>3. x \in Seq(Returns) /\ \A l \in 1 .. Len(x) : FALSE
  BY <1>1, <1>2 DEF Entries
<1>4. Len(x) \in Nat
  BY <1>3, SeqOf
<1>5. Len(x) = 0
  <2>1. Len(x) >= 1 => 1 \in 1 .. Len(x)
    BY <1>4
  <2> QED BY <1>3, <1>4, <2>1
<1> QED BY <1>3, <1>5, SeqOf DEF x

\* All that is scheduled and the first m of the queue, in order.
LEMMA AbortedQueueTaken ==
  ASSUME Inv, NEW m \in 0 .. Len(queued)
  PROVE  \E t : /\ returned \o Completions(scheduled \o SubSeq(queued, 1, m), "aborted") = returned \o t
                /\ Taken(t, scheduled, queued, Len(scheduled), m)
<1> DEFINE f == scheduled \o SubSeq(queued, 1, m)
           n == Len(scheduled)
<1>1. /\ scheduled \in Seq(TDs) /\ queued \in Seq(TDs) /\ n \in Nat /\ Len(queued) \in Nat
      /\ Sorted(scheduled) /\ Sorted(queued) /\ Cross(scheduled, queued) /\ returned \in Seq(Returns)
  BY SeqOf DEF Inv, Lists, TypeInv
<1> DEFINE first == SubSeq(queued, 1, m)
<1>2. first \in Seq(TDs) /\ Len(first) = m /\ \A i \in 1 .. m : first[i] = queued[i]
  BY <1>1, FirstOf
<1> HIDE DEF first
<1>3. \A i \in 1 .. m : i \in 1 .. Len(queued)
  BY <1>1
<1>4. Sorted(first) /\ Cross(scheduled, first)
  BY <1>1, <1>2, <1>3 DEF Sorted, Cross
<1>5. /\ scheduled \o first \in Seq(TDs) /\ Sorted(scheduled \o first)
      /\ \A x : IsIn(x, scheduled \o first) <=> IsIn(x, scheduled) \/ IsIn(x, first)
  BY <1>1, <1>2, <1>4, SortedConcat
<1>6. f = scheduled \o first
  BY DEF first
<1> HIDE DEF f
<1>7. AreTaken(<<>>, f, scheduled, queued, n, m)
  <2>1. \A x : IsIn(x, first) <=> \E i \in 1 .. m : queued[i] = x
    BY <1>2 DEF IsIn
  <2>2. \A x : ~IsIn(x, <<>>)
    BY NoneOn DEF IsIn
  <2>3. \A x : IsIn(x, f) <=> IsTaken(x, scheduled, queued, n, m)
    BY <1>5, <1>6, <2>1 DEF IsIn, IsTaken
  <2> QED BY <2>2, <2>3 DEF AreTaken
<1>8. <<>> \in Seq(TDs) /\ Sorted(<<>>) /\ Cross(<<>>, f)
  BY NoneOn DEF Sorted, Cross
<1>9. "aborted" \in Status
  BY DEF Status
<1> HIDE DEF n
<1>10. PICK t : /\ returned \o Completions(<<>>, "aborted") \o Completions(f, "aborted") = returned \o t
                /\ Taken(t, scheduled, queued, n, m)
  <2>1. f \in Seq(TDs) /\ Sorted(f)
    BY <1>5, <1>6
  <2>2. ASSUME NEW d \in Seq(TDs), Sorted(d), Cross(d, f), AreTaken(d, f, scheduled, queued, n, m)
        PROVE  Appends(returned, d, "aborted", f, "aborted", scheduled, queued, n, m)
    BY <1>1, <1>9, <2>1, <2>2, ReturnTwo
  <2>3. Appends(returned, <<>>, "aborted", f, "aborted", scheduled, queued, n, m)
    BY <1>7, <1>8, <2>2
  <2> QED BY <2>3 DEF Appends
<1>11. returned \o Completions(<<>>, "aborted") = returned
  BY <1>1, <1>9, CompletionsNone, ConcatEmptySeq
<1> QED BY <1>10, <1>11 DEF n, f

\* An abort returns all that is scheduled, with what the queue holds of the last request.
LEMMA AbortEndpointKeeps == ASSUME Inv, AbortEndpoint PROVE Inv'
<1>1. /\ enqueue' = 0 /\ dequeueIndex' = 0 /\ lastSeenDequeueIndex' = 0 /\ hw' = 0 /\ laid' = <<>>
      /\ epState' = "stopped" /\ kept' = TRUE /\ events' = events /\ requests' = requests
      /\ refused' = refused /\ ran' = ran /\ failures' = failures
  BY DEF AbortEndpoint, ReinitTransferRing
<1>2. mixed' \in BOOLEAN
  BY DEF AbortEndpoint, ReinitTransferRing
<1>3. /\ Lists(scheduled, queued, dequeueIndex, enqueue, laid) /\ TypeInv
      /\ Asked(scheduled, queued, returned, requests, refused, laid)
      /\ scheduled \in Seq(TDs) /\ queued \in Seq(TDs) /\ returned \in Seq(Returns) /\ requests \in Nat
      /\ Len(scheduled) \in Nat /\ Len(queued) \in Nat /\ Sorted(queued)
  BY SeqOf DEF Inv, Lists, TypeInv
<1>4. CASE dequeueIndex # Index(enqueue)
  <2> DEFINE m == AbortedQueue
             n == Len(scheduled)
  <2>1. m \in 0 .. Len(queued)
    <3>1. Leading(queued, scheduled[Len(scheduled)].cmd) \in 0 .. Len(queued)
      BY <1>3, LeadingOf
    <3> QED BY <1>3, <3>1 DEF AbortedQueue
  <2>2. /\ scheduled' = <<>> /\ queued' = From(queued, m + 1)
        /\ returned' = returned \o Completions(scheduled \o SubSeq(queued, 1, m), "aborted")
    BY <1>4 DEF AbortEndpoint, ReturnAllTransfers
  <2> HIDE DEF m
  <2>3. PICK t : returned' = returned \o t /\ Taken(t, scheduled, queued, n, m)
    BY <2>1, <2>2, AbortedQueueTaken
  <2> HIDE DEF n
  <2>4. Takes(scheduled, queued, n, m)
    <3>1. n \in 0 .. Len(scheduled) /\ n = Len(scheduled)
      BY <1>3 DEF n
    <3> QED BY <2>1, <3>1 DEF Takes
  <2>5. /\ Asked(From(scheduled, n + 1), From(queued, m + 1), returned \o t, requests, refused, laid)
        /\ returned \o t \in Seq(Returns)
    BY <1>3, <2>3, <2>4, TakesAsked
  <2>6. From(scheduled, n + 1) = <<>>
    <3>1. From(scheduled, n + 1) \in Seq(TDs) /\ Len(From(scheduled, n + 1)) = Len(scheduled) - n
      BY <1>3, <2>4, FromOf DEF Takes
    <3>2. Len(scheduled) - n = 0
      BY <1>3 DEF n
    <3> QED BY <3>1, <3>2, EmptySeq
  <2>7. From(queued, m + 1) \in Seq(TDs) /\ Sorted(From(queued, m + 1))
    <3>1. /\ From(queued, m + 1) \in Seq(TDs) /\ Len(From(queued, m + 1)) = Len(queued) - m
          /\ \A i \in 1 .. Len(queued) - m : From(queued, m + 1)[i] = queued[m + i]
      BY <1>3, <2>1, FromOf
    <3> DEFINE q2 == From(queued, m + 1)
    <3>2. SUFFICES ASSUME NEW i \in 1 .. Len(q2), NEW j \in 1 .. Len(q2), i < j PROVE Before(q2[i], q2[j])
      BY <3>1 DEF Sorted
    <3> HIDE DEF q2
    <3>3. m + i \in 1 .. Len(queued) /\ m + j \in 1 .. Len(queued) /\ m + i < m + j
      <4>1. Len(q2) = Len(queued) - m /\ Len(queued) \in Nat
        BY <1>3, <3>1 DEF q2
      <4> QED BY <2>1, <3>2, <4>1
    <3>4. q2[i] = queued[m + i] /\ q2[j] = queued[m + j]
      <4>1. i \in 1 .. Len(queued) - m /\ j \in 1 .. Len(queued) - m
        BY <3>1 DEF q2
      <4> QED BY <3>1, <4>1 DEF q2
    <3> QED BY <1>3, <3>3, <3>4 DEF Sorted
  <2> QED BY <1>1, <1>2, <1>3, <2>2, <2>3, <2>5, <2>6, <2>7, Reinitialised
<1>5. CASE dequeueIndex = Index(enqueue)
  <2>1. scheduled = <<>>
    BY <1>5, NotEmpty
  <2>2. scheduled' = <<>> /\ queued' = queued /\ returned' = returned
    BY <1>5, <2>1 DEF AbortEndpoint, ReturnAllTransfers, listVars
  <2> QED BY <1>1, <1>2, <1>3, <2>1, <2>2, Reinitialised
<1> QED BY <1>4, <1>5

\* The first k of the n TDs of request c, of which only the n-th is final.
LEMMA CutOf ==
  ASSUME NEW c \in Nat, NEW n \in Nat, NEW k \in 0 .. n
  PROVE  /\ Cut(c, n, k) \in Seq(TDs) /\ Len(Cut(c, n, k)) = k
         /\ \A j \in 1 .. k : Cut(c, n, k)[j].cmd = c /\ (Cut(c, n, k)[j].final <=> j = n)
         /\ Sorted(Cut(c, n, k))
<1> DEFINE x == Cut(c, n, k)
<1>1. k \in Nat /\ k <= n
  OBVIOUS
<1>2. ASSUME NEW j \in 1 .. k PROVE TD(c, j, j = n) \in TDs
  <2>1. j \in Nat /\ (j = n) \in BOOLEAN /\ -1 \in Int
    BY <1>1
  <2> QED BY <2>1 DEF TD, TDs
<1>3. x = [j \in 1 .. k |-> TD(c, j, j = n)]
  BY DEF Cut
<1>4. x \in Seq(TDs) /\ Len(x) = k
  BY <1>1, <1>2, <1>3
<1>5. \A j \in 1 .. k : x[j] = TD(c, j, j = n)
  BY <1>3
<1>6. \A j \in 1 .. k : x[j].cmd = c /\ (x[j].final <=> j = n)
  <2> HIDE DEF x
  <2>2. ASSUME NEW j \in 1 .. k PROVE x[j].cmd = c /\ (x[j].final <=> j = n)
    <3>1. PICK f \in BOOLEAN : f <=> (j = n)
      <4>1. (j = n) \in BOOLEAN
        OBVIOUS
      <4> QED BY <4>1
    <3>2. f = (j = n)
      BY <3>1
    <3>3. x[j] = TD(c, j, f)
      BY <1>5, <3>2, Zenon
    <3>4. x[j].cmd = c /\ x[j].final = f
      BY <3>3 DEF TD
    <3> QED BY <3>1, <3>4
  <2> QED BY <2>2
<1> HIDE DEF x
<1>7. Sorted(x)
  <2> SUFFICES ASSUME NEW i \in 1 .. Len(x), NEW j \in 1 .. Len(x), i < j PROVE Before(x[i], x[j])
    BY DEF Sorted
  <2>1. i \in 1 .. k /\ j \in 1 .. k /\ i # n
    BY <1>1, <1>4
  <2>2. x[i].cmd = c /\ x[j].cmd = c /\ ~x[i].final
    BY <1>6, <2>1
  <2> QED BY <2>2 DEF Before
<1> QED BY <1>4, <1>6, <1>7 DEF x

\* A request whose TDs are put on the queue, all of them or, when it is refused, fewer.
LEMMA RequestMid ==
  ASSUME Inv, NEW n \in Nat, n >= 1, NEW k \in 0 .. n, NEW ref,
         (k = n /\ ref = refused) \/ ref = refused \cup {requests + 1}
  PROVE  /\ Mid(scheduled, queued \o Cut(requests + 1, n, k), dequeueIndex, returned, requests + 1, ref, hw, events)
         /\ queued \o Cut(requests + 1, n, k) \in Seq(TDs)
<1> DEFINE c == requests + 1
           x == Cut(c, n, k)
           q == queued \o x
<1>1. /\ Lists(scheduled, queued, dequeueIndex, enqueue, laid) /\ TypeInv
      /\ Asked(scheduled, queued, returned, requests, refused, laid)
      /\ scheduled \in Seq(TDs) /\ queued \in Seq(TDs) /\ laid \in Seq(TDs) /\ returned \in Seq(Returns)
      /\ Len(scheduled) \in Nat /\ Len(queued) \in Nat /\ Len(laid) \in Nat /\ Len(returned) \in Nat
      /\ requests \in Nat /\ refused \subseteq Nat /\ events \in Seq(Events)
  BY SeqOf DEF Inv, Lists, TypeInv
<1>2. c \in Nat /\ c > requests
  BY <1>1
<1>3. /\ x \in Seq(TDs) /\ Len(x) = k /\ Sorted(x)
      /\ \A j \in 1 .. k : x[j].cmd = c /\ (x[j].final <=> j = n)
  <2> HIDE DEF c
  <2> QED BY <1>2, CutOf
<1>4. ref \subseteq Nat /\ refused \subseteq ref /\ (k = n \/ c \in ref)
  BY <1>1, <1>2
<1> HIDE DEF c, x, q
<1>5. /\ \A i \in 1 .. Len(scheduled) : scheduled[i].cmd \in Nat /\ scheduled[i].cmd <= requests
      /\ \A i \in 1 .. Len(queued) : queued[i].cmd \in Nat /\ queued[i].cmd <= requests
      /\ \A i \in 1 .. Len(laid) : laid[i].cmd \in Nat /\ laid[i].cmd <= requests
      /\ \A i \in 1 .. Len(returned) : returned[i].cmd \in Nat /\ returned[i].cmd <= requests
  <2>1. /\ \A i \in 1 .. Len(scheduled) : scheduled[i] \in TDs
        /\ \A i \in 1 .. Len(queued) : queued[i] \in TDs
        /\ \A i \in 1 .. Len(laid) : laid[i] \in TDs
        /\ \A i \in 1 .. Len(returned) : returned[i] \in Returns
    BY <1>1, SeqOf
  <2> QED BY <1>1, <2>1 DEF Asked, TDs, Returns
<1>6. q \in Seq(TDs) /\ Len(q) = Len(queued) + k
      /\ \A i \in 1 .. Len(q) : q[i] = IF i <= Len(queued) THEN queued[i] ELSE x[i - Len(queued)]
  BY ZenonT(40), <1>1, <1>3, ConcatProperties DEF q
<1>7. \A i \in 1 .. Len(q) : \/ i \in 1 .. Len(queued) /\ q[i] = queued[i]
                             \/ i - Len(queued) \in 1 .. k /\ q[i] = x[i - Len(queued)] /\ q[i].cmd = c
  <2>1. k \in Nat
    OBVIOUS
  <2>2. \A i \in 1 .. Len(q) : \/ i \in 1 .. Len(queued) /\ q[i] = queued[i]
                               \/ i - Len(queued) \in 1 .. k /\ q[i] = x[i - Len(queued)]
    BY <1>1, <1>6, <2>1
  <2> QED BY <1>3, <2>2
<1>8. \A i \in 1 .. Len(queued) : i \in 1 .. Len(q) /\ q[i] = queued[i]
  BY <1>1, <1>6
<1>9. \A j \in 1 .. k : j + Len(queued) \in 1 .. Len(q) /\ q[j + Len(queued)] = x[j]
  <2> TAKE j \in 1 .. k
  <2>1. j + Len(queued) \in 1 .. Len(q) /\ ~(j + Len(queued) <= Len(queued)) /\ (j + Len(queued)) - Len(queued) = j
    BY <1>1, <1>6
  <2> QED BY <1>6, <2>1
<1>10. Sorted(q)
  <2>1. Cross(queued, x)
    <3> SUFFICES ASSUME NEW i \in 1 .. Len(queued), NEW j \in 1 .. Len(x) PROVE Before(queued[i], x[j])
      BY DEF Cross
    <3>1. x[j].cmd = c /\ queued[i].cmd \in Nat /\ queued[i].cmd <= requests
      BY <1>3, <1>5
    <3> QED BY <1>1, <1>2, <3>1 DEF Before
  <2>2. Sorted(queued)
    BY <1>1 DEF Lists
  <2> QED BY <1>1, <1>3, <2>1, <2>2, SortedConcat DEF q
<1>11. Cross(scheduled, q)
  <2> SUFFICES ASSUME NEW i \in 1 .. Len(scheduled), NEW j \in 1 .. Len(q) PROVE Before(scheduled[i], q[j])
    BY DEF Cross
  <2>1. CASE j \in 1 .. Len(queued) /\ q[j] = queued[j]
    BY <1>1, <2>1 DEF Lists, Cross
  <2>2. CASE q[j].cmd = c
    <3>1. scheduled[i].cmd \in Nat /\ scheduled[i].cmd <= requests
      BY <1>5
    <3> QED BY <1>1, <1>2, <2>2, <3>1 DEF Before
  <2> QED BY <1>7, <2>1, <2>2
<1>12. Lists(scheduled, q, dequeueIndex, enqueue, laid)
  BY <1>1, <1>6, <1>10, <1>11 DEF Lists
<1>13. \A y : Waits(y, scheduled, q) => Waits(y, scheduled, queued) \/ y = c
  BY <1>7 DEF Waits
<1>14. \A y : WaitsIn(y, queued) => WaitsIn(y, q)
  BY <1>8 DEF WaitsIn
<1>15. Asked(scheduled, q, returned, c, ref, laid)
  <2>1. /\ \A i \in 1 .. Len(scheduled) : scheduled[i].cmd <= c
        /\ \A i \in 1 .. Len(laid) : laid[i].cmd <= c
        /\ \A i \in 1 .. Len(returned) : returned[i].cmd <= c /\ returned[i].cmd < c
    BY <1>1, <1>2, <1>5
  <2>2. \A i \in 1 .. Len(queued) : queued[i].cmd <= c
    BY <1>1, <1>2, <1>5
  <2>3. \A i \in 1 .. Len(q) : q[i].cmd <= c
    BY <1>2, <1>7, <2>2
  <2>4. \A i \in 1 .. Len(returned), y \in Nat : Waits(y, scheduled, q) => returned[i].cmd < y
    BY <1>1, <1>13, <2>1 DEF Asked
  <2>5. \A i, j \in 1 .. Len(returned) : i < j => returned[i].cmd < returned[j].cmd
    BY <1>1 DEF Asked
  <2>6. ASSUME NEW y \in 1 .. c
        PROVE  y \in ref \/ (\E i \in 1 .. Len(returned) : returned[i].cmd = y) \/ WaitsIn(y, scheduled) \/ WaitsIn(y, q)
    <3>1. CASE y \in 1 .. requests
      <4>1. y \in refused \/ (\E i \in 1 .. Len(returned) : returned[i].cmd = y)
            \/ WaitsIn(y, scheduled) \/ WaitsIn(y, queued)
        BY <1>1, <3>1 DEF Asked
      <4> QED BY <1>4, <1>14, <4>1
    <3>2. CASE y \notin 1 .. requests
      <4>1. y = c
        BY <1>1, <1>2, <3>2 DEF c
      <4>2. CASE k = n
        <5>1. k \in 1 .. k
          BY <4>2
        <5>2. k + Len(queued) \in 1 .. Len(q) /\ q[k + Len(queued)].cmd = c /\ q[k + Len(queued)].final
          BY <1>3, <1>9, <4>2, <5>1
        <5> QED BY <4>1, <5>2 DEF WaitsIn
      <4> QED BY <1>4, <4>1, <4>2
    <3> QED BY <3>1, <3>2
  <2> QED BY <2>1, <2>3, <2>4, <2>5, <2>6 DEF Asked
<1>16. ASSUME ~mixed PROVE OffDone(scheduled, q, enqueue, laid, ran)
  <2>1. OffDone(scheduled, queued, enqueue, laid, ran)
    BY <1>16 DEF Inv
  <2>2. Len(laid) = enqueue /\ Len(scheduled) <= enqueue /\ enqueue \in Nat
    BY <1>1 DEF Lists, OnRing, TypeInv
  <2>3. \A j \in 1 .. enqueue - Len(scheduled) : laid[j].cmd # c
    <3> TAKE j \in 1 .. enqueue - Len(scheduled)
    <3>1. j \in 1 .. Len(laid)
      BY <1>1, <2>2
    <3> QED BY <1>1, <1>2, <1>5, <3>1
  <2> QED BY <1>13, <2>1, <2>3 DEF OffDone
<1>17. /\ hw \in Nat /\ hw <= enqueue /\ PastDone(scheduled, hw, ran)
       /\ ~mixed => EventDone(scheduled, events, ran) /\ SuccessDone(returned, laid, ran)
  BY DEF Inv, TypeInv
<1>18. \A j \in 1 .. Len(events) : \E i \in DOMAIN events : events[j] = events[i]
  BY <1>1, SeqOf
<1>19. Mid(scheduled, q, dequeueIndex, returned, c, ref, hw, events)
  BY <1>1, <1>2, <1>4, <1>12, <1>15, <1>16, <1>17, <1>18 DEF Mid
<1> QED BY <1>6, <1>19 DEF q, x, c

\* CreateTransfer, for a request that is accepted or refused.
LEMMA CreateTransferKeeps == ASSUME Inv, CreateTransfer PROVE Inv'
<1>1. /\ requests' = requests + 1 /\ epState # "halted" /\ dequeueIndex' = dequeueIndex
      /\ lastSeenDequeueIndex' = lastSeenDequeueIndex /\ hw' = hw /\ events' = events /\ returned' = returned
      /\ ran' = ran
  BY DEF CreateTransfer
<1>2. TypeInv /\ dequeueIndex \in 0 .. NumTRBs - 1 /\ epState \in {"running", "stopped", "halted"}
  BY DEF Inv, TypeInv
<1>3. PICK n \in 1 .. MaxTDs :
        \/ /\ ScheduleTDs(scheduled, queued \o Cut(requests + 1, n, n), dequeueIndex, epState)
           /\ refused' = refused
        \/ \E k \in 0 .. n - 1 :
           /\ refused' = refused \cup {requests + 1}
           /\ ScheduleTDs(scheduled, queued \o Cut(requests + 1, n, k), dequeueIndex, epState)
  BY DEF CreateTransfer
<1>4. n \in Nat /\ n >= 1
  BY BoundsAssumption
<1>5. PICK k \in 0 .. n : /\ (k = n /\ refused' = refused) \/ refused' = refused \cup {requests + 1}
                          /\ ScheduleTDs(scheduled, queued \o Cut(requests + 1, n, k), dequeueIndex, epState)
  BY <1>3, <1>4
<1> DEFINE q == queued \o Cut(requests + 1, n, k)
<1>6. Mid(scheduled, q, dequeueIndex, returned, requests + 1, refused', hw, events) /\ q \in Seq(TDs)
  BY <1>4, <1>5, RequestMid
<1>7. ScheduleTDs(scheduled, q, dequeueIndex, epState)
  BY <1>5
<1> HIDE DEF q
<1>8. PICK l : /\ Moves(scheduled, q, dequeueIndex, l)
               /\ kept' = TRUE \/ (kept' = FALSE /\ (l = Len(q) \/ l = FreeSlots(dequeueIndex, enqueue)))
               /\ epState' \in {"running", "stopped", "halted"} /\ failures' \in Nat
  BY <1>2, <1>6, <1>7, ScheduleMoves
<1>9. scheduled = <<>> /\ ~mixed => Used(dequeueIndex, enqueue) = 0
  BY <1>1 DEF Inv, Queue
<1> DEFINE r == refused'
<1>10. refused' = r
  OBVIOUS
<1> HIDE DEF r
<1>11. Mid(scheduled, q, dequeueIndex, returned, requests + 1, r, hw, events)
  BY <1>6, <1>10
<1> QED BY <1>1, <1>2, <1>8, <1>9, <1>10, <1>11, Moved

-----------------------------------------------------------------------------
(* The theorems.                                                           *)

\* Nothing has been asked for in the first state.
LEMMA InitInv == Init => Inv
<1> SUFFICES ASSUME Init PROVE Inv
  OBVIOUS
<1>1. /\ queued = <<>> /\ scheduled = <<>> /\ enqueue = 0 /\ dequeueIndex = 0 /\ lastSeenDequeueIndex = 0
      /\ epState = "running" /\ hw = 0 /\ laid = <<>> /\ events = <<>>
      /\ requests = 0 /\ refused = {} /\ returned = <<>> /\ ran = {} /\ failures = 0
  BY DEF Init
<1>2. mixed = FALSE /\ kept = FALSE
  BY DEF Init
<1>3. 0 \in 0 .. NumTRBs - 1
  BY Slots
<1>4. Used(0, 0) = 0
  <2>1. 0 = NumTRBs * 0 + 0 /\ 0 \in Int
    BY Slots
  <2>2. Index(0) = 0
    BY <1>3, <2>1, Remainder DEF Index
  <2>3. \A x : x = 0 => Used(Index(x), x) = 0
    <3>1. \A x : x = 0 => x \in Int /\ x <= x /\ x - x < NumTRBs /\ x - x = 0
      BY Slots
    <3> QED BY <3>1, UsedSince
  <2>4. Used(Index(0), 0) = 0
    BY <2>3
  <2> QED BY <2>2, <2>4
<1>5. TypeInv
  <2>1. mixed \in BOOLEAN /\ kept \in BOOLEAN
    BY <1>2
  <2>2. events \in Seq(Events) /\ returned \in Seq(Returns) /\ refused \subseteq Nat
    BY <1>1, NoneOn
  <2>3. /\ enqueue \in Nat /\ requests \in Nat /\ failures \in Nat /\ hw \in Nat /\ hw <= enqueue
        /\ dequeueIndex \in 0 .. NumTRBs - 1 /\ lastSeenDequeueIndex \in 0 .. NumTRBs - 1
        /\ epState \in {"running", "stopped", "halted"}
    BY <1>1, <1>3
  <2> QED BY <2>1, <2>2, <2>3 DEF TypeInv
<1>6. Lists(<<>>, <<>>, 0, 0, <<>>)
  BY <1>4, NoneOn DEF Lists, Sorted, Cross, OnRing
<1>7. Asked(<<>>, <<>>, <<>>, 0, {}, <<>>)
  BY NoneOn DEF Asked
<1>8. PastDone(<<>>, 0, {}) /\ EventDone(<<>>, <<>>, {}) /\ SuccessDone(<<>>, <<>>, {})
  BY NoneOn DEF PastDone, EventDone, SuccessDone
<1>9. OffDone(<<>>, <<>>, 0, <<>>, {})
  <2>1. 0 - Len(<<>>) = 0
    <3>1. \A n : n = 0 => 0 - n = 0
      OBVIOUS
    <3> QED BY <3>1, NoneOn
  <2> QED BY <2>1, NoneOn DEF OffDone
<1>10. Queue(<<>>, <<>>, 0, 0)
  BY <1>4 DEF Queue
<1> QED BY <1>1, <1>5, <1>6, <1>7, <1>8, <1>9, <1>10 DEF Inv

\* No operation of the driver and no step of the xHC breaks the invariant.
LEMMA NextInv == Inv /\ [Next]_vars => Inv'
<1> SUFFICES ASSUME Inv, [Next]_vars PROVE Inv'
  OBVIOUS
<1>1. CASE CreateTransfer
  BY <1>1, CreateTransferKeeps
<1>2. CASE StrayEvent
  BY <1>2, StrayEventKeeps
<1>3. CASE TransferEvent
  BY <1>3, TransferEventKeeps
<1>4. CASE LoseEvent
  BY <1>4, LoseEventKeeps
<1>5. CASE LookAtRing
  BY <1>5, LookAtRingKeeps
<1>6. CASE UpdateTimeouts
  BY <1>6, UpdateTimeoutsKeeps
<1>7. CASE AbortEndpoint
  BY <1>7, AbortEndpointKeeps
<1>8. CASE HwTransfer
  BY <1>8, HwTransferKeeps
<1>9. CASE UNCHANGED vars
  <2>1. /\ queued' = queued /\ scheduled' = scheduled /\ enqueue' = enqueue /\ dequeueIndex' = dequeueIndex
        /\ lastSeenDequeueIndex' = lastSeenDequeueIndex /\ epState' = epState /\ hw' = hw /\ laid' = laid
        /\ events' = events /\ requests' = requests /\ refused' = refused /\ returned' = returned
        /\ ran' = ran /\ failures' = failures
    BY <1>9 DEF vars, listVars, ringVars, hwVars, histVars
  <2>2. kept' = kept /\ mixed' = mixed
    BY <1>9 DEF vars, histVars
  <2>3. TypeInv'
    <3>1. kept' \in BOOLEAN /\ mixed' \in BOOLEAN
      BY <2>2 DEF Inv, TypeInv
    <3> QED BY <2>1, <3>1 DEF Inv, TypeInv
  <2>4. (~mixed' => ~mixed) /\ (~kept' => ~kept)
    BY <2>2
  <2> QED BY <2>1, <2>3, <2>4 DEF Inv, Queue
<1> QED BY <1>1, <1>2, <1>3, <1>4, <1>5, <1>6, <1>7, <1>8, <1>9 DEF Next, Handle

\* The invariant holds throughout.
THEOREM Invariant == Spec => []Inv
<1> QED BY InitInv, NextInv, PTL DEF Spec

\* Requests are returned in the order they were made and each at most once, whatever events are
\* lost, late, flushed or aborted.
THEOREM OrderKept == Spec => []ReturnedInOrder
<1>1. Inv => ReturnedInOrder
  <2> SUFFICES ASSUME Inv PROVE ReturnedInOrder
    OBVIOUS
  <2>1. DOMAIN returned = 1 .. Len(returned)
    BY SeqOf DEF Inv, TypeInv
  <2> QED BY <2>1 DEF Inv, Asked, ReturnedInOrder
<1> QED BY <1>1, Invariant, PTL

\* A request returned with success has been carried out by the xHC, every TD of it.
THEOREM SuccessMeansDone == Spec => []SuccessIsDone
<1>1. Inv => SuccessIsDone
  <2> SUFFICES ASSUME Inv PROVE SuccessIsDone
    OBVIOUS
  <2>1. DOMAIN returned = 1 .. Len(returned) /\ DOMAIN laid = 1 .. Len(laid)
    BY SeqOf DEF Inv, TypeInv, Lists
  <2> QED BY <2>1 DEF Inv, SuccessDone, SuccessIsDone
<1> QED BY <1>1, Invariant, PTL

\* No path through the two lists loses a request that was accepted.
THEOREM NoneLost == Spec => []NoRequestLost
<1>1. Inv => NoRequestLost
  <2> SUFFICES ASSUME Inv, NEW c \in 1 .. MaxRequests, Pending(c)
               PROVE  \E td \in Range(queued) \cup Range(scheduled) : td.cmd = c /\ td.final
    BY DEF NoRequestLost
  <2>1. /\ DOMAIN returned = 1 .. Len(returned) /\ DOMAIN queued = 1 .. Len(queued)
        /\ DOMAIN scheduled = 1 .. Len(scheduled)
    BY SeqOf DEF Inv, TypeInv, Lists
  <2>2. c \in 1 .. requests /\ c \notin refused /\ ~\E k \in 1 .. Len(returned) : returned[k].cmd = c
    BY <2>1 DEF Pending
  <2>3. WaitsIn(c, scheduled) \/ WaitsIn(c, queued)
    BY <2>2 DEF Inv, Asked
  <2> QED BY <2>1, <2>3 DEF WaitsIn, Range
<1> QED BY <1>1, Invariant, PTL

\* With nothing scheduled nothing is queued either, but for the cases that are known of.
THEOREM NoneForgotten == Spec => []QueueNotForgotten
<1>1. Inv => QueueNotForgotten
  BY DEF Inv, Queue, QueueNotForgotten
<1> QED BY <1>1, Invariant, PTL
=============================================================================

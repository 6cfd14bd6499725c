---------------------------- MODULE CompleterProofs ----------------------------
(***************************************************************************)
(* Theorems about Completer, for every set of blocks and every bound: every  *)
(* block is on exactly one list or in the hands of the flush, and the lists  *)
(* implement the abstract queue of CompletionQueue, step by step.           *)
(*                                                                         *)
(* The next pointers of blocks that are on no list are stale and say        *)
(* nothing; those on a list say which block comes next. The invariant is     *)
(* that two sequences of blocks exist that are what the pointers spell.     *)
(***************************************************************************)
EXTENDS Completer, TLAPS, FiniteSetTheorems, SequenceTheorems, WellFoundedInduction, NaturalsInduction

-----------------------------------------------------------------------------
(* A list in memory.                                                       *)

\* The blocks of s, each once, hang together from head to tail by the pointers of n.
Chain(n, s, head, tail) ==
  /\ \A j, k \in 1 .. Len(s) : s[j] = s[k] => j = k
  /\ IF s = <<>> THEN head = Null /\ tail = Null
     ELSE /\ head = s[1] /\ tail = s[Len(s)]
          /\ \A k \in 1 .. Len(s) - 1 : n[s[k]] = s[k + 1]

\* A sequence of blocks, as the prover needs it.
LEMMA Blocks ==
  ASSUME NEW s \in Seq(Items)
  PROVE  /\ Len(s) \in Nat /\ DOMAIN s = 1 .. Len(s) /\ s \in [1 .. Len(s) -> Items]
         /\ s = <<>> <=> Len(s) = 0
         /\ \A k \in 1 .. Len(s) : s[k] \in Items /\ s[k] # Null /\ s[k] \in BlocksOf(s)
         /\ BlocksOf(s) \subseteq Items
         /\ \A i \in BlocksOf(s) : \E k \in 1 .. Len(s) : s[k] = i
<1>1. Len(s) \in Nat /\ DOMAIN s = 1 .. Len(s) /\ s \in [1 .. Len(s) -> Items]
  BY LenProperties
<1>2. s = <<>> <=> Len(s) = 0
  BY EmptySeq
<1>3. \A k \in 1 .. Len(s) : s[k] \in Items
  BY <1>1
<1> QED BY <1>1, <1>2, <1>3, ItemsAssumption DEF BlocksOf, Null

\* The length of a list without repetitions is the number of its blocks.
LEMMA BlocksCounted ==
  ASSUME NEW n, NEW s \in Seq(Items), NEW head, NEW tail, Chain(n, s, head, tail)
  PROVE  /\ IsFiniteSet(BlocksOf(s)) /\ Cardinality(BlocksOf(s)) = Len(s)
         /\ Len(s) <= Cardinality(Items) /\ Cardinality(Items) \in Nat
<1>1. /\ Len(s) \in Nat /\ s \in [1 .. Len(s) -> BlocksOf(s)] /\ BlocksOf(s) \subseteq Items
      /\ \A i \in BlocksOf(s) : \E k \in 1 .. Len(s) : s[k] = i
  BY Blocks DEF BlocksOf
<1>2. s \in Injection(1 .. Len(s), BlocksOf(s)) /\ s \in Surjection(1 .. Len(s), BlocksOf(s))
  BY <1>1 DEF Chain, Injection, Surjection, IsInjective
<1>3. ExistsBijection(1 .. Len(s), BlocksOf(s))
  BY <1>2 DEF ExistsBijection, Bijection
<1>4. IsFiniteSet(1 .. Len(s)) /\ Cardinality(1 .. Len(s)) = Len(s)
  <2>1. 1 \in Int /\ Len(s) \in Int /\ (1 > Len(s) => Len(s) = 0) /\ Len(s) - 1 + 1 = Len(s)
    BY <1>1
  <2>2. Cardinality(1 .. Len(s)) = IF 1 > Len(s) THEN 0 ELSE Len(s) - 1 + 1
    BY <2>1, FS_Interval
  <2> QED BY <2>1, <2>2, FS_Interval
<1>5. IsFiniteSet(BlocksOf(s)) /\ Cardinality(BlocksOf(s)) = Len(s)
  BY <1>3, <1>4, FS_Bijection
<1>6. Cardinality(BlocksOf(s)) <= Cardinality(Items) /\ Cardinality(Items) \in Nat
  BY <1>1, ItemsAssumption, FS_Subset, FS_CardinalityType
<1> QED BY <1>5, <1>6

\* A block goes to the end of a list it is not on; the block that was last points at it.
LEMMA AppendToChain ==
  ASSUME NEW n \in [Items -> Items \cup {Null}], NEW s \in Seq(Items), NEW head, NEW tail,
         Chain(n, s, head, tail), NEW i \in Items \ BlocksOf(s)
  PROVE  /\ Append(s, i) \in Seq(Items) /\ Len(Append(s, i)) = Len(s) + 1
         /\ BlocksOf(Append(s, i)) = BlocksOf(s) \cup {i}
         /\ tail # Null => Chain([n EXCEPT ![tail] = i], Append(s, i), head, i)
         /\ tail = Null => Chain(n, Append(s, i), i, i)
<1> DEFINE t == Append(s, i)
<1>1. /\ t \in Seq(Items) /\ Len(t) = Len(s) + 1 /\ t[Len(s) + 1] = i
      /\ \A k \in 1 .. Len(s) : t[k] = s[k]
  BY AppendProperties
<1>2. /\ Len(s) \in Nat /\ (s = <<>> <=> Len(s) = 0)
      /\ \A k \in 1 .. Len(s) : s[k] \in Items /\ s[k] # Null /\ s[k] # i /\ s[k] \in BlocksOf(s)
      /\ \A b \in BlocksOf(s) : \E k \in 1 .. Len(s) : s[k] = b
  BY Blocks
<1> HIDE DEF t
<1>3. t # <<>> /\ DOMAIN t = 1 .. Len(s) + 1 /\ DOMAIN s = 1 .. Len(s)
  BY <1>1, <1>2, Blocks
<1>4. \A k \in 1 .. Len(s) + 1 : k \in 1 .. Len(s) \/ k = Len(s) + 1
  BY <1>2
<1>5. BlocksOf(t) = BlocksOf(s) \cup {i}
  <2>1. Len(s) + 1 \in 1 .. Len(s) + 1 /\ \A k \in 1 .. Len(s) : k \in 1 .. Len(s) + 1
    BY <1>2
  <2> QED BY <1>1, <1>3, <1>4, <2>1 DEF BlocksOf
<1>6. \A j, k \in 1 .. Len(t) : t[j] = t[k] => j = k
  BY <1>1, <1>2, <1>4 DEF Chain
<1>7. CASE tail # Null
  <2>1. s # <<>> /\ head = s[1] /\ tail = s[Len(s)] /\ Len(s) >= 1 /\ Len(s) \in 1 .. Len(s)
    BY <1>2, <1>7 DEF Chain
  <2>2. ASSUME NEW k \in 1 .. Len(s) PROVE [n EXCEPT ![tail] = i][t[k]] = t[k + 1]
    <3>1. CASE k = Len(s)
      BY <1>1, <1>2, <2>1, <3>1
    <3>2. CASE k # Len(s)
      <4>1. k \in 1 .. Len(s) - 1 /\ k + 1 \in 1 .. Len(s)
        BY <1>2, <3>2
      <4>2. s[k] # tail /\ n[s[k]] = s[k + 1]
        BY <2>1, <3>2, <4>1 DEF Chain
      <4> QED BY <1>1, <1>2, <4>1, <4>2
    <3> QED BY <3>1, <3>2
  <2>3. t[1] = head
    BY <1>1, <2>1
  <2> QED BY <1>1, <1>2, <1>3, <1>5, <1>6, <1>7, <2>2, <2>3 DEF Chain, t
<1>8. CASE tail = Null
  <2>1. Len(s) = 0 /\ Len(t) = 1 /\ t[1] = i
    BY <1>1, <1>2, <1>8 DEF Chain
  <2> QED BY <1>1, <1>3, <1>5, <1>6, <1>8, <2>1 DEF Chain, t
<1> QED BY <1>7, <1>8

\* What the blocks of other lists point at is nothing to a list.
LEMMA OtherPointers ==
  ASSUME NEW n, NEW m, NEW s \in Seq(Items), NEW head, NEW tail, Chain(n, s, head, tail),
         \A i \in BlocksOf(s) : m[i] = n[i]
  PROVE  Chain(m, s, head, tail)
<1>1. \A k \in 1 .. Len(s) : m[s[k]] = n[s[k]]
  BY Blocks
<1>2. Len(s) \in Nat
  BY Blocks
<1> QED BY <1>1, <1>2 DEF Chain

\* The block at the head leaves a list; the one it points at is the next head, unless it was
\* the last.
LEMMA HeadOffChain ==
  ASSUME NEW n, NEW s \in Seq(Items), NEW head, NEW tail, Chain(n, s, head, tail), s # <<>>
  PROVE  /\ Tail(s) \in Seq(Items) /\ Len(Tail(s)) = Len(s) - 1
         /\ head = s[1] /\ head \in BlocksOf(s) /\ BlocksOf(Tail(s)) = BlocksOf(s) \ {head}
         /\ head = tail => Chain(n, Tail(s), Null, Null)
         /\ head # tail => Chain(n, Tail(s), n[head], tail)
<1> DEFINE t == Tail(s)
<1>1. /\ t \in Seq(Items) /\ Len(t) = Len(s) - 1 /\ \A k \in 1 .. Len(s) - 1 : t[k] = s[k + 1]
  BY HeadTailProperties
<1>2. /\ Len(s) \in Nat /\ Len(s) >= 1 /\ DOMAIN s = 1 .. Len(s) /\ 1 \in 1 .. Len(s)
      /\ Len(s) \in 1 .. Len(s)
  BY Blocks
<1>3. /\ head = s[1] /\ tail = s[Len(s)] /\ \A j, k \in 1 .. Len(s) : s[j] = s[k] => j = k
      /\ \A k \in 1 .. Len(s) - 1 : n[s[k]] = s[k + 1]
  BY DEF Chain
<1> HIDE DEF t
<1>4. DOMAIN t = 1 .. Len(s) - 1 /\ (t = <<>> <=> Len(s) = 1)
  BY <1>1, <1>2, Blocks
<1>5. \A k \in 1 .. Len(s) - 1 : k + 1 \in 1 .. Len(s) /\ k \in 1 .. Len(s)
  BY <1>2
<1>6. BlocksOf(t) = BlocksOf(s) \ {head} /\ head \in BlocksOf(s)
  <2>1. ASSUME NEW b \in BlocksOf(t) PROVE b \in BlocksOf(s) \ {head}
    <3>1. PICK k \in 1 .. Len(s) - 1 : b = s[k + 1]
      BY <1>1, <1>4 DEF BlocksOf
    <3>2. k + 1 \in 1 .. Len(s) /\ k + 1 # 1
      BY <1>5
    <3> QED BY <1>2, <1>3, <3>1, <3>2 DEF BlocksOf
  <2>2. ASSUME NEW b \in BlocksOf(s), b # head PROVE b \in BlocksOf(t)
    <3>1. PICK k \in 1 .. Len(s) : b = s[k]
      BY <1>2 DEF BlocksOf
    <3>2. k - 1 \in 1 .. Len(s) - 1 /\ (k - 1) + 1 = k
      BY <1>2, <1>3, <2>2, <3>1
    <3>3. t[k - 1] = b
      BY <1>1, <3>1, <3>2
    <3> QED BY <1>4, <3>2, <3>3 DEF BlocksOf
  <2>3. head \in BlocksOf(s)
    BY <1>2, <1>3 DEF BlocksOf
  <2> QED BY <2>1, <2>2, <2>3
<1>7. \A j, k \in 1 .. Len(t) : t[j] = t[k] => j = k
  BY SMTT(30), <1>1, <1>2, <1>3, <1>5
<1>8. head = tail <=> Len(s) = 1
  BY <1>2, <1>3
<1>9. CASE head = tail
  <2>1. t = <<>>
    BY <1>4, <1>8, <1>9
  <2> QED BY <1>1, <1>3, <1>6, <1>7, <1>9, <2>1 DEF Chain, t
<1>10. CASE head # tail
  <2>1. t # <<>> /\ 1 \in 1 .. Len(s) - 1 /\ Len(s) - 1 \in 1 .. Len(s) - 1
    BY <1>2, <1>4, <1>8, <1>10
  <2>2. n[head] = t[1] /\ tail = t[Len(t)]
    BY <1>1, <1>2, <1>3, <2>1
  <2>3. ASSUME NEW k \in 1 .. Len(t) - 1 PROVE n[t[k]] = t[k + 1]
    <3>1. k \in 1 .. Len(s) - 1 /\ k + 1 \in 1 .. Len(s) - 1
      BY <1>1, <1>2
    <3> QED BY <1>1, <1>3, <3>1
  <2> QED BY <1>1, <1>3, <1>6, <1>7, <1>10, <2>1, <2>2, <2>3 DEF Chain, t
<1> QED BY <1>9, <1>10

\* Every set of naturals that is not empty has a least member.
LEMMA LeastNumber ==
  ASSUME NEW T \in SUBSET Nat, T # {}
  PROVE  \E least \in T : \A n \in T : least <= n
<1> DEFINE Less == {pair \in Nat \X Nat : pair[1] < pair[2]}
<1>1. IsWellFoundedOn(Less, Nat)
  BY NatLessThanWellFounded DEF OpToRel
<1>2. PICK least \in T : \A n \in T : ~(<<n, least>> \in Less)
  BY <1>1, WFMin
<1>3. ASSUME NEW n \in T PROVE least <= n
  <2>1. <<n, least>> \in Nat \X Nat /\ ~(n < least)
    BY <1>2
  <2> QED BY <2>1
<1> QED BY <1>3

\* The walk along the pointers, as Walk defines it.
At(head, tail) ==
  CHOOSE at : at = [n \in 1 .. Cardinality(Items) |->
                      IF n = 1 THEN head
                      ELSE IF at[n - 1] \in {Null, tail} THEN Null ELSE next[at[n - 1]]]

\* Walk ends where At has nothing more.
LEMMA WalkIsAt ==
  \A head, tail :
    Walk(head, tail) = [n \in 1 .. Cardinality({m \in DOMAIN At(head, tail) : At(head, tail)[m] # Null})
                          |-> At(head, tail)[n]]
BY DEF Walk, At

\* The walk goes through the blocks of a list in their order, and through no others.
LEMMA WalkIsChain ==
  \A s \in Seq(Items) : \A head, tail : Chain(next, s, head, tail) => Walk(head, tail) = s
<1> SUFFICES ASSUME NEW s \in Seq(Items), NEW head, NEW tail, Chain(next, s, head, tail)
             PROVE  Walk(head, tail) = s
  OBVIOUS
<1> DEFINE N == Cardinality(Items)
           at == At(head, tail)
           Step(f, n) == IF n = 1 THEN head ELSE IF f[n - 1] \in {Null, tail} THEN Null ELSE next[f[n - 1]]
           place == [n \in 1 .. N |-> IF n <= Len(s) THEN s[n] ELSE Null]
<1>1. /\ Len(s) \in Nat /\ DOMAIN s = 1 .. Len(s) /\ s \in [1 .. Len(s) -> Items]
      /\ \A k \in 1 .. Len(s) : s[k] \in Items /\ s[k] # Null
      /\ s = <<>> <=> Len(s) = 0
  BY Blocks
<1>2. N \in Nat /\ Len(s) <= N
  BY BlocksCounted
<1> HIDE DEF N
<1>3. ASSUME NEW f, NEW n \in 1 .. N, n = 1 \/ f[n - 1] = place[n - 1] PROVE Step(f, n) = place[n]
  <2>1. CASE n = 1
    <3>1. CASE s = <<>>
      BY <1>1, <1>2, <2>1, <3>1 DEF Chain
    <3>2. CASE s # <<>>
      BY <1>1, <1>2, <2>1, <3>2 DEF Chain
    <3> QED BY <3>1, <3>2
  <2>2. CASE n # 1
    <3>1. n - 1 \in 1 .. N /\ (n - 1) + 1 = n
      BY <1>2, <2>2
    <3>2. CASE n - 1 <= Len(s)
      <4>1. n - 1 \in 1 .. Len(s) /\ s # <<>> /\ Len(s) \in 1 .. Len(s)
        BY <1>1, <3>1, <3>2
      <4>2. f[n - 1] = s[n - 1] /\ s[n - 1] # Null /\ tail = s[Len(s)]
        BY <1>1, <1>3, <2>2, <3>1, <3>2, <4>1 DEF Chain
      <4>3. CASE n - 1 = Len(s)
        BY <1>1, <2>2, <4>2, <4>3
      <4>4. CASE n - 1 # Len(s)
        <5>1. n - 1 \in 1 .. Len(s) - 1 /\ n <= Len(s)
          BY <1>1, <3>1, <3>2, <4>4
        <5>2. s[n - 1] # tail /\ next[s[n - 1]] = s[n]
          BY <3>1, <4>1, <4>2, <4>4, <5>1 DEF Chain
        <5> QED BY <2>2, <4>2, <5>1, <5>2
      <4> QED BY <4>3, <4>4
    <3>3. CASE ~(n - 1 <= Len(s))
      <4>1. f[n - 1] = Null /\ ~(n <= Len(s))
        BY <1>1, <1>3, <2>2, <3>1, <3>3
      <4> QED BY <2>2, <4>1
    <3> QED BY <3>2, <3>3
  <2> QED BY <2>1, <2>2
<1>4. place = [n \in 1 .. N |-> Step(place, n)]
  <2>1. place = [n \in 1 .. N |-> place[n]]
    OBVIOUS
  <2> HIDE DEF place, Step
  <2>2. \A n \in 1 .. N : Step(place, n) = place[n]
    BY <1>3
  <2> QED BY <2>1, <2>2
<1>5. at = [n \in 1 .. N |-> Step(at, n)]
  <2> HIDE DEF place
  <2>1. \E f : f = [n \in 1 .. N |-> Step(f, n)]
    BY <1>4
  <2> QED BY <2>1 DEF At, N
<1> HIDE DEF at, Step
<1>6. \A n \in 1 .. N : at[n] = place[n]
  <2> DEFINE Differ == {n \in Nat : n \in 1 .. N /\ at[n] # place[n]}
  <2> SUFFICES ASSUME Differ # {} PROVE FALSE
    BY <1>2
  <2>1. PICK n \in Differ : \A m \in Differ : n <= m
    BY LeastNumber
  <2>2. n \in 1 .. N /\ at[n] = Step(at, n) /\ at[n] # place[n]
    BY <1>5
  <2>3. n = 1 \/ at[n - 1] = place[n - 1]
    <3>1. CASE n # 1
      <4>1. n - 1 \in Nat /\ n - 1 \in 1 .. N /\ ~(n <= n - 1)
        BY <1>2, <2>2, <3>1
      <4> QED BY <2>1, <4>1
    <3> QED BY <3>1
  <2> QED BY <1>3, <2>2, <2>3
<1>7. DOMAIN at = 1 .. N
  BY <1>5
<1>8. {m \in DOMAIN at : at[m] # Null} = 1 .. Len(s)
  <2>1. \A m \in 1 .. N : at[m] # Null <=> m <= Len(s)
    BY <1>1, <1>6
  <2>2. \A m : m \in 1 .. Len(s) <=> m \in 1 .. N /\ m <= Len(s)
    BY <1>1, <1>2
  <2> QED BY <1>7, <2>1, <2>2
<1>9. Cardinality(1 .. Len(s)) = Len(s)
  <2>1. 1 \in Int /\ Len(s) \in Int /\ (1 > Len(s) => Len(s) = 0) /\ Len(s) - 1 + 1 = Len(s)
    BY <1>1
  <2>2. Cardinality(1 .. Len(s)) = IF 1 > Len(s) THEN 0 ELSE Len(s) - 1 + 1
    BY <2>1, FS_Interval
  <2> QED BY <2>1, <2>2
<1>10. [n \in 1 .. Len(s) |-> at[n]] = s
  <2>1. \A n \in 1 .. Len(s) : n \in 1 .. N /\ at[n] = s[n]
    BY <1>1, <1>2, <1>6
  <2> QED BY <1>1, <2>1
<1> QED BY <1>8, <1>9, <1>10, WalkIsAt DEF at

-----------------------------------------------------------------------------
(* The two lists.                                                          *)

\* The block that the flush still holds: its completion routine runs, and it will be freed.
Held == IF pc = "call" /\ ~retained THEN {item} ELSE {}

Types ==
  /\ next \in [Items -> Items \cup {Null}] /\ payload \in [Items -> Nat]
  /\ freeCount \in Nat /\ added \in Nat /\ allocated \subseteq Items
  /\ pc = "loop" => item = activeHead /\ activeHead # Null
  /\ pc = "call" => item \in Items

\* The allocated blocks are those of the active list, those of the free list, and the one held,
\* none of them twice.
Lists(act, free) ==
  /\ Chain(next, act, activeHead, activeTail) /\ Chain(next, free, freeHead, freeTail)
  /\ BlocksOf(act) \cap BlocksOf(free) = {}
  /\ Held \cap (BlocksOf(act) \cup BlocksOf(free)) = {}
  /\ allocated = BlocksOf(act) \cup BlocksOf(free) \cup Held
  /\ Len(free) = freeCount

ListInv == Types /\ \E act, free \in Seq(Items) : Lists(act, free)

\* The completions of the blocks of a list, in order.
Numbered(pl, s) == [k \in DOMAIN s |-> pl[s[k]]]

\* A step of the abstract queue, or none, from the completions q to the completions r.
Moves(q, r) ==
  \/ /\ added < MaxAdds /\ added' = added + 1
     /\ \/ r = Append(q, added + 1) /\ called' = called
        \/ called' = added + 1 /\ r = q
  \/ q # <<>> /\ called' = Head(q) /\ r = Tail(q) /\ added' = added
  \/ r = <<>> /\ added' = added /\ called' = called
  \/ r = q /\ added' = added /\ called' = called

\* A step from the lists act and free leads to lists again, and is one of the queue.
Steps(act) ==
  Types' /\ \E act2, free2 \in Seq(Items) :
              Lists(act2, free2)' /\ Moves(Numbered(payload, act), Numbered(payload', act2))

\* The completions of a list are numbers.
LEMMA NumberedType ==
  ASSUME NEW pl \in [Items -> Nat], NEW s \in Seq(Items)
  PROVE  /\ Numbered(pl, s) \in Seq(Nat) /\ Len(Numbered(pl, s)) = Len(s)
         /\ \A k \in 1 .. Len(s) : Numbered(pl, s)[k] = pl[s[k]]
<1>1. Len(s) \in Nat /\ DOMAIN s = 1 .. Len(s) /\ \A k \in 1 .. Len(s) : s[k] \in Items
  BY Blocks
<1>2. Numbered(pl, s) = [k \in 1 .. Len(s) |-> pl[s[k]]]
  BY <1>1 DEF Numbered
<1>3. \A k \in 1 .. Len(s) : pl[s[k]] \in Nat
  BY <1>1
<1> QED BY <1>1, <1>2, <1>3

\* The number of a block that goes to the end goes to the end.
LEMMA NumberedAppend ==
  ASSUME NEW pl \in [Items -> Nat], NEW s \in Seq(Items), NEW i \in Items \ BlocksOf(s), NEW c \in Nat
  PROVE  Numbered([pl EXCEPT ![i] = c], Append(s, i)) = Append(Numbered(pl, s), c)
<1> DEFINE q == Numbered(pl, s)
           t == Append(s, i)
           pl2 == [pl EXCEPT ![i] = c]
           r == Numbered(pl2, t)
<1>1. q \in Seq(Nat) /\ Len(q) = Len(s) /\ \A k \in 1 .. Len(s) : q[k] = pl[s[k]]
  BY NumberedType
<1>2. /\ Len(s) \in Nat /\ \A k \in 1 .. Len(s) : s[k] \in Items /\ s[k] # i
  BY Blocks
<1>3. /\ t \in Seq(Items) /\ Len(t) = Len(s) + 1 /\ t[Len(s) + 1] = i
      /\ \A k \in 1 .. Len(s) : t[k] = s[k]
  BY AppendProperties
<1>4. pl2 \in [Items -> Nat] /\ pl2[i] = c /\ \A j \in Items : j # i => pl2[j] = pl[j]
  OBVIOUS
<1> HIDE DEF pl2
<1>5. r \in Seq(Nat) /\ Len(r) = Len(s) + 1 /\ \A k \in 1 .. Len(s) + 1 : r[k] = pl2[t[k]]
  <2> HIDE DEF t
  <2>1. r \in Seq(Nat) /\ Len(r) = Len(t) /\ \A k \in 1 .. Len(t) : r[k] = pl2[t[k]]
    <3>1. t \in Seq(Items) /\ pl2 \in [Items -> Nat]
      BY <1>3, <1>4
    <3> QED BY <3>1, NumberedType
  <2> HIDE DEF r
  <2> QED BY <1>3, <2>1
<1>6. /\ Append(q, c) \in Seq(Nat) /\ Len(Append(q, c)) = Len(s) + 1 /\ Append(q, c)[Len(s) + 1] = c
      /\ \A k \in 1 .. Len(s) : Append(q, c)[k] = q[k]
  <2> HIDE DEF q
  <2> QED BY <1>1, AppendProperties
<1> HIDE DEF q, r, t
<1>7. ASSUME NEW k \in 1 .. Len(s) + 1 PROVE r[k] = Append(q, c)[k]
  <2>1. CASE k \in 1 .. Len(s)
    <3>1. r[k] = pl[s[k]]
      BY <1>2, <1>3, <1>4, <1>5, <2>1
    <3> QED BY <1>1, <1>6, <2>1, <3>1
  <2>2. CASE k = Len(s) + 1
    BY <1>3, <1>4, <1>5, <1>6, <2>2
  <2>3. k \in 1 .. Len(s) \/ k = Len(s) + 1
    BY <1>2
  <2> QED BY <2>1, <2>2, <2>3
<1>8. r = Append(q, c)
  BY <1>5, <1>6, <1>7, SeqEqual
<1> QED BY <1>8 DEF q, r, t, pl2

\* The number of the block at the head is the first.
LEMMA NumberedTail ==
  ASSUME NEW pl \in [Items -> Nat], NEW s \in Seq(Items), s # <<>>
  PROVE  /\ Numbered(pl, s) # <<>> /\ Head(Numbered(pl, s)) = pl[s[1]]
         /\ Numbered(pl, Tail(s)) = Tail(Numbered(pl, s))
<1> DEFINE q == Numbered(pl, s)
           t == Tail(s)
           r == Numbered(pl, t)
<1>1. q \in Seq(Nat) /\ Len(q) = Len(s) /\ \A k \in 1 .. Len(s) : q[k] = pl[s[k]]
  BY NumberedType
<1>2. Len(s) \in Nat /\ Len(s) >= 1
  BY Blocks
<1>3. /\ t \in Seq(Items) /\ Len(t) = Len(s) - 1 /\ \A k \in 1 .. Len(s) - 1 : t[k] = s[k + 1]
  BY HeadTailProperties
<1>4. r \in Seq(Nat) /\ Len(r) = Len(s) - 1 /\ \A k \in 1 .. Len(s) - 1 : r[k] = pl[t[k]]
  <2> HIDE DEF t
  <2>1. r \in Seq(Nat) /\ Len(r) = Len(t) /\ \A k \in 1 .. Len(t) : r[k] = pl[t[k]]
    <3>1. t \in Seq(Items)
      BY <1>3
    <3> QED BY <3>1, NumberedType
  <2> HIDE DEF r
  <2> QED BY <1>3, <2>1
<1> HIDE DEF q, r, t
<1>5. q # <<>> /\ Head(q) = q[1]
  BY <1>1, <1>2
<1>6. Tail(q) \in Seq(Nat) /\ Len(Tail(q)) = Len(s) - 1 /\ \A k \in 1 .. Len(s) - 1 : Tail(q)[k] = q[k + 1]
  BY <1>1, <1>5, HeadTailProperties
<1>7. \A k \in 1 .. Len(s) - 1 : k + 1 \in 1 .. Len(s)
  BY <1>2
<1>8. r = Tail(q)
  <2>1. ASSUME NEW k \in 1 .. Len(s) - 1 PROVE r[k] = Tail(q)[k]
    <3>1. r[k] = pl[s[k + 1]]
      BY <1>3, <1>4
    <3>2. q[k + 1] = pl[s[k + 1]]
      BY <1>1, <1>7
    <3> QED BY <1>6, <3>1, <3>2
  <2> DEFINE u == Tail(q)
  <2>2. u \in Seq(Nat) /\ Len(r) = Len(u) /\ \A k \in 1 .. Len(r) : r[k] = u[k]
    BY <1>4, <1>6, <2>1
  <2> HIDE DEF u
  <2>3. r = u
    BY <1>4, <2>2, SeqEqual
  <2> QED BY <2>3 DEF u
<1>9. Head(q) = pl[s[1]]
  BY <1>1, <1>2, <1>5
<1> QED BY <1>5, <1>8, <1>9 DEF q, r, t

-----------------------------------------------------------------------------
(* One lemma per action.                                                   *)

\* An action that leaves the lists alone, and the block held as well.
LEMMA ListsFrame ==
  ASSUME Types, NEW act \in Seq(Items), NEW free \in Seq(Items), Lists(act, free),
         UNCHANGED listVars, Held' = Held,
         pc' = "loop" => item' = activeHead' /\ activeHead' # Null, pc' = "call" => item' \in Items,
         \/ added' = added /\ called' = called
         \/ added < MaxAdds /\ added' = added + 1 /\ called' = added + 1
  PROVE  Steps(act)
<1>1. /\ activeHead' = activeHead /\ activeTail' = activeTail /\ freeHead' = freeHead
      /\ freeTail' = freeTail /\ freeCount' = freeCount /\ next' = next /\ payload' = payload
      /\ allocated' = allocated
  BY DEF listVars
<1>2. Types'
  BY <1>1 DEF Types
<1>3. Lists(act, free)'
  BY <1>1 DEF Lists
<1>4. Moves(Numbered(payload, act), Numbered(payload', act))
  BY <1>1 DEF Moves
<1> QED BY <1>2, <1>3, <1>4 DEF Steps

\* A block that is on no list goes to the end of the active one.
LEMMA EnlistStep ==
  ASSUME Types, NEW act \in Seq(Items), NEW free \in Seq(Items), Lists(act, free),
         NEW i \in Items, i \notin BlocksOf(act), MayAdd, Enlist(i), called' = called,
         UNCHANGED <<pc, item>>, Held' = Held, i \notin Held,
         NEW rest \in Seq(Items), i \notin BlocksOf(rest), BlocksOf(rest) \subseteq BlocksOf(free),
         Chain(next, rest, freeHead', freeTail'), freeCount' = Len(rest),
         allocated' = BlocksOf(act) \cup {i} \cup BlocksOf(rest) \cup Held
  PROVE  Steps(act)
<1> DEFINE more == Append(act, i)
<1>1. /\ next \in [Items -> Items \cup {Null}] /\ payload \in [Items -> Nat] /\ added \in Nat
      /\ Chain(next, act, activeHead, activeTail) /\ BlocksOf(act) \cap BlocksOf(free) = {}
      /\ Held \cap (BlocksOf(act) \cup BlocksOf(free)) = {}
  BY DEF Types, Lists
<1>2. /\ pc # "loop" /\ added < MaxAdds /\ added' = added + 1
      /\ payload' = [payload EXCEPT ![i] = added + 1] /\ activeTail' = i
      /\ IF activeTail # Null THEN next' = [next EXCEPT ![activeTail] = i] /\ activeHead' = activeHead
         ELSE activeHead' = i /\ next' = next
  BY DEF MayAdd, Enlist
<1>3. /\ more \in Seq(Items) /\ BlocksOf(more) = BlocksOf(act) \cup {i}
      /\ activeTail # Null => Chain([next EXCEPT ![activeTail] = i], more, activeHead, i)
      /\ activeTail = Null => Chain(next, more, i, i)
  BY <1>1, AppendToChain
<1> HIDE DEF more
<1>4. Chain(next', more, activeHead', activeTail')
  BY <1>2, <1>3
<1>5. activeTail # Null => activeTail \in BlocksOf(act)
  <2>1. activeTail # Null => act # <<>> /\ activeTail = act[Len(act)]
    BY <1>1 DEF Chain
  <2>2. /\ Len(act) \in Nat /\ (act = <<>> <=> Len(act) = 0)
        /\ \A k \in 1 .. Len(act) : act[k] \in BlocksOf(act)
    BY Blocks
  <2>3. act # <<>> => Len(act) \in 1 .. Len(act)
    BY <2>2
  <2> QED BY <2>1, <2>2, <2>3
<1>6. Chain(next', rest, freeHead', freeTail')
  <2>1. BlocksOf(rest) \subseteq Items
    BY Blocks
  <2>2. \A j \in BlocksOf(rest) : next'[j] = next[j]
    BY <1>1, <1>2, <1>5, <2>1
  <2> QED BY <2>2, OtherPointers
<1>7. Types'
  <2>1. next' \in [Items -> Items \cup {Null}] /\ payload' \in [Items -> Nat] /\ added' \in Nat
    <3>1. added + 1 \in Nat
      BY <1>1
    <3>2. payload' \in [Items -> Nat]
      BY <1>1, <1>2, <3>1
    <3>3. next' \in [Items -> Items \cup {Null}]
      BY <1>1, <1>2
    <3> QED BY <1>2, <3>1, <3>2, <3>3
  <2>2. freeCount' \in Nat /\ allocated' \subseteq Items
    <3>1. Len(rest) \in Nat /\ BlocksOf(rest) \subseteq Items /\ BlocksOf(act) \subseteq Items
      BY Blocks
    <3>2. Held \subseteq Items
      BY DEF Held, Types
    <3> QED BY <3>1, <3>2
  <2> QED BY <1>2, <2>1, <2>2 DEF Types
<1>8. Lists(more, rest)'
  BY <1>1, <1>3, <1>4, <1>6 DEF Lists
<1>9. Moves(Numbered(payload, act), Numbered(payload', more))
  <2>1. Numbered(payload', more) = Append(Numbered(payload, act), added + 1)
    <3>1. PICK c \in Nat : c = added + 1
      BY <1>1
    <3>2. payload \in [Items -> Nat] /\ i \in Items \ BlocksOf(act)
      BY <1>1
    <3>3. \A pl \in [Items -> Nat], j \in Items \ BlocksOf(act), d \in Nat :
            Numbered([pl EXCEPT ![j] = d], Append(act, j)) = Append(Numbered(pl, act), d)
      BY NumberedAppend
    <3>4. Numbered([payload EXCEPT ![i] = c], Append(act, i)) = Append(Numbered(payload, act), c)
      BY ZenonT(30), <3>2, <3>3
    <3> QED BY <1>2, <3>1, <3>4 DEF more
  <2> QED BY <1>2, <2>1 DEF Moves
<1> QED BY <1>3, <1>7, <1>8, <1>9 DEF Steps

\* AddItem reuses the oldest block of the free list, even that of the completion being called.
LEMMA ReusedStep ==
  ASSUME Types, NEW act \in Seq(Items), NEW free \in Seq(Items), Lists(act, free), AddReused
  PROVE  Steps(act)
<1>1. /\ Chain(next, free, freeHead, freeTail) /\ BlocksOf(act) \cap BlocksOf(free) = {}
      /\ Held \cap (BlocksOf(act) \cup BlocksOf(free)) = {} /\ Len(free) = freeCount
      /\ allocated = BlocksOf(act) \cup BlocksOf(free) \cup Held
  BY DEF Lists
<1>2. /\ MayAdd /\ freeHead # Null /\ freeCount' = freeCount - 1 /\ Enlist(freeHead)
      /\ IF freeHead = freeTail THEN freeHead' = Null /\ freeTail' = Null
         ELSE freeHead' = next[freeHead] /\ freeTail' = freeTail
      /\ allocated' = allocated /\ called' = called /\ pc' = pc /\ item' = item /\ (retained' <=> retained)
  BY DEF AddReused, TakeFree, flushVars
<1>3. free # <<>>
  BY <1>1, <1>2 DEF Chain
<1> DEFINE rest == Tail(free)
<1>4. /\ rest \in Seq(Items) /\ Len(rest) = Len(free) - 1 /\ freeHead \in BlocksOf(free)
      /\ BlocksOf(rest) = BlocksOf(free) \ {freeHead}
      /\ freeHead = freeTail => Chain(next, rest, Null, Null)
      /\ freeHead # freeTail => Chain(next, rest, next[freeHead], freeTail)
  BY <1>1, <1>3, HeadOffChain
<1> HIDE DEF rest
<1>5. PICK i \in Items : i = freeHead
  BY <1>4, Blocks
<1>6. /\ i \notin BlocksOf(act) /\ i \notin BlocksOf(rest) /\ i \notin Held
      /\ BlocksOf(rest) \subseteq BlocksOf(free) /\ Chain(next, rest, freeHead', freeTail')
      /\ freeCount' = Len(rest) /\ allocated' = BlocksOf(act) \cup {i} \cup BlocksOf(rest) \cup Held
  BY <1>1, <1>2, <1>4, <1>5
<1>7. Held' = Held
  BY <1>2 DEF Held
<1>8. Enlist(i)
  BY <1>2, <1>5
<1> QED BY <1>2, <1>4, <1>6, <1>7, <1>8, EnlistStep

\* AddItem allocates a block when none is kept for reuse.
LEMMA AllocatedStep ==
  ASSUME Types, NEW act \in Seq(Items), NEW free \in Seq(Items), Lists(act, free), AddAllocated
  PROVE  Steps(act)
<1>1. /\ Chain(next, free, freeHead, freeTail) /\ Len(free) = freeCount
      /\ allocated = BlocksOf(act) \cup BlocksOf(free) \cup Held
  BY DEF Lists
<1>2. PICK i \in Items \ allocated : allocated' = allocated \cup {i} /\ Enlist(i)
  BY DEF AddAllocated
<1>3. /\ MayAdd /\ freeHead' = freeHead /\ freeTail' = freeTail /\ freeCount' = freeCount
      /\ called' = called /\ pc' = pc /\ item' = item /\ (retained' <=> retained)
  BY DEF AddAllocated, flushVars
<1>4. Held' = Held
  BY <1>3 DEF Held
<1>5. /\ i \in Items /\ i \notin BlocksOf(act) /\ i \notin BlocksOf(free) /\ i \notin Held
      /\ Chain(next, free, freeHead', freeTail') /\ freeCount' = Len(free)
      /\ allocated' = BlocksOf(act) \cup {i} \cup BlocksOf(free) \cup Held
  BY <1>1, <1>2, <1>3
<1> QED BY <1>2, <1>3, <1>4, <1>5, EnlistStep

\* InternalFlush takes the oldest item, keeps its block or holds it, and calls its completion.
LEMMA FlushOneStep ==
  ASSUME Types, NEW act \in Seq(Items), NEW free \in Seq(Items), Lists(act, free), FlushOne
  PROVE  Steps(act)
<1>1. /\ Chain(next, act, activeHead, activeTail) /\ Chain(next, free, freeHead, freeTail)
      /\ BlocksOf(act) \cap BlocksOf(free) = {} /\ Len(free) = freeCount
      /\ allocated = BlocksOf(act) \cup BlocksOf(free) \cup Held
  BY DEF Lists
<1>2. /\ pc = "loop" /\ item = activeHead /\ activeHead # Null
      /\ next \in [Items -> Items \cup {Null}] /\ payload \in [Items -> Nat] /\ freeCount \in Nat
      /\ added \in Nat /\ allocated \subseteq Items
  BY DEF Types, FlushOne
<1>3. /\ IF item = activeTail THEN activeHead' = Null /\ activeTail' = Null
         ELSE activeHead' = next[item] /\ activeTail' = activeTail
      /\ IF retained'
         THEN /\ IF freeTail # Null THEN next' = [next EXCEPT ![freeTail] = item] /\ freeHead' = freeHead
                 ELSE freeHead' = item /\ next' = next
              /\ freeTail' = item /\ freeCount' = freeCount + 1
         ELSE next' = next /\ freeHead' = freeHead /\ freeTail' = freeTail /\ freeCount' = freeCount
      /\ called' = payload[item] /\ pc' = "call"
      /\ payload' = payload /\ allocated' = allocated /\ item' = item /\ added' = added
  BY DEF FlushOne, TailLeft
<1>4. act # <<>> /\ Held = {}
  BY <1>1, <1>2 DEF Chain, Held
<1> DEFINE rest == Tail(act)
<1>5. /\ rest \in Seq(Items) /\ activeHead \in BlocksOf(act) /\ activeHead = act[1]
      /\ BlocksOf(rest) = BlocksOf(act) \ {activeHead}
      /\ activeHead = activeTail => Chain(next, rest, Null, Null)
      /\ activeHead # activeTail => Chain(next, rest, next[activeHead], activeTail)
  BY <1>1, <1>4, HeadOffChain
<1>6. /\ Numbered(payload, act) # <<>> /\ Head(Numbered(payload, act)) = payload[act[1]]
      /\ Numbered(payload, rest) = Tail(Numbered(payload, act))
  BY <1>2, <1>4, NumberedTail
<1> HIDE DEF rest
<1>7. Moves(Numbered(payload, act), Numbered(payload', rest))
  BY <1>2, <1>3, <1>5, <1>6 DEF Moves
<1>8. PICK i \in Items : i = item
  BY <1>2, <1>5, Blocks
<1>9. i \in BlocksOf(act) /\ i \notin BlocksOf(free) /\ i \notin BlocksOf(rest)
  BY <1>1, <1>2, <1>5, <1>8
<1>10. Chain(next, rest, activeHead', activeTail')
  BY <1>2, <1>3, <1>5
<1>11. CASE ~retained'
  <2>1. next' = next /\ freeHead' = freeHead /\ freeTail' = freeTail /\ freeCount' = freeCount
    BY <1>3, <1>11
  <2>2. Held' = {i}
    BY <1>3, <1>8, <1>11 DEF Held
  <2>3. Lists(rest, free)'
    BY <1>1, <1>2, <1>3, <1>4, <1>5, <1>8, <1>9, <1>10, <2>1, <2>2 DEF Lists
  <2>4. Types'
    BY <1>2, <1>3, <1>8, <2>1 DEF Types
  <2> QED BY <1>5, <1>7, <2>3, <2>4 DEF Steps
<1>12. CASE retained'
  <2> DEFINE more == Append(free, i)
  <2>1. /\ more \in Seq(Items) /\ BlocksOf(more) = BlocksOf(free) \cup {i} /\ Len(more) = Len(free) + 1
        /\ freeTail # Null => Chain([next EXCEPT ![freeTail] = i], more, freeHead, i)
        /\ freeTail = Null => Chain(next, more, i, i)
    BY <1>1, <1>2, <1>9, AppendToChain
  <2> HIDE DEF more
  <2>2. Chain(next', more, freeHead', freeTail')
    BY <1>3, <1>8, <1>12, <2>1
  <2>3. freeTail # Null => freeTail \in BlocksOf(free)
    <3>1. freeTail # Null => free # <<>> /\ freeTail = free[Len(free)]
      BY <1>1 DEF Chain
    <3>2. /\ Len(free) \in Nat /\ (free = <<>> <=> Len(free) = 0)
          /\ \A k \in 1 .. Len(free) : free[k] \in BlocksOf(free)
      BY Blocks
    <3>3. free # <<>> => Len(free) \in 1 .. Len(free)
      BY <3>2
    <3> QED BY <3>1, <3>2, <3>3
  <2>4. Chain(next', rest, activeHead', activeTail')
    <3>1. \A j \in BlocksOf(rest) : next'[j] = next[j]
      <4>1. BlocksOf(rest) \subseteq Items
        BY <1>5, Blocks
      <4> QED BY <1>1, <1>2, <1>3, <1>5, <1>12, <2>3, <4>1
    <3> QED BY <1>5, <1>10, <3>1, OtherPointers
  <2>5. Held' = {} /\ freeCount' = freeCount + 1
    BY <1>3, <1>12 DEF Held
  <2>6. Lists(rest, more)'
    BY <1>1, <1>2, <1>3, <1>4, <1>5, <1>8, <1>9, <2>1, <2>2, <2>4, <2>5 DEF Lists
  <2>7. Types'
    <3>1. next' \in [Items -> Items \cup {Null}]
      BY <1>2, <1>3, <1>8, <1>12
    <3> QED BY <1>2, <1>3, <1>8, <2>5, <3>1 DEF Types
  <2> QED BY <1>5, <1>7, <2>1, <2>6, <2>7 DEF Steps
<1> QED BY <1>11, <1>12

\* When the completion routine has returned, the block held is freed.
LEMMA CalledStep ==
  ASSUME Types, NEW act \in Seq(Items), NEW free \in Seq(Items), Lists(act, free), Called
  PROVE  Steps(act)
<1>1. /\ pc = "call" /\ allocated' = allocated \ Freed /\ item' = activeHead
      /\ IF activeHead # Null THEN pc' = "loop" ELSE pc' = "idle"
      /\ activeHead' = activeHead /\ activeTail' = activeTail /\ freeHead' = freeHead
      /\ freeTail' = freeTail /\ freeCount' = freeCount /\ next' = next /\ payload' = payload
      /\ added' = added /\ called' = called
  BY DEF Called, histVars
<1>2. Freed = Held /\ Held' = {}
  BY <1>1 DEF Freed, Held
<1>3. Types'
  BY <1>1 DEF Types
<1>4. Lists(act, free)'
  BY <1>1, <1>2 DEF Lists
<1>5. Moves(Numbered(payload, act), Numbered(payload', act))
  BY <1>1 DEF Moves
<1> QED BY <1>3, <1>4, <1>5 DEF Steps

\* Finalize frees both lists.
LEMMA FinalizeStep ==
  ASSUME Types, NEW act \in Seq(Items), NEW free \in Seq(Items), Lists(act, free), Finalize
  PROVE  Steps(act)
<1>1. /\ activeHead' = Null /\ activeTail' = Null /\ freeHead' = Null /\ freeTail' = Null
      /\ freeCount' = 0 /\ allocated' = {} /\ pc = "idle" /\ pc' = pc /\ next' = next
      /\ payload' = payload /\ added' = added /\ called' = called
  BY DEF Finalize, histVars
<1>2. <<>> \in Seq(Items) /\ Len(<<>>) = 0
  OBVIOUS
<1>3. BlocksOf(<<>>) = {}
  BY DEF BlocksOf
<1>4. Held' = {}
  BY <1>1 DEF Held
<1>5. Types'
  BY <1>1 DEF Types
<1>6. Lists(<<>>, <<>>)'
  BY <1>1, <1>2, <1>3, <1>4 DEF Lists, Chain
<1>7. Numbered(payload', <<>>) = <<>>
  BY DEF Numbered
<1>8. Moves(Numbered(payload, act), Numbered(payload', <<>>))
  BY <1>1, <1>7 DEF Moves
<1> QED BY <1>2, <1>5, <1>6, <1>8 DEF Steps

-----------------------------------------------------------------------------
(* The theorems.                                                           *)

\* Whatever two lists there are before a step, the step leads to two lists and is one of the
\* queue or none.
LEMMA StepSteps ==
  ASSUME Types, NEW act \in Seq(Items), NEW free \in Seq(Items), Lists(act, free), [Next]_vars
  PROVE  Steps(act)
<1>0. pc = "loop" => item = activeHead /\ activeHead # Null
  BY DEF Types
<1>1. CASE AddImmediate
  <2>1. /\ UNCHANGED listVars /\ pc' = pc /\ item' = item /\ (retained' <=> retained) /\ pc # "loop"
        /\ added < MaxAdds /\ added' = added + 1 /\ called' = added + 1 /\ activeHead' = activeHead
    BY <1>1 DEF AddImmediate, MayAdd, flushVars, listVars
  <2>2. Held' = Held
    BY <2>1 DEF Held
  <2> QED BY <2>1, <2>2, ListsFrame DEF Types
<1>2. CASE CheckForWork
  <2>1. /\ UNCHANGED listVars /\ pc = "idle" /\ added' = added /\ called' = called
        /\ activeHead' = activeHead
        /\ \/ pc' = "loop" /\ item' = activeHead /\ activeHead # Null
           \/ pc' = pc
    BY <1>2 DEF CheckForWork, histVars, flushVars, listVars
  <2>2. Held' = Held
    BY <2>1 DEF Held
  <2> QED BY <2>1, <2>2, ListsFrame
<1>3. CASE InterruptHandler \/ Terminate \/ UNCHANGED vars
  <2>1. /\ UNCHANGED listVars /\ pc' = pc /\ item' = item /\ (retained' <=> retained)
        /\ added' = added /\ called' = called /\ activeHead' = activeHead
    BY <1>3 DEF InterruptHandler, Terminate, vars, flushVars, histVars, listVars
  <2>2. Held' = Held
    BY <2>1 DEF Held
  <2> QED BY <1>0, <2>1, <2>2, ListsFrame DEF Types
<1> QED BY <1>1, <1>2, <1>3, ReusedStep, AllocatedStep, FlushOneStep, CalledStep, FinalizeStep
        DEF Next, Add, Flush

\* There are no blocks at first.
LEMMA ListInit == Init => ListInv
<1> SUFFICES ASSUME Init PROVE ListInv
  OBVIOUS
<1>1. <<>> \in Seq(Items) /\ Len(<<>>) = 0
  OBVIOUS
<1>2. BlocksOf(<<>>) = {} /\ Held = {}
  BY DEF BlocksOf, Held, Init
<1>3. Lists(<<>>, <<>>)
  BY <1>1, <1>2 DEF Init, Lists, Chain
<1>4. Types
  BY DEF Init, Types
<1> QED BY <1>1, <1>3, <1>4 DEF ListInv

\* The lists that Walk finds are those two.
LEMMA TheLists ==
  \A act, free \in Seq(Items) : Lists(act, free) => ActiveList = act /\ FreeList = free
BY WalkIsChain DEF Lists, ActiveList, FreeList

\* The same after a step.
LEMMA TheListsNext ==
  (\A act, free \in Seq(Items) : Lists(act, free) => ActiveList = act /\ FreeList = free)'
BY TheLists, PTL

\* At every moment two sequences of blocks spell out the pointers of the two lists; together with
\* the block in the flush's hands they are all that is allocated.
THEOREM ListsAlways == Spec => []ListInv
<1>1. ListInv /\ [Next]_vars => ListInv'
  <2> SUFFICES ASSUME ListInv, [Next]_vars PROVE ListInv'
    OBVIOUS
  <2>1. PICK act \in Seq(Items), free \in Seq(Items) : Lists(act, free)
    BY DEF ListInv
  <2>2. Steps(act)
    BY <2>1, StepSteps DEF ListInv
  <2> QED BY <2>2 DEF Steps, ListInv
<1> QED BY <1>1, ListInit, PTL DEF Spec

\* No block is leaked, used after it was freed, or on both lists: neither the stale next pointer
\* of a reused block, nor a completion routine that takes the block of the completion that is
\* being called, undoes it (AddItem, InternalFlush).
THEOREM BlocksAccountedFor == Spec => []ListsPartition
<1>1. ListInv => ListsPartition
  <2> SUFFICES ASSUME ListInv PROVE ListsPartition
    OBVIOUS
  <2>1. PICK act \in Seq(Items), free \in Seq(Items) : Lists(act, free)
    BY DEF ListInv
  <2>2. ActiveList = act /\ FreeList = free
    BY <2>1, TheLists
  <2>3. /\ Chain(next, act, activeHead, activeTail) /\ Chain(next, free, freeHead, freeTail)
        /\ BlocksOf(act) \cap BlocksOf(free) = {}
        /\ Held \cap (BlocksOf(act) \cup BlocksOf(free)) = {}
        /\ allocated = BlocksOf(act) \cup BlocksOf(free) \cup Held
        /\ Len(free) = freeCount
    BY <2>1 DEF Lists
  <2>4. /\ IsFiniteSet(BlocksOf(act)) /\ Cardinality(BlocksOf(act)) = Len(act)
        /\ IsFiniteSet(BlocksOf(free)) /\ Cardinality(BlocksOf(free)) = Len(free)
        /\ Len(act) \in Nat /\ Len(free) \in Nat
    BY <2>3, BlocksCounted, Blocks
  <2>5. IsFiniteSet(Held) /\ Cardinality(Held) \in Nat
    <3>1. CASE Held = {}
      BY <3>1, FS_EmptySet
    <3>2. CASE Held = {item}
      <4>1. IsFiniteSet({item}) /\ Cardinality({item}) = 1
        BY FS_Singleton
      <4> QED BY <3>2, <4>1
    <3> QED BY <3>1, <3>2 DEF Held
  <2>6. /\ IsFiniteSet(BlocksOf(act) \cup BlocksOf(free))
        /\ Cardinality(BlocksOf(act) \cup BlocksOf(free)) = Len(act) + Len(free)
    <3>1. Cardinality(BlocksOf(act) \cap BlocksOf(free)) = 0
      BY <2>3, FS_EmptySet
    <3>2. Cardinality(BlocksOf(act) \cup BlocksOf(free)) = Len(act) + Len(free) - 0
      BY <2>4, <3>1, FS_Union
    <3>3. IsFiniteSet(BlocksOf(act) \cup BlocksOf(free))
      BY <2>4, FS_Union
    <3>4. Len(act) + Len(free) - 0 = Len(act) + Len(free)
      BY <2>4
    <3> QED BY <3>2, <3>3, <3>4
  <2>7. Cardinality(allocated) = Len(act) + Len(free) + Cardinality(Held)
    <3>1. (BlocksOf(act) \cup BlocksOf(free)) \cap Held = {}
      BY <2>3
    <3>2. Cardinality((BlocksOf(act) \cup BlocksOf(free)) \cap Held) = 0
      BY <3>1, FS_EmptySet
    <3>3. Cardinality(allocated) = (Len(act) + Len(free)) + Cardinality(Held) - 0
      BY <2>3, <2>5, <2>6, <3>2, FS_Union
    <3> QED BY <2>4, <2>5, <3>3
  <2> QED BY <2>2, <2>3, <2>7 DEF ListsPartition, Held
<1> QED BY <1>1, ListsAlways, PTL

\* Completions are called in the order in which they were added, each once: every step of the
\* lists is a step of the abstract queue, or leaves it alone.
THEOREM ListsImplementQueue == Spec => ImplementsQueue
<1> DEFINE pending == [k \in DOMAIN ActiveList |-> payload[ActiveList[k]]]
<1>1. Init => Queue!Init
  <2> SUFFICES ASSUME Init PROVE added = 0 /\ pending = <<>> /\ called = 0
    BY DEF Queue!Init
  <2>1. PICK act \in Seq(Items), free \in Seq(Items) : Lists(act, free)
    BY ListInit DEF ListInv
  <2>2. act = <<>>
    BY <2>1, ItemsAssumption, Blocks DEF Init, Lists, Chain
  <2>3. ActiveList = <<>>
    BY <2>1, <2>2, TheLists
  <2> QED BY <2>3 DEF Init
<1>2. ListInv /\ [Next]_vars => [Queue!Next]_Queue!vars
  <2> SUFFICES ASSUME ListInv, [Next]_vars PROVE [Queue!Next]_Queue!vars
    OBVIOUS
  <2>1. PICK act \in Seq(Items), free \in Seq(Items) : Lists(act, free)
    BY DEF ListInv
  <2>2. PICK act2 \in Seq(Items), free2 \in Seq(Items) :
          Lists(act2, free2)' /\ Moves(Numbered(payload, act), Numbered(payload', act2))
    BY <2>1, StepSteps DEF ListInv, Steps
  <2>3. ActiveList = act
    BY <2>1, TheLists
  <2>4. ActiveList' = act2
    BY <2>2, TheListsNext
  <2>5. pending = Numbered(payload, act) /\ pending' = Numbered(payload', act2)
    BY <2>3, <2>4 DEF Numbered
  <2> HIDE DEF pending
  <2>6. Moves(pending, pending')
    BY <2>2, <2>5
  <2> QED BY <2>6 DEF Moves, Queue!Next, Queue!Add, Queue!Call, Queue!Forget, Queue!vars, pending
<1> QED BY <1>1, <1>2, ListsAlways, PTL DEF Spec, ImplementsQueue, Queue!Spec
=============================================================================

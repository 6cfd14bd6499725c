---------------------------- MODULE EventRingProofs ----------------------------
(***************************************************************************)
(* Theorems about EventRing, for queues of every size of at least two.      *)
(*                                                                         *)
(* The invariant follows an event from the ring to the filter, the bounce   *)
(* queue and the work loop or a scan. Events on the ring have the numbers   *)
(* after Taken, in order (RingInv); those further on have numbers up to     *)
(* Taken, each in one place, the later ones behind (QueueInv), and none is  *)
(* missing (NothingForgotten). CallInv says what a Stop Endpoint call knows *)
(* of its stop event.                                                      *)
(***************************************************************************)
EXTENDS EventRing, TLAPS

XHCEntries    == 0 .. NumXHCEntries - 1
BounceEntries == 0 .. NumBounceEntries - 1

Events == {e \in [id: Nat, kind: Kinds \cup {"none"}] : e.id = 0 => e.kind = "none"}

Types ==
  /\ ring \in [XHCEntries -> [event: Events, cycle: {0, 1}]]
  /\ xHCDequeueIndex \in XHCEntries /\ hwIndex \in XHCEntries /\ erdp \in XHCEntries
  /\ cycleState \in {0, 1} /\ hwCycle \in {0, 1}
  /\ bounceQueue \in [BounceEntries -> Events]
  /\ bounceDequeueIndex \in BounceEntries /\ bounceEnqueueIndex \in BounceEntries
  /\ fEvent \in Events /\ wEvent \in Events
  /\ posted \in Nat /\ lastPolled \in Nat

-----------------------------------------------------------------------------
\* The events on the ring that the filter has yet to take.
OnXHC(i) == Ahead(i, xHCDequeueIndex, NumXHCEntries)
Unread == OnXHC(hwIndex)

\* Events up to this number have left the ring.
Taken == posted - Unread

\* The cycle bits tell the entries of this turn from those of the last: the filter finds a
\* valid entry exactly where the xHC has posted an event.
RingInv ==
  /\ \A i \in XHCEntries : ring[i].cycle = IF i < hwIndex THEN hwCycle ELSE 1 - hwCycle
  /\ cycleState = IF xHCDequeueIndex <= hwIndex THEN hwCycle ELSE 1 - hwCycle
  /\ Ahead(xHCDequeueIndex, erdp, NumXHCEntries) <= Ahead(hwIndex, erdp, NumXHCEntries)
  /\ \A i \in XHCEntries : OnXHC(i) < Unread =>
       ring[i].event.id = Taken + OnXHC(i) + 1 /\ ring[i].event.kind \in Kinds
  /\ Taken \in Nat

-----------------------------------------------------------------------------
\* The entries of the bounce queue in use, the one being published included.
OnBounce(i) == Ahead(i, bounceDequeueIndex, NumBounceEntries)
Waiting == OnBounce(bounceEnqueueIndex)
Filled == IF fpc = "publish" THEN Waiting + 1 ELSE Waiting

\* An event with number n has not been dealt with, and is later than those that have.
Pending(n) == n > lastPolled /\ n \notin settled /\ n <= Taken

QueueInv ==
  /\ Filled < NumBounceEntries
  /\ lastPolled <= Taken /\ settled \subseteq 1 .. Taken
  /\ wpc = "advance" =>
       /\ Waiting > 0 /\ bounceQueue[bounceDequeueIndex].id = 0
       /\ wEvent.id # 0 => Pending(wEvent.id)
  /\ fpc = "bounce" => /\ fEvent.id = Taken /\ Pending(Taken) /\ Taken > 0
                       /\ wpc = "advance" => wEvent.id < Taken
  /\ fpc = "publish" => bounceQueue[bounceEnqueueIndex].id = Taken
  /\ \A i \in BounceEntries : OnBounce(i) < Filled /\ bounceQueue[i].id # 0 =>
       /\ Pending(bounceQueue[i].id)
       /\ fpc = "bounce" => bounceQueue[i].id < Taken
       /\ wpc = "advance" => wEvent.id < bounceQueue[i].id
  /\ \A i, j \in BounceEntries :
       OnBounce(i) < OnBounce(j) /\ OnBounce(j) < Filled
       /\ bounceQueue[i].id # 0 /\ bounceQueue[j].id # 0 => bounceQueue[i].id < bounceQueue[j].id

\* Where an event that left the ring is until it is dealt with.
InHand(n) == \/ fpc = "bounce" /\ n = Taken
             \/ wpc = "advance" /\ n = wEvent.id
             \/ \E i \in BounceEntries : OnBounce(i) < Filled /\ bounceQueue[i].id = n

NothingForgotten == \A n \in 1 .. Taken : n \in settled \/ n \in lost \/ InHand(n)

-----------------------------------------------------------------------------
\* Whoever empties the bounce queue knows that there is something on it.
Told == ~BounceEmpty => ignored \/ signalled \/ wpc # "idle" \/ invokeContinuation

ContinuationInv == Told /\ (fpc = "idle" => ~invokeContinuation)

-----------------------------------------------------------------------------
InCall == spc # "idle"

\* The number of the stop event, if there is one, is that of an event of that kind.
StopIs(e) == stopEvent # 0 /\ e.id = stopEvent => e.kind = "stop"

KindInv ==
  /\ stopEvent \in 0 .. posted
  /\ \A i \in XHCEntries : OnXHC(i) < Unread => StopIs(ring[i].event)
  /\ fpc = "bounce" => StopIs(fEvent)
  /\ \A i \in BounceEntries : OnBounce(i) < Filled => StopIs(bounceQueue[i])

\* A call holds the gate. Its command completes after its stop event, which the work loop
\* cannot take meanwhile, and the scan leaves no stop event behind it.
CallInv ==
  /\ spc \in {"idle", "wait", "scan", "scanLate"} /\ issuedAt \in Nat
  /\ InCall =>
       /\ wpc \in {"idle", "handled"}
       /\ stopEvent # 0 => lastPolled < stopEvent
       /\ lastPolled <= issuedAt /\ issuedAt <= posted
       /\ answered => owed = "none" /\ (stopEvent # 0 => stopEvent < Taken)
       /\ \A i \in XHCEntries :
            OnXHC(i) < Unread /\ ring[i].event.kind = "cmd" /\ ring[i].event.id > issuedAt =>
              owed = "none" /\ stopEvent < ring[i].event.id
  /\ Scanning =>
       /\ index \in BounceEntries /\ OnBounce(index) <= Waiting
       /\ \A i \in BounceEntries : OnBounce(i) < OnBounce(index) =>
            bounceQueue[i].kind \notin {"stop", "bad"}
  /\ spc = "scan" => answered

EventInv == RingInv /\ QueueInv /\ NothingForgotten

-----------------------------------------------------------------------------
USE SizesAssumption, BoundsAssumption

\* Distances on a ring: each entry has its own, less than the number of entries.
LEMMA AheadRange ==
  ASSUME NEW n \in Nat, n >= 2, NEW s \in 0 .. n - 1
  PROVE  /\ \A i \in 0 .. n - 1 : Ahead(i, s, n) \in 0 .. n - 1 /\ (Ahead(i, s, n) = 0 <=> i = s)
         /\ \A i, j \in 0 .. n - 1 : Ahead(i, s, n) = Ahead(j, s, n) => i = j
BY DEF Ahead

\* The entry after i is one further, or is where the counting starts.
LEMMA AheadNext ==
  ASSUME NEW n \in Nat, n >= 2, NEW s \in 0 .. n - 1, NEW i \in 0 .. n - 1,
         NEW k, k = IF i + 1 >= n THEN 0 ELSE i + 1
  PROVE  /\ k \in 0 .. n - 1
         /\ k # s => Ahead(k, s, n) = Ahead(i, s, n) + 1
         /\ k = s => Ahead(i, s, n) = n - 1
BY DEF Ahead

\* When the start moves on, every distance is one less, and that of the old start the longest.
LEMMA AheadMoved ==
  ASSUME NEW n \in Nat, n >= 2, NEW s \in 0 .. n - 1,
         NEW k, k = IF s + 1 >= n THEN 0 ELSE s + 1
  PROVE  /\ k \in 0 .. n - 1
         /\ \A i \in 0 .. n - 1 : i # s => Ahead(i, k, n) = Ahead(i, s, n) - 1
         /\ Ahead(s, k, n) = n - 1
BY DEF Ahead

\* The same for the entries of the event ring ...
LEMMA OnXHCRange ==
  ASSUME Types
  PROVE  /\ \A i \in XHCEntries : OnXHC(i) \in 0 .. NumXHCEntries - 1 /\ (OnXHC(i) = 0 <=> i = xHCDequeueIndex)
         /\ \A i, j \in XHCEntries : OnXHC(i) = OnXHC(j) => i = j
         /\ Unread \in 0 .. NumXHCEntries - 1 /\ Taken \in Int
<1>1. xHCDequeueIndex \in XHCEntries /\ hwIndex \in XHCEntries /\ posted \in Nat
  BY DEF Types
<1>2. /\ \A i \in XHCEntries : OnXHC(i) \in 0 .. NumXHCEntries - 1 /\ (OnXHC(i) = 0 <=> i = xHCDequeueIndex)
      /\ \A i, j \in XHCEntries : OnXHC(i) = OnXHC(j) => i = j
  BY <1>1, AheadRange DEF XHCEntries, OnXHC
<1>3. Unread \in 0 .. NumXHCEntries - 1
  BY <1>1, <1>2 DEF Unread
<1> QED BY <1>1, <1>2, <1>3 DEF Taken

\* ... and those of the bounce queue.
LEMMA OnBounceRange ==
  ASSUME Types
  PROVE  /\ \A i \in BounceEntries : OnBounce(i) \in 0 .. NumBounceEntries - 1
                                     /\ (OnBounce(i) = 0 <=> i = bounceDequeueIndex)
         /\ \A i, j \in BounceEntries : OnBounce(i) = OnBounce(j) => i = j
         /\ Waiting \in 0 .. NumBounceEntries - 1
BY AheadRange DEF Types, BounceEntries, OnBounce, Waiting

-----------------------------------------------------------------------------
\* The ring, as long as filter and xHC leave it alone.
LEMMA RingStays ==
  ASSUME RingInv, UNCHANGED <<ring, xHCDequeueIndex, cycleState, hwIndex, hwCycle, erdp, posted>>
  PROVE  RingInv' /\ Taken' = Taken /\ Unread' = Unread /\ \A i \in XHCEntries : OnXHC(i)' = OnXHC(i)
BY DEF RingInv, Taken, Unread, OnXHC

\* FilterEventRing moves past an entry.
LEMMA RingTaken ==
  ASSUME Types, RingInv, Valid, xHCDequeueIndex' = NextXHC(xHCDequeueIndex),
         cycleState' = IF xHCDequeueIndex' = 0 THEN 1 - cycleState ELSE cycleState,
         UNCHANGED <<ring, hwIndex, hwCycle, erdp, posted>>
  PROVE  /\ RingInv' /\ xHCDequeueIndex' \in XHCEntries /\ cycleState' \in {0, 1}
         /\ Taken' = Taken + 1 /\ Unread > 0 /\ Unread' = Unread - 1
         /\ ring[xHCDequeueIndex].event.id = Taken + 1
         /\ \A i \in XHCEntries : OnXHC(i)' < Unread' => OnXHC(i) < Unread
<1>1. /\ ring \in [XHCEntries -> [event: Events, cycle: {0, 1}]]
      /\ xHCDequeueIndex \in XHCEntries /\ hwIndex \in XHCEntries /\ erdp \in XHCEntries
      /\ cycleState \in {0, 1} /\ hwCycle \in {0, 1} /\ posted \in Nat
  BY DEF Types
<1>2. /\ \A i \in XHCEntries : ring[i].cycle = IF i < hwIndex THEN hwCycle ELSE 1 - hwCycle
      /\ cycleState = IF xHCDequeueIndex <= hwIndex THEN hwCycle ELSE 1 - hwCycle
      /\ Ahead(xHCDequeueIndex, erdp, NumXHCEntries) <= Ahead(hwIndex, erdp, NumXHCEntries)
      /\ \A i \in XHCEntries : OnXHC(i) < Unread =>
           ring[i].event.id = Taken + OnXHC(i) + 1 /\ ring[i].event.kind \in Kinds
      /\ Taken \in Nat
  BY DEF RingInv
<1>3. xHCDequeueIndex # hwIndex
  BY <1>1, <1>2 DEF Valid, XHCEntries
<1>4. Unread > 0 /\ OnXHC(xHCDequeueIndex) = 0
  BY <1>1, <1>3, OnXHCRange DEF Unread
<1> DEFINE d == xHCDequeueIndex'
<1>5. /\ d \in XHCEntries /\ \A i \in XHCEntries : i # xHCDequeueIndex => OnXHC(i)' = OnXHC(i) - 1
      /\ \A i \in XHCEntries : i = xHCDequeueIndex => OnXHC(i)' = NumXHCEntries - 1
  BY <1>1, AheadMoved DEF XHCEntries, OnXHC, NextXHC
<1>6. Unread' = Unread - 1 /\ Taken' = Taken + 1
  BY <1>1, <1>3, <1>5, OnXHCRange DEF Unread, Taken
<1>7. ring[xHCDequeueIndex].event.id = Taken + 1
  BY <1>1, <1>2, <1>4
<1>8. \A i \in XHCEntries : OnXHC(i)' < Unread' => OnXHC(i) < Unread /\ i # xHCDequeueIndex
  BY <1>1, <1>5, <1>6, OnXHCRange
<1>9. cycleState' = IF d <= hwIndex THEN hwCycle ELSE 1 - hwCycle
  BY <1>1, <1>2, <1>3 DEF NextXHC, XHCEntries
<1>10. Ahead(d, erdp, NumXHCEntries) <= Ahead(hwIndex, erdp, NumXHCEntries)
  BY <1>1, <1>2, <1>3 DEF NextXHC, XHCEntries, Ahead
<1>11. \A i \in XHCEntries : OnXHC(i)' < Unread' =>
         ring[i].event.id = Taken' + OnXHC(i)' + 1 /\ ring[i].event.kind \in Kinds
  BY <1>2, <1>5, <1>6, <1>8, OnXHCRange
<1>12. RingInv'
  BY <1>2, <1>6, <1>9, <1>10, <1>11 DEF RingInv
<1> QED BY <1>1, <1>4, <1>5, <1>6, <1>7, <1>8, <1>12

\* postFilterEventRing writes ERDP, or does not.
LEMMA RingTold ==
  ASSUME Types, RingInv, erdp' = xHCDequeueIndex \/ erdp' = erdp,
         UNCHANGED <<ring, xHCDequeueIndex, cycleState, hwIndex, hwCycle, posted>>
  PROVE  RingInv' /\ Taken' = Taken /\ Unread' = Unread /\ \A i \in XHCEntries : OnXHC(i)' = OnXHC(i)
<1>1. Ahead(xHCDequeueIndex, erdp', NumXHCEntries) <= Ahead(hwIndex, erdp', NumXHCEntries)
  BY DEF RingInv, Types, XHCEntries, Ahead
<1> QED BY <1>1 DEF RingInv, Taken, Unread, OnXHC

\* The xHC posts an event: a new one for the filter, those before it as they were.
LEMMA RingPosted ==
  ASSUME Types, RingInv, NEW kind \in Kinds, HwPost(kind)
  PROVE  /\ RingInv' /\ hwIndex' \in XHCEntries /\ hwCycle' \in {0, 1}
         /\ ring' \in [XHCEntries -> [event: Events, cycle: {0, 1}]]
         /\ Taken' = Taken /\ Unread' = Unread + 1 /\ \A i \in XHCEntries : OnXHC(i)' = OnXHC(i)
         /\ \A i \in XHCEntries : OnXHC(i) < Unread => i # hwIndex
         /\ \A i \in XHCEntries : OnXHC(i)' < Unread' => OnXHC(i) < Unread \/ i = hwIndex
<1>1. /\ ring \in [XHCEntries -> [event: Events, cycle: {0, 1}]]
      /\ xHCDequeueIndex \in XHCEntries /\ hwIndex \in XHCEntries /\ erdp \in XHCEntries
      /\ cycleState \in {0, 1} /\ hwCycle \in {0, 1} /\ posted \in Nat
  BY DEF Types
<1>2. /\ \A i \in XHCEntries : ring[i].cycle = IF i < hwIndex THEN hwCycle ELSE 1 - hwCycle
      /\ cycleState = IF xHCDequeueIndex <= hwIndex THEN hwCycle ELSE 1 - hwCycle
      /\ Ahead(xHCDequeueIndex, erdp, NumXHCEntries) <= Ahead(hwIndex, erdp, NumXHCEntries)
      /\ \A i \in XHCEntries : OnXHC(i) < Unread =>
           ring[i].event.id = Taken + OnXHC(i) + 1 /\ ring[i].event.kind \in Kinds
      /\ Taken \in Nat
  BY DEF RingInv
<1>3. /\ NextXHC(hwIndex) # erdp /\ posted' = posted + 1 /\ hwIndex' = NextXHC(hwIndex)
      /\ ring' = [ring EXCEPT ![hwIndex] = [event |-> [id |-> posted + 1, kind |-> kind], cycle |-> hwCycle]]
      /\ hwCycle' = IF hwIndex' = 0 THEN 1 - hwCycle ELSE hwCycle
      /\ xHCDequeueIndex' = xHCDequeueIndex /\ cycleState' = cycleState /\ erdp' = erdp
  BY DEF HwPost
<1>4. hwIndex' \in XHCEntries /\ hwCycle' \in {0, 1}
  BY <1>1, <1>3 DEF NextXHC, XHCEntries
<1>5. [event |-> [id |-> posted + 1, kind |-> kind], cycle |-> hwCycle] \in [event: Events, cycle: {0, 1}]
  BY <1>1 DEF Events
<1>6. ring' \in [XHCEntries -> [event: Events, cycle: {0, 1}]]
  BY <1>1, <1>3, <1>5
<1>7. \A i \in XHCEntries : ring'[i].cycle = IF i < hwIndex' THEN hwCycle' ELSE 1 - hwCycle'
  <2>1. ring'[hwIndex].cycle = hwCycle /\ \A i \in XHCEntries : i # hwIndex => ring'[i] = ring[i]
    BY <1>1, <1>3
  <2> QED BY <1>1, <1>2, <1>3, <2>1 DEF NextXHC, XHCEntries
<1>8. /\ hwIndex' # xHCDequeueIndex
      /\ Ahead(xHCDequeueIndex, erdp, NumXHCEntries) <= Ahead(hwIndex', erdp, NumXHCEntries)
  BY <1>1, <1>2, <1>3 DEF NextXHC, XHCEntries, Ahead
<1>9. cycleState = IF xHCDequeueIndex <= hwIndex' THEN hwCycle' ELSE 1 - hwCycle'
  BY <1>1, <1>2, <1>3, <1>8 DEF NextXHC, XHCEntries
<1>10. \A i \in XHCEntries : OnXHC(i)' = OnXHC(i)
  BY <1>3 DEF OnXHC
<1>11. Unread' = Unread + 1 /\ Taken' = Taken
  <2>1. Unread' = Unread + 1
    BY <1>1, <1>3, <1>8, AheadNext DEF Unread, OnXHC, NextXHC, XHCEntries
  <2> QED BY <1>1, <1>3, <2>1, OnXHCRange DEF Taken
<1>12. \A i \in XHCEntries : OnXHC(i) < Unread => i # hwIndex
  BY OnXHCRange DEF Unread
<1>13. \A i \in XHCEntries : OnXHC(i)' < Unread' => OnXHC(i) < Unread \/ i = hwIndex
  BY <1>1, <1>10, <1>11, OnXHCRange DEF Unread
<1>14. ASSUME NEW i \in XHCEntries, OnXHC(i)' < Unread'
       PROVE  ring'[i].event.id = Taken' + OnXHC(i)' + 1 /\ ring'[i].event.kind \in Kinds
  <2>1. CASE i = hwIndex
    <3>1. ring'[i].event.id = posted + 1 /\ ring'[i].event.kind = kind
      BY <1>1, <1>3, <2>1
    <3>2. posted = Taken + OnXHC(i)
      BY <1>1, <2>1, OnXHCRange DEF Taken, Unread
    <3> QED BY <1>10, <1>11, <3>1, <3>2
  <2>2. CASE i # hwIndex
    <3>1. ring'[i] = ring[i] /\ OnXHC(i) < Unread
      BY <1>1, <1>3, <1>13, <1>14, <2>2
    <3> QED BY <1>2, <1>10, <1>11, <3>1
  <2> QED BY <2>1, <2>2
<1>15. RingInv'
  BY <1>2, <1>3, <1>7, <1>8, <1>9, <1>11, <1>14 DEF RingInv
<1> QED BY <1>4, <1>6, <1>10, <1>11, <1>12, <1>13, <1>15

\* InitEventRing: the ring is empty.
LEMMA RingEmptied ==
  ASSUME posted \in Nat, ring' = EmptyRing, xHCDequeueIndex' = 0, cycleState' = 1, hwIndex' = 0,
         hwCycle' = 1, erdp' = 0, posted' = posted
  PROVE  /\ RingInv' /\ Taken' = posted /\ Unread' = 0
         /\ ring' \in [XHCEntries -> [event: Events, cycle: {0, 1}]] /\ 0 \in XHCEntries
<1>1. /\ ring' \in [XHCEntries -> [event: Events, cycle: {0, 1}]] /\ 0 \in XHCEntries
      /\ \A i \in XHCEntries : ring'[i].cycle = 0
  BY DEF EmptyRing, XHCEntries, Events, Cleared
<1>2. Unread' = 0 /\ Taken' = posted
  BY DEF Unread, Taken, OnXHC, Ahead
<1>4. Ahead(xHCDequeueIndex', erdp', NumXHCEntries) <= Ahead(hwIndex', erdp', NumXHCEntries)
  BY DEF Ahead
<1>5. \A i \in XHCEntries : ring'[i].cycle = IF i < hwIndex' THEN hwCycle' ELSE 1 - hwCycle'
  BY <1>1 DEF XHCEntries
<1>6. cycleState' = IF xHCDequeueIndex' <= hwIndex' THEN hwCycle' ELSE 1 - hwCycle'
  OBVIOUS
<1>7. \A i \in XHCEntries : ~(OnXHC(i)' < Unread')
  <2> SUFFICES ASSUME NEW i \in XHCEntries, OnXHC(i)' < 0 PROVE FALSE
    BY <1>2
  <2> QED BY DEF OnXHC, Ahead, XHCEntries
<1>8. RingInv'
  BY <1>2, <1>4, <1>5, <1>6, <1>7 DEF RingInv
<1> QED BY <1>1, <1>2, <1>8

-----------------------------------------------------------------------------
\* Types and ring, whatever step is made; how many events have left the ring after it.
LEMMA RingNext ==
  ASSUME Types, RingInv, [Next]_vars
  PROVE  Types' /\ RingInv'
<1>1. CASE UNCHANGED vars
  BY <1>1, RingStays DEF vars, ringVars, bounceVars, filterVars, loopVars, hwVars, histVars, Types
<1>2. CASE FilterTake
  <2>1. /\ Valid /\ xHCDequeueIndex' = NextXHC(xHCDequeueIndex)
        /\ cycleState' = IF xHCDequeueIndex' = 0 THEN 1 - cycleState ELSE cycleState
        /\ UNCHANGED <<ring, hwIndex, hwCycle, erdp, posted>>
    BY <1>2 DEF FilterTake, hwVars
  <2>2. RingInv' /\ xHCDequeueIndex' \in XHCEntries /\ cycleState' \in {0, 1}
    BY <2>1, RingTaken
  <2>3. fEvent' = fEvent \/ fEvent' = ring[xHCDequeueIndex].event
    BY <1>2 DEF FilterTake
  <2>4. UNCHANGED <<bounceQueue, bounceDequeueIndex, bounceEnqueueIndex, wEvent, lastPolled>>
    BY <1>2 DEF FilterTake, bounceVars, loopVars
  <2> QED BY <2>1, <2>2, <2>3, <2>4 DEF Types
<1>3. CASE FilterEnd
  <2>1. /\ erdp' = xHCDequeueIndex \/ erdp' = erdp
        /\ UNCHANGED <<ring, xHCDequeueIndex, cycleState, hwIndex, hwCycle, posted>>
        /\ UNCHANGED <<bounceQueue, bounceDequeueIndex, bounceEnqueueIndex, fEvent, wEvent,
                       lastPolled>>
    BY <1>3 DEF FilterEnd, bounceVars, histVars
  <2>2. RingInv'
    BY <2>1, RingTold
  <2> QED BY <2>1, <2>2 DEF Types
<1>4. CASE InitEventRing
  <2>1. /\ ring' = EmptyRing /\ xHCDequeueIndex' = 0 /\ cycleState' = 1 /\ hwIndex' = 0
        /\ hwCycle' = 1 /\ erdp' = 0 /\ posted' = posted /\ posted \in Nat
        /\ UNCHANGED <<bounceQueue, bounceDequeueIndex, bounceEnqueueIndex, fEvent, wEvent,
                       lastPolled>>
    BY <1>4 DEF InitEventRing, bounceVars, filterVars, Types
  <2>2. RingInv' /\ ring' \in [XHCEntries -> [event: Events, cycle: {0, 1}]] /\ 0 \in XHCEntries
    BY <2>1, RingEmptied
  <2> QED BY <2>1, <2>2 DEF Types
<1>5. ASSUME NEW kind \in Kinds, HwPost(kind) PROVE Types' /\ RingInv'
  <2>1. /\ posted' = posted + 1
        /\ UNCHANGED <<xHCDequeueIndex, cycleState, erdp, bounceQueue, bounceDequeueIndex,
                       bounceEnqueueIndex,
                       fEvent, wEvent, lastPolled>>
    BY <1>5 DEF HwPost, bounceVars, filterVars, loopVars
  <2>2. /\ RingInv' /\ hwIndex' \in XHCEntries /\ hwCycle' \in {0, 1}
        /\ ring' \in [XHCEntries -> [event: Events, cycle: {0, 1}]]
    BY <1>5, RingPosted
  <2> QED BY <2>1, <2>2 DEF Types
<1>6. CASE HwEvent \/ HwStop \/ HwComplete
  BY <1>5, <1>6 DEF HwEvent, HwStop, HwComplete, Kinds
<1>7. ASSUME UNCHANGED <<ring, xHCDequeueIndex, cycleState, hwIndex, hwCycle, erdp, posted>>,
             bounceQueue' \in [BounceEntries -> Events], bounceDequeueIndex' \in BounceEntries,
             bounceEnqueueIndex' \in BounceEntries, fEvent' \in Events, wEvent' \in Events, lastPolled' \in Nat
      PROVE  Types' /\ RingInv'
  BY <1>7, RingStays DEF Types
<1>8. /\ bounceQueue \in [BounceEntries -> Events] /\ bounceDequeueIndex \in BounceEntries
      /\ bounceEnqueueIndex \in BounceEntries /\ fEvent \in Events /\ wEvent \in Events /\ lastPolled \in Nat
      /\ Cleared \in Events /\ \A i \in BounceEntries : NextBounce(i) \in BounceEntries
  BY DEF Types, Cleared, Events, NextBounce, BounceEntries
<1>9. CASE FilterStart \/ FilterLoopEnds \/ InterruptHandler \/ PollAgain \/ PollDone \/ StopEndpoint
           \/ WaitEnds \/ ScanEnds \/ HwInterrupt
  <2>1. /\ UNCHANGED <<ring, xHCDequeueIndex, cycleState, hwIndex, hwCycle, erdp, posted>>
        /\ UNCHANGED <<bounceQueue, bounceDequeueIndex, bounceEnqueueIndex, fEvent, wEvent,
                       lastPolled>>
    BY <1>9 DEF FilterStart, FilterLoopEnds, InterruptHandler, PollAgain, PollDone, StopEndpoint,
                WaitEnds, ScanEnds, HwInterrupt, ringVars, bounceVars, filterVars, loopVars, hwVars, histVars
  <2> QED BY <1>7, <1>8, <2>1
<1>10. CASE FilterDrop
  <2>1. /\ UNCHANGED <<ring, xHCDequeueIndex, cycleState, hwIndex, hwCycle, erdp, posted>>
        /\ UNCHANGED <<bounceQueue, bounceDequeueIndex, bounceEnqueueIndex, wEvent, lastPolled>>
        /\ fEvent' = Cleared
    BY <1>10 DEF FilterDrop, ringVars, bounceVars, loopVars, hwVars
  <2> QED BY <1>7, <1>8, <2>1
<1>11. CASE FilterStore
  <2>1. /\ UNCHANGED <<ring, xHCDequeueIndex, cycleState, hwIndex, hwCycle, erdp, posted>>
        /\ UNCHANGED <<bounceDequeueIndex, bounceEnqueueIndex, wEvent, lastPolled>>
        /\ fEvent' = Cleared /\ bounceQueue' = [bounceQueue EXCEPT ![bounceEnqueueIndex] = fEvent]
    BY <1>11 DEF FilterStore, ringVars, loopVars, hwVars, histVars
  <2> QED BY <1>7, <1>8, <2>1
<1>12. CASE FilterPublish
  <2>1. /\ UNCHANGED <<ring, xHCDequeueIndex, cycleState, hwIndex, hwCycle, erdp, posted>>
        /\ UNCHANGED <<bounceQueue, bounceDequeueIndex, fEvent, wEvent, lastPolled>>
        /\ bounceEnqueueIndex' = NextBounce(bounceEnqueueIndex)
    BY <1>12 DEF FilterPublish, ringVars, loopVars, hwVars, histVars
  <2> QED BY <1>7, <1>8, <2>1
<1>13. CASE PollTake
  <2>1. /\ UNCHANGED <<ring, xHCDequeueIndex, cycleState, hwIndex, hwCycle, erdp, posted>>
        /\ UNCHANGED <<bounceDequeueIndex, bounceEnqueueIndex, fEvent, lastPolled>>
        /\ wEvent' = bounceQueue[bounceDequeueIndex]
        /\ bounceQueue' = [bounceQueue EXCEPT ![bounceDequeueIndex] = Cleared]
    BY <1>13 DEF PollTake, ringVars, filterVars, hwVars, histVars
  <2> QED BY <1>7, <1>8, <2>1
<1>14. CASE PollAdvance
  <2>1. /\ UNCHANGED <<ring, xHCDequeueIndex, cycleState, hwIndex, hwCycle, erdp, posted>>
        /\ UNCHANGED <<bounceQueue, bounceEnqueueIndex, fEvent>>
        /\ wEvent' = Cleared /\ bounceDequeueIndex' = NextBounce(bounceDequeueIndex)
        /\ lastPolled' = lastPolled \/ lastPolled' = wEvent.id
    BY <1>14 DEF PollAdvance, ringVars, filterVars, hwVars
  <2>2. wEvent.id \in Nat
    BY <1>8 DEF Events
  <2> QED BY <1>7, <1>8, <2>1, <2>2
<1>15. CASE ScanEntry
  <2>1. /\ UNCHANGED <<ring, xHCDequeueIndex, cycleState, hwIndex, hwCycle, erdp, posted>>
        /\ UNCHANGED <<bounceDequeueIndex, bounceEnqueueIndex, fEvent, wEvent, lastPolled>>
        /\ bounceQueue' = bounceQueue \/ bounceQueue' = [bounceQueue EXCEPT ![index] = Cleared]
    BY <1>15 DEF ScanEntry, Scooped, ringVars, filterVars, loopVars, hwVars
  <2>2. bounceQueue' \in [BounceEntries -> Events]
    BY <1>8, <2>1
  <2> QED BY <1>7, <1>8, <2>1, <2>2
<1> QED BY <1>1, <1>2, <1>3, <1>4, <1>6, <1>9, <1>10, <1>11, <1>12, <1>13, <1>14, <1>15
        DEF Next, Filter, Loop, Call, Xhc

-----------------------------------------------------------------------------
\* The steps that leave the bounce queue alone: an event may leave the ring, and is then
\* dealt with at once, lost, or in the filter's hands.
LEMMA QuietQueue ==
  ASSUME Types, Taken \in Nat, Taken' \in Nat, Taken <= Taken', QueueInv, NothingForgotten,
         UNCHANGED <<bounceQueue, bounceDequeueIndex, bounceEnqueueIndex, wEvent, lastPolled>>,
         lost \subseteq lost', settled \subseteq settled', settled' \subseteq settled \cup (Taken + 1 .. Taken'),
         fpc' = "publish" <=> fpc = "publish", fpc = "publish" => Taken' = Taken, wpc' = "advance" <=> wpc = "advance",
         fpc' = "bounce" => fEvent'.id = Taken' /\ settled' = settled
                            /\ ((Taken' = Taken /\ fpc = "bounce") \/ Taken' = Taken + 1),
         fpc = "bounce" => (fpc' = "bounce" /\ Taken' = Taken) \/ Taken \in lost',
         \A n \in Taken + 1 .. Taken' : n \in settled' \/ n \in lost' \/ (fpc' = "bounce" /\ n = Taken')
  PROVE  QueueInv' /\ NothingForgotten'
<1>1. /\ bounceQueue \in [BounceEntries -> Events] /\ lastPolled \in Nat /\ wEvent \in Events
  BY DEF Types
<1>2. /\ \A i \in BounceEntries : OnBounce(i)' = OnBounce(i)
      /\ Waiting' = Waiting /\ Filled' = Filled
  BY DEF OnBounce, Waiting, Filled
<1>3. \A n \in Nat : Pending(n) => Pending(n)'
  BY DEF Pending
<1>4. QueueInv'
  <2>1. /\ Filled < NumBounceEntries /\ lastPolled <= Taken /\ settled \subseteq 1 .. Taken
        /\ wpc = "advance" => /\ Waiting > 0 /\ bounceQueue[bounceDequeueIndex].id = 0
                              /\ wEvent.id # 0 => Pending(wEvent.id)
        /\ fpc = "bounce" => Pending(Taken) /\ Taken > 0 /\ (wpc = "advance" => wEvent.id < Taken)
        /\ fpc = "publish" => bounceQueue[bounceEnqueueIndex].id = Taken
        /\ \A i \in BounceEntries : OnBounce(i) < Filled /\ bounceQueue[i].id # 0 =>
             /\ Pending(bounceQueue[i].id) /\ (fpc = "bounce" => bounceQueue[i].id < Taken)
             /\ wpc = "advance" => wEvent.id < bounceQueue[i].id
        /\ \A i, j \in BounceEntries :
             OnBounce(i) < OnBounce(j) /\ OnBounce(j) < Filled
             /\ bounceQueue[i].id # 0 /\ bounceQueue[j].id # 0 => bounceQueue[i].id < bounceQueue[j].id
    BY DEF QueueInv
  <2>2. wEvent.id \in Nat /\ \A i \in BounceEntries : bounceQueue[i].id \in Nat
    BY <1>1 DEF Events
  <2>3. Filled' < NumBounceEntries /\ lastPolled' <= Taken' /\ settled' \subseteq 1 .. Taken'
    BY <1>1, <1>2, <2>1
  <2>4. wpc' = "advance" => /\ Waiting' > 0 /\ bounceQueue'[bounceDequeueIndex'].id = 0
                            /\ wEvent'.id # 0 => Pending(wEvent.id)'
    BY <1>2, <1>3, <2>1, <2>2
  <2>5. fpc' = "bounce" => /\ fEvent'.id = Taken' /\ Pending(Taken)' /\ Taken' > 0
                           /\ wpc' = "advance" => wEvent'.id < Taken'
    <3>1. CASE fpc' = "bounce" /\ Taken' = Taken /\ fpc = "bounce"
      BY <1>1, <2>1, <3>1 DEF Pending
    <3>2. CASE fpc' = "bounce" /\ Taken' = Taken + 1
      <4>1. wpc = "advance" => wEvent.id <= Taken
        BY <2>1 DEF Pending
      <4> QED BY <1>1, <2>1, <2>2, <3>2, <4>1 DEF Pending
    <3> QED BY <3>1, <3>2
  <2>6. fpc' = "publish" => bounceQueue'[bounceEnqueueIndex'].id = Taken'
    BY <2>1
  <2>7. ASSUME NEW i \in BounceEntries, OnBounce(i)' < Filled', bounceQueue[i].id # 0
        PROVE  /\ Pending(bounceQueue[i].id)' /\ (fpc' = "bounce" => bounceQueue[i].id < Taken')
               /\ wpc' = "advance" => wEvent.id < bounceQueue[i].id
    <3>1. Pending(bounceQueue[i].id) /\ bounceQueue[i].id <= Taken
      BY <1>2, <2>1, <2>7 DEF Pending
    <3> QED BY <1>2, <1>3, <2>1, <2>2, <2>7, <3>1
  <2> QED BY <1>2, <2>1, <2>3, <2>4, <2>5, <2>6, <2>7 DEF QueueInv
<1>5. NothingForgotten'
  BY <1>1, <1>2 DEF NothingForgotten, InHand
<1> QED BY <1>4, <1>5

\* What QueueInv says of the entries in use.
LEMMA QueueEntries ==
  ASSUME Types, Taken \in Nat, QueueInv
  PROVE  /\ Waiting \in Nat /\ Filled \in Nat /\ Filled < NumBounceEntries /\ Waiting <= Filled
         /\ wEvent.id \in Nat /\ \A i \in BounceEntries : bounceQueue[i].id \in Nat
         /\ OnBounce(bounceEnqueueIndex) = Waiting
         /\ \A i \in BounceEntries : OnBounce(i) \in Nat /\ (OnBounce(i) = 0 <=> i = bounceDequeueIndex)
                                     /\ (OnBounce(i) = Waiting <=> i = bounceEnqueueIndex)
<1>1. /\ bounceQueue \in [BounceEntries -> Events] /\ wEvent \in Events /\ bounceEnqueueIndex \in BounceEntries
  BY DEF Types
<1>2. wEvent.id \in Nat /\ \A i \in BounceEntries : bounceQueue[i].id \in Nat
  BY <1>1 DEF Events
<1>3. Filled < NumBounceEntries
  BY DEF QueueInv
<1>4. OnBounce(bounceEnqueueIndex) = Waiting
  BY DEF Waiting
<1> QED BY <1>1, <1>2, <1>3, <1>4, OnBounceRange DEF Filled

\* FilterStore: the event in the filter's hands becomes the last of the entries in use.
LEMMA StoreQueue ==
  ASSUME Types, Taken \in Nat, Taken' = Taken, QueueInv, NothingForgotten, FilterStore
  PROVE  QueueInv' /\ NothingForgotten'
<1>1. /\ fpc = "bounce" /\ fpc' = "publish" /\ NextBounce(bounceEnqueueIndex) # bounceDequeueIndex
      /\ bounceQueue' = [bounceQueue EXCEPT ![bounceEnqueueIndex] = fEvent]
      /\ UNCHANGED <<bounceDequeueIndex, bounceEnqueueIndex, wpc, wEvent, settled, lost,
                     lastPolled>>
  BY DEF FilterStore, BounceFull, loopVars, histVars
<1>2. /\ bounceQueue \in [BounceEntries -> Events] /\ lastPolled \in Nat /\ wEvent \in Events
      /\ bounceEnqueueIndex \in BounceEntries /\ bounceDequeueIndex \in BounceEntries
  BY DEF Types
<1>3. /\ \A i \in BounceEntries : OnBounce(i)' = OnBounce(i)
      /\ Waiting' = Waiting /\ Filled = Waiting /\ Filled' = Waiting + 1
  BY <1>1 DEF OnBounce, Waiting, Filled
<1>4. Waiting + 1 < NumBounceEntries
  <2>1. Waiting + 1 = Ahead(NextBounce(bounceEnqueueIndex), bounceDequeueIndex, NumBounceEntries)
    BY <1>1, <1>2, AheadNext DEF NextBounce, Waiting, OnBounce, BounceEntries
  <2>2. NextBounce(bounceEnqueueIndex) \in 0 .. NumBounceEntries - 1
    BY <1>2 DEF NextBounce, BounceEntries
  <2>3. Ahead(NextBounce(bounceEnqueueIndex), bounceDequeueIndex, NumBounceEntries) \in 0 .. NumBounceEntries - 1
    BY <1>2, <2>2, AheadRange DEF BounceEntries
  <2>4. Waiting \in Nat
    BY QueueEntries
  <2> QED BY <2>1, <2>3, <2>4
<1>5. /\ bounceQueue'[bounceEnqueueIndex] = fEvent
      /\ \A i \in BounceEntries : i # bounceEnqueueIndex => bounceQueue'[i] = bounceQueue[i]
  BY <1>1, <1>2
<1>6. /\ lastPolled <= Taken /\ settled \subseteq 1 .. Taken
      /\ wpc = "advance" => /\ Waiting > 0 /\ bounceQueue[bounceDequeueIndex].id = 0
                            /\ wEvent.id # 0 => Pending(wEvent.id)
      /\ fEvent.id = Taken /\ Pending(Taken) /\ Taken > 0 /\ (wpc = "advance" => wEvent.id < Taken)
      /\ \A i \in BounceEntries : OnBounce(i) < Waiting /\ bounceQueue[i].id # 0 =>
           /\ Pending(bounceQueue[i].id) /\ bounceQueue[i].id < Taken
           /\ wpc = "advance" => wEvent.id < bounceQueue[i].id
      /\ \A i, j \in BounceEntries :
           OnBounce(i) < OnBounce(j) /\ OnBounce(j) < Waiting
           /\ bounceQueue[i].id # 0 /\ bounceQueue[j].id # 0 => bounceQueue[i].id < bounceQueue[j].id
  BY <1>1, <1>3 DEF QueueInv
<1>7. \A n \in Nat : Pending(n) => Pending(n)'
  BY <1>1 DEF Pending
<1>8. \A i \in BounceEntries : OnBounce(i) < Waiting + 1 => OnBounce(i) < Waiting \/ i = bounceEnqueueIndex
  BY QueueEntries
<1>9. QueueInv'
  <2>1. wpc' = "advance" => bounceQueue'[bounceDequeueIndex'].id = 0
    BY <1>1, <1>2, <1>5, <1>6, QueueEntries
  <2>2. ASSUME NEW i \in BounceEntries, OnBounce(i)' < Filled', bounceQueue'[i].id # 0
        PROVE  /\ Pending(bounceQueue[i].id)'
               /\ wpc' = "advance" => wEvent'.id < bounceQueue'[i].id
    <3>1. CASE i = bounceEnqueueIndex
      <4>1. bounceQueue'[i].id = Taken
        BY <1>5, <1>6, <3>1
      <4> QED BY <1>1, <1>6, <4>1 DEF Pending
    <3>2. CASE i # bounceEnqueueIndex
      <4>1. bounceQueue'[i].id = bounceQueue[i].id /\ OnBounce(i) < Waiting
        BY <1>3, <1>5, <1>8, <2>2, <3>2
      <4> QED BY <1>1, <1>6, <2>2, <4>1 DEF Pending
    <3> QED BY <3>1, <3>2
  <2>3. ASSUME NEW i \in BounceEntries, NEW j \in BounceEntries, OnBounce(i)' < OnBounce(j)', OnBounce(j)' < Filled',
               bounceQueue'[i].id # 0, bounceQueue'[j].id # 0
        PROVE  bounceQueue'[i].id < bounceQueue'[j].id
    <3>1. OnBounce(i) < Waiting /\ i # bounceEnqueueIndex /\ bounceQueue'[i].id = bounceQueue[i].id
      BY <1>3, <1>5, <2>3, QueueEntries
    <3>2. CASE j = bounceEnqueueIndex
      BY <1>5, <1>6, <2>3, <3>1, <3>2
    <3>3. CASE j # bounceEnqueueIndex
      BY <1>3, <1>5, <1>6, <1>8, <2>3, <3>1, <3>3
    <3> QED BY <3>2, <3>3
  <2>4. wpc' = "advance" => Waiting' > 0 /\ (wEvent'.id # 0 => Pending(wEvent.id)')
    BY <1>1, <1>3, <1>6, <1>7, QueueEntries
  <2> QED BY <1>1, <1>3, <1>4, <1>5, <1>6, <2>1, <2>2, <2>3, <2>4 DEF QueueInv
<1>10. NothingForgotten'
  <2> SUFFICES ASSUME NEW n \in 1 .. Taken, n \notin settled, n \notin lost PROVE InHand(n)'
    BY <1>1 DEF NothingForgotten
  <2>1. InHand(n)
    BY DEF NothingForgotten
  <2>2. CASE n = Taken
    BY <1>1, <1>2, <1>3, <1>5, <1>6, <2>2, QueueEntries DEF InHand
  <2>3. CASE wpc = "advance" /\ n = wEvent.id
    BY <1>1, <2>3 DEF InHand
  <2>4. CASE \E i \in BounceEntries : OnBounce(i) < Filled /\ bounceQueue[i].id = n
    <3>1. PICK i \in BounceEntries : OnBounce(i) < Filled /\ bounceQueue[i].id = n
      BY <2>4
    <3>2. i # bounceEnqueueIndex
      BY <1>3, <3>1, QueueEntries
    <3> QED BY <1>1, <1>3, <1>5, <3>1, <3>2, QueueEntries DEF InHand
  <2> QED BY <2>1, <2>2, <2>3, <2>4 DEF InHand
<1> QED BY <1>9, <1>10

\* FilterPublish: the last entry in use becomes the consumers'.
LEMMA PublishQueue ==
  ASSUME Types, Taken \in Nat, Taken' = Taken, QueueInv, NothingForgotten, FilterPublish
  PROVE  QueueInv' /\ NothingForgotten' /\ Waiting' = Waiting + 1 /\ Filled' = Filled
<1>1. /\ fpc = "publish" /\ fpc' = "loop" /\ bounceEnqueueIndex' = NextBounce(bounceEnqueueIndex)
      /\ UNCHANGED <<bounceQueue, bounceDequeueIndex, wpc, wEvent, settled, lost, lastPolled>>
  BY DEF FilterPublish, loopVars, histVars
<1>2. Filled = Waiting + 1 /\ Waiting + 1 < NumBounceEntries
  BY <1>1 DEF Filled, QueueInv
<1>3. bounceEnqueueIndex \in BounceEntries /\ bounceDequeueIndex \in BounceEntries
  BY DEF Types
<1>4. Waiting' = Waiting + 1
  BY <1>1, <1>2, <1>3, AheadNext DEF NextBounce, Waiting, OnBounce, BounceEntries
<1>5. Filled' = Filled /\ \A i \in BounceEntries : OnBounce(i)' = OnBounce(i)
  BY <1>1, <1>2, <1>4 DEF Filled, OnBounce
<1>6. \A n \in Nat : Pending(n) <=> Pending(n)'
  BY <1>1 DEF Pending
<1>7. QueueInv'
  BY <1>1, <1>2, <1>4, <1>5, <1>6, QueueEntries DEF QueueInv
<1>8. NothingForgotten'
  BY <1>1, <1>5 DEF NothingForgotten, InHand
<1> QED BY <1>4, <1>5, <1>7, <1>8

\* PollEventRing2 takes a copy of the first entry and clears it.
LEMMA TakeQueue ==
  ASSUME Types, Taken \in Nat, Taken' = Taken, QueueInv, NothingForgotten, PollTake
  PROVE  QueueInv' /\ NothingForgotten'
<1>1. /\ wpc # "advance" /\ wpc' = "advance" /\ bounceDequeueIndex # bounceEnqueueIndex
      /\ wEvent' = bounceQueue[bounceDequeueIndex]
      /\ bounceQueue' = [bounceQueue EXCEPT ![bounceDequeueIndex] = Cleared]
      /\ UNCHANGED <<bounceDequeueIndex, bounceEnqueueIndex, fpc, fEvent, settled, lost,
                     lastPolled>>
  BY DEF PollTake, BounceEmpty, filterVars, histVars
<1>2. /\ bounceQueue \in [BounceEntries -> Events] /\ lastPolled \in Nat
      /\ bounceEnqueueIndex \in BounceEntries /\ bounceDequeueIndex \in BounceEntries
  BY DEF Types
<1>3. /\ \A i \in BounceEntries : OnBounce(i)' = OnBounce(i)
      /\ Waiting' = Waiting /\ Filled' = Filled
  BY <1>1 DEF OnBounce, Waiting, Filled
<1>4. OnBounce(bounceDequeueIndex) = 0 /\ Waiting > 0
  BY <1>1, <1>2, QueueEntries
<1>5. /\ bounceQueue'[bounceDequeueIndex].id = 0
      /\ \A i \in BounceEntries : i # bounceDequeueIndex => bounceQueue'[i] = bounceQueue[i] /\ OnBounce(i) > 0
  BY <1>1, <1>2, QueueEntries DEF Cleared
<1>6. /\ Filled < NumBounceEntries /\ lastPolled <= Taken /\ settled \subseteq 1 .. Taken
      /\ fpc = "bounce" => fEvent.id = Taken /\ Pending(Taken) /\ Taken > 0
      /\ fpc = "publish" => bounceQueue[bounceEnqueueIndex].id = Taken
      /\ \A i \in BounceEntries : OnBounce(i) < Filled /\ bounceQueue[i].id # 0 =>
           Pending(bounceQueue[i].id) /\ (fpc = "bounce" => bounceQueue[i].id < Taken)
      /\ \A i, j \in BounceEntries :
           OnBounce(i) < OnBounce(j) /\ OnBounce(j) < Filled
           /\ bounceQueue[i].id # 0 /\ bounceQueue[j].id # 0 => bounceQueue[i].id < bounceQueue[j].id
  BY DEF QueueInv
<1>7. \A n \in Nat : Pending(n) => Pending(n)'
  BY <1>1 DEF Pending
<1>8. QueueInv'
  <2>1. /\ wEvent'.id # 0 => Pending(wEvent.id)'
        /\ fpc' = "bounce" => wEvent'.id < Taken'
    BY <1>1, <1>2, <1>4, <1>6, <1>7, QueueEntries
  <2>2. ASSUME NEW i \in BounceEntries, OnBounce(i)' < Filled', bounceQueue'[i].id # 0
        PROVE  /\ Pending(bounceQueue[i].id)' /\ (fpc' = "bounce" => bounceQueue'[i].id < Taken')
               /\ wEvent'.id < bounceQueue'[i].id
    <3>1. i # bounceDequeueIndex /\ bounceQueue'[i].id = bounceQueue[i].id /\ OnBounce(i) < Filled
      BY <1>3, <1>5, <2>2
    <3>2. Pending(bounceQueue[i].id)' /\ (fpc' = "bounce" => bounceQueue'[i].id < Taken')
      BY <1>1, <1>6, <1>7, <2>2, <3>1, QueueEntries
    <3>3. CASE bounceQueue[bounceDequeueIndex].id = 0
      <4>1. wEvent'.id = 0
        BY <1>1, <3>3
      <4>2. bounceQueue'[i].id \in Nat /\ bounceQueue'[i].id # 0
        BY <2>2, <3>1, QueueEntries
      <4> QED BY <3>2, <4>1, <4>2
    <3>4. CASE bounceQueue[bounceDequeueIndex].id # 0
      <4>1. wEvent'.id = bounceQueue[bounceDequeueIndex].id
        BY <1>1
      <4>2. OnBounce(bounceDequeueIndex) < OnBounce(i) /\ bounceQueue[i].id # 0
        BY <1>4, <1>5, <2>2, <3>1
      <4>3. bounceQueue[bounceDequeueIndex].id < bounceQueue[i].id
        BY <1>2, <1>6, <3>1, <3>4, <4>2
      <4> QED BY <3>1, <3>2, <4>1, <4>3
    <3> QED BY <3>2, <3>3, <3>4
  <2>3. ASSUME NEW i \in BounceEntries, NEW j \in BounceEntries, OnBounce(i)' < OnBounce(j)', OnBounce(j)' < Filled',
               bounceQueue'[i].id # 0, bounceQueue'[j].id # 0
        PROVE  bounceQueue'[i].id < bounceQueue'[j].id
    BY <1>3, <1>5, <1>6, <2>3
  <2>4. fpc' = "publish" => bounceQueue'[bounceEnqueueIndex'].id = Taken'
    BY <1>1, <1>2, <1>5, <1>6
  <2>5. fpc' = "bounce" => fEvent'.id = Taken' /\ Pending(Taken)' /\ Taken' > 0
    <3>1. Pending(Taken) => Pending(Taken)'
      BY <1>1 DEF Pending
    <3> QED BY <1>1, <1>6, <3>1
  <2> QED BY <1>1, <1>3, <1>4, <1>5, <1>6, <2>1, <2>2, <2>3, <2>4, <2>5 DEF QueueInv
<1>9. NothingForgotten'
  <2> SUFFICES ASSUME NEW n \in 1 .. Taken, n \notin settled, n \notin lost PROVE InHand(n)'
    BY <1>1 DEF NothingForgotten
  <2>1. InHand(n)
    BY DEF NothingForgotten
  <2>2. CASE fpc = "bounce" /\ n = Taken
    BY <1>1, <2>2 DEF InHand
  <2>3. CASE \E i \in BounceEntries : OnBounce(i) < Filled /\ bounceQueue[i].id = n
    <3>1. PICK i \in BounceEntries : OnBounce(i) < Filled /\ bounceQueue[i].id = n
      BY <2>3
    <3>2. CASE i = bounceDequeueIndex
      BY <1>1, <3>1, <3>2 DEF InHand
    <3>3. CASE i # bounceDequeueIndex
      BY <1>3, <1>5, <3>1, <3>3 DEF InHand
    <3> QED BY <3>2, <3>3
  <2> QED BY <1>1, <2>1, <2>2, <2>3 DEF InHand
<1> QED BY <1>8, <1>9

\* PollEventRing2 gives the entry back and handles the event it copied: a later one than the
\* last, and one nobody has dealt with.
LEMMA AdvanceQueue ==
  ASSUME Types, Taken \in Nat, Taken' = Taken, QueueInv, NothingForgotten, PollAdvance
  PROVE  /\ QueueInv' /\ NothingForgotten' /\ Waiting > 0 /\ Waiting' = Waiting - 1
         /\ lastPolled' # lastPolled => lastPolled' > lastPolled /\ lastPolled' \notin settled
<1>1. /\ wpc = "advance" /\ wpc' = "handled" /\ bounceDequeueIndex' = NextBounce(bounceDequeueIndex)
      /\ IF wEvent.id = 0 THEN UNCHANGED <<settled, lastPolled>>
         ELSE settled' = settled \cup {wEvent.id} /\ lastPolled' = wEvent.id
      /\ UNCHANGED <<bounceQueue, bounceEnqueueIndex, fpc, fEvent, lost>>
  BY DEF PollAdvance, filterVars
<1>2. /\ bounceQueue \in [BounceEntries -> Events] /\ lastPolled \in Nat /\ wEvent.id \in Nat
      /\ bounceEnqueueIndex \in BounceEntries /\ bounceDequeueIndex \in BounceEntries
  BY DEF Types, Events
<1>3. Waiting > 0 /\ bounceEnqueueIndex # bounceDequeueIndex /\ bounceQueue[bounceDequeueIndex].id = 0
  BY <1>1, <1>2, QueueEntries DEF QueueInv
<1>4. /\ \A i \in BounceEntries : i # bounceDequeueIndex => OnBounce(i)' = OnBounce(i) - 1
      /\ \A i \in BounceEntries : i = bounceDequeueIndex => OnBounce(i)' = NumBounceEntries - 1
  BY <1>1, <1>2, AheadMoved DEF BounceEntries, OnBounce, NextBounce
<1>5. Waiting' = Waiting - 1 /\ Filled' = Filled - 1
  BY <1>1, <1>2, <1>3, <1>4, QueueEntries DEF Waiting, Filled
<1>6. \A i \in BounceEntries : OnBounce(i)' < Filled' => i # bounceDequeueIndex /\ OnBounce(i) < Filled
  BY <1>4, <1>5, QueueEntries
<1>7. /\ Filled < NumBounceEntries /\ lastPolled <= Taken /\ settled \subseteq 1 .. Taken
      /\ wEvent.id # 0 => Pending(wEvent.id)
      /\ fpc = "bounce" => fEvent.id = Taken /\ Pending(Taken) /\ Taken > 0 /\ wEvent.id < Taken
      /\ fpc = "publish" => bounceQueue[bounceEnqueueIndex].id = Taken
      /\ \A i \in BounceEntries : OnBounce(i) < Filled /\ bounceQueue[i].id # 0 =>
           /\ Pending(bounceQueue[i].id) /\ (fpc = "bounce" => bounceQueue[i].id < Taken)
           /\ wEvent.id < bounceQueue[i].id
      /\ \A i, j \in BounceEntries :
           OnBounce(i) < OnBounce(j) /\ OnBounce(j) < Filled
           /\ bounceQueue[i].id # 0 /\ bounceQueue[j].id # 0 => bounceQueue[i].id < bounceQueue[j].id
  BY <1>1 DEF QueueInv
<1>8. \A n \in Nat : Pending(n) /\ wEvent.id < n => Pending(n)'
  BY <1>1, <1>2 DEF Pending
<1>9. lastPolled' # lastPolled => lastPolled' > lastPolled /\ lastPolled' \notin settled
  BY <1>1, <1>2, <1>7 DEF Pending
<1>10. QueueInv'
  <2>1. lastPolled' <= Taken /\ settled' \subseteq 1 .. Taken
    <3>1. wEvent.id # 0 => wEvent.id \in 1 .. Taken
      BY <1>2, <1>7 DEF Pending
    <3>2. CASE wEvent.id = 0
      BY <1>1, <1>7, <3>2
    <3>3. CASE wEvent.id # 0
      <4>1. settled' = settled \cup {wEvent.id} /\ lastPolled' = wEvent.id
        BY <1>1, <3>3
      <4>2. settled \subseteq 1 .. Taken /\ wEvent.id \in 1 .. Taken
        BY <1>7, <3>1, <3>3
      <4>3. lastPolled' <= Taken
        BY <4>1, <4>2
      <4>4. settled' \subseteq 1 .. Taken
        BY <4>1, <4>2
      <4> QED BY <4>3, <4>4
    <3> QED BY <3>2, <3>3
  <2>2. fpc' = "bounce" => fEvent'.id = Taken' /\ Pending(Taken)' /\ Taken' > 0
    <3>1. fpc = "bounce" => Taken' \notin settled' /\ Taken' > lastPolled'
      BY <1>1, <1>2, <1>7 DEF Pending
    <3> QED BY <1>1, <1>7, <3>1 DEF Pending
  <2>3. ASSUME NEW i \in BounceEntries, OnBounce(i)' < Filled', bounceQueue'[i].id # 0
        PROVE  Pending(bounceQueue[i].id)' /\ (fpc' = "bounce" => bounceQueue'[i].id < Taken')
    BY <1>1, <1>6, <1>7, <1>8, <2>3, QueueEntries
  <2>4. ASSUME NEW i \in BounceEntries, NEW j \in BounceEntries, OnBounce(i)' < OnBounce(j)', OnBounce(j)' < Filled',
               bounceQueue'[i].id # 0, bounceQueue'[j].id # 0
        PROVE  bounceQueue'[i].id < bounceQueue'[j].id
    <3>1. /\ OnBounce(i) \in Nat /\ OnBounce(j) \in Nat /\ Filled \in Nat
          /\ OnBounce(j)' = OnBounce(j) - 1 /\ OnBounce(j) < Filled
      BY <1>4, <1>6, <2>4, QueueEntries
    <3>2. OnBounce(i)' = OnBounce(i) - 1
      <4>1. OnBounce(i)' < Filled'
        BY <1>4, <1>5, <2>4, <3>1
      <4> QED BY <1>4, <1>6, <4>1
    <3> QED BY <1>1, <1>7, <2>4, <3>1, <3>2
  <2>5. Filled' < NumBounceEntries
    BY <1>5, QueueEntries
  <2>6. fpc' = "publish" => bounceQueue'[bounceEnqueueIndex'].id = Taken'
    BY <1>1, <1>7
  <2> QED BY <1>1, <2>1, <2>2, <2>3, <2>4, <2>5, <2>6 DEF QueueInv
<1>11. NothingForgotten'
  <2> SUFFICES ASSUME NEW n \in 1 .. Taken, n \notin settled', n \notin lost PROVE InHand(n)'
    BY <1>1 DEF NothingForgotten
  <2>1. InHand(n) /\ n # wEvent.id
    BY <1>1 DEF NothingForgotten
  <2>2. CASE fpc = "bounce" /\ n = Taken
    BY <1>1, <2>2 DEF InHand
  <2>3. CASE \E i \in BounceEntries : OnBounce(i) < Filled /\ bounceQueue[i].id = n
    <3>1. PICK i \in BounceEntries : OnBounce(i) < Filled /\ bounceQueue[i].id = n
      BY <2>3
    <3>2. i # bounceDequeueIndex
      BY <1>3, <3>1
    <3>3. OnBounce(i)' < Filled'
      BY <1>4, <1>5, <3>1, <3>2, QueueEntries
    <3> QED BY <1>1, <3>1, <3>3 DEF InHand
  <2> QED BY <2>1, <2>2, <2>3 DEF InHand
<1> QED BY <1>3, <1>5, <1>9, <1>10, <1>11

\* PollForCMDCompletions clears an entry it has acted on.
LEMMA ScanQueue ==
  ASSUME Types, Taken \in Nat, Taken' = Taken, QueueInv, NothingForgotten, ScanEntry,
         wpc # "advance", index \in BounceEntries, OnBounce(index) <= Waiting
  PROVE  QueueInv' /\ NothingForgotten'
<1>1. /\ index # bounceEnqueueIndex
      /\ IF bounceQueue[index].kind \in {"stop", "bad"}
         THEN /\ settled' = settled \cup {bounceQueue[index].id}
              /\ bounceQueue' = [bounceQueue EXCEPT ![index] = Cleared]
         ELSE UNCHANGED <<settled, bounceQueue>>
      /\ UNCHANGED <<bounceDequeueIndex, bounceEnqueueIndex, fpc, fEvent, wpc, wEvent, lost,
                     lastPolled>>
  BY DEF ScanEntry, Scooped, filterVars, loopVars
<1>2. /\ bounceQueue \in [BounceEntries -> Events] /\ lastPolled \in Nat /\ wEvent \in Events
      /\ bounceEnqueueIndex \in BounceEntries /\ bounceDequeueIndex \in BounceEntries
  BY DEF Types
<1>3. /\ \A i \in BounceEntries : OnBounce(i)' = OnBounce(i)
      /\ Waiting' = Waiting /\ Filled' = Filled
  BY <1>1 DEF OnBounce, Waiting, Filled
<1>4. CASE UNCHANGED <<settled, bounceQueue>>
  <2>1. /\ UNCHANGED <<bounceQueue, bounceDequeueIndex, bounceEnqueueIndex, wEvent, lastPolled>>
        /\ lost \subseteq lost' /\ settled \subseteq settled' /\ settled' \subseteq settled \cup (Taken + 1 .. Taken')
        /\ (fpc' = "publish" <=> fpc = "publish") /\ (wpc' = "advance" <=> wpc = "advance")
    BY <1>1, <1>4
  <2>2. fpc' = "bounce" => fEvent'.id = Taken' /\ settled' = settled /\ fpc = "bounce"
    BY <1>1, <1>4 DEF QueueInv
  <2>3. fpc = "bounce" => fpc' = "bounce"
    BY <1>1
  <2>4. \A n \in Taken + 1 .. Taken' : FALSE
    OBVIOUS
  <2> QED BY <2>1, <2>2, <2>3, <2>4, QuietQueue
<1>5. CASE ~UNCHANGED <<settled, bounceQueue>>
  <2> DEFINE e == bounceQueue[index].id
  <2>1. /\ bounceQueue[index].kind \in {"stop", "bad"} /\ settled' = settled \cup {e}
        /\ bounceQueue' = [bounceQueue EXCEPT ![index] = Cleared]
    BY <1>1, <1>5
  <2>2. e \in Nat /\ e # 0
    BY <1>2, <2>1 DEF Events
  <2>3. OnBounce(index) < Filled
    BY <1>1, QueueEntries
  <2>4. /\ bounceQueue'[index].id = 0
        /\ \A i \in BounceEntries : i # index => bounceQueue'[i] = bounceQueue[i]
    BY <1>2, <2>1 DEF Cleared
  <2>5. /\ Filled < NumBounceEntries /\ lastPolled <= Taken /\ settled \subseteq 1 .. Taken
        /\ fpc = "bounce" => fEvent.id = Taken /\ Pending(Taken) /\ Taken > 0
        /\ fpc = "publish" => bounceQueue[bounceEnqueueIndex].id = Taken
        /\ \A i \in BounceEntries : OnBounce(i) < Filled /\ bounceQueue[i].id # 0 =>
             Pending(bounceQueue[i].id) /\ (fpc = "bounce" => bounceQueue[i].id < Taken)
        /\ \A i, j \in BounceEntries :
             OnBounce(i) < OnBounce(j) /\ OnBounce(j) < Filled
             /\ bounceQueue[i].id # 0 /\ bounceQueue[j].id # 0 => bounceQueue[i].id < bounceQueue[j].id
    BY DEF QueueInv
  <2>6. Pending(e) /\ (fpc = "bounce" => e < Taken)
    BY <2>2, <2>3, <2>5
  <2>7. \A i \in BounceEntries : OnBounce(i) < Filled /\ i # index /\ bounceQueue[i].id # 0 => bounceQueue[i].id # e
    <3> SUFFICES ASSUME NEW i \in BounceEntries, OnBounce(i) < Filled, i # index, bounceQueue[i].id # 0
                 PROVE  bounceQueue[i].id # e
      OBVIOUS
    <3>1. OnBounce(i) < OnBounce(index) \/ OnBounce(index) < OnBounce(i)
      BY OnBounceRange
    <3> QED BY <2>2, <2>3, <2>5, <3>1, QueueEntries
  <2>8. QueueInv'
    <3>1. settled' \subseteq 1 .. Taken
      <4>1. e \in 1 .. Taken
        BY <2>2, <2>6 DEF Pending
      <4> QED BY <2>1, <2>5, <4>1
    <3>2. fpc' = "bounce" => fEvent'.id = Taken' /\ Pending(Taken)' /\ Taken' > 0
      <4>1. fpc = "bounce" => Taken \notin settled' /\ Taken > lastPolled
        BY <2>1, <2>2, <2>5, <2>6 DEF Pending
      <4> QED BY <1>1, <2>5, <4>1 DEF Pending
    <3>3. ASSUME NEW i \in BounceEntries, OnBounce(i)' < Filled', bounceQueue'[i].id # 0
          PROVE  Pending(bounceQueue[i].id)' /\ (fpc' = "bounce" => bounceQueue'[i].id < Taken')
      <4>1. i # index /\ bounceQueue'[i].id = bounceQueue[i].id /\ OnBounce(i) < Filled
        BY <1>3, <2>4, <3>3
      <4> QED BY <1>1, <2>1, <2>5, <2>7, <3>3, <4>1 DEF Pending
    <3>4. ASSUME NEW i \in BounceEntries, NEW j \in BounceEntries, OnBounce(i)' < OnBounce(j)', OnBounce(j)' < Filled',
                 bounceQueue'[i].id # 0, bounceQueue'[j].id # 0
          PROVE  bounceQueue'[i].id < bounceQueue'[j].id
      BY <1>3, <2>4, <2>5, <3>4
    <3>5. fpc' = "publish" => bounceQueue'[bounceEnqueueIndex'].id = Taken'
      BY <1>1, <1>2, <2>4, <2>5
    <3> QED BY <1>1, <1>3, <2>5, <3>1, <3>2, <3>3, <3>4, <3>5 DEF QueueInv
  <2>9. NothingForgotten'
    <3> SUFFICES ASSUME NEW n \in 1 .. Taken, n \notin settled', n \notin lost PROVE InHand(n)'
      BY <1>1 DEF NothingForgotten
    <3>1. InHand(n) /\ n # e
      BY <2>1 DEF NothingForgotten
    <3>2. CASE fpc = "bounce" /\ n = Taken
      BY <1>1, <3>2 DEF InHand
    <3>3. CASE \E i \in BounceEntries : OnBounce(i) < Filled /\ bounceQueue[i].id = n
      <4>1. PICK i \in BounceEntries : OnBounce(i) < Filled /\ bounceQueue[i].id = n
        BY <3>3
      <4> QED BY <1>3, <2>4, <3>1, <4>1 DEF InHand
    <3> QED BY <3>1, <3>2, <3>3 DEF InHand
  <2> QED BY <2>8, <2>9
<1> QED BY <1>4, <1>5

-----------------------------------------------------------------------------
\* Every distance less than the number of entries is that of an entry.
LEMMA AheadOnto ==
  ASSUME NEW n \in Nat, n >= 2, NEW s \in 0 .. n - 1, NEW d \in 0 .. n - 1
  PROVE  \E i \in 0 .. n - 1 : Ahead(i, s, n) = d
<1>1. CASE s + d < n
  <2>1. s + d \in 0 .. n - 1 /\ Ahead(s + d, s, n) = d
    BY <1>1 DEF Ahead
  <2> QED BY <2>1
<1>2. CASE ~(s + d < n)
  <2>1. s + d - n \in 0 .. n - 1 /\ Ahead(s + d - n, s, n) = d
    BY <1>2 DEF Ahead
  <2> QED BY <2>1
<1> QED BY <1>1, <1>2

\* A restart counts the events it wipes as lost, each of them.
LEMMA WipedAreLost ==
  ASSUME Types, RingInv, NEW n \in Taken + 1 .. posted
  PROVE  n \in OnRing
<1>1. Unread \in 0 .. NumXHCEntries - 1 /\ Taken \in Nat /\ posted \in Nat /\ Taken + Unread = posted
  BY OnXHCRange DEF Taken, RingInv, Types
<1>2. n - Taken - 1 \in 0 .. NumXHCEntries - 1 /\ n - Taken - 1 < Unread
  BY <1>1
<1>3. xHCDequeueIndex \in 0 .. NumXHCEntries - 1
  BY DEF Types, XHCEntries
<1> DEFINE d == n - Taken - 1
<1>4. d \in 0 .. NumXHCEntries - 1
  BY <1>2
<1> HIDE DEF d
<1>5. \E i \in 0 .. NumXHCEntries - 1 : Ahead(i, xHCDequeueIndex, NumXHCEntries) = d
  BY <1>3, <1>4, AheadOnto
<1>6. PICK i \in XHCEntries : OnXHC(i) = d
  BY <1>5 DEF XHCEntries, OnXHC
<1>7. ring[i].event.id = Taken + d + 1 /\ OnXHC(i) < Unread
  BY <1>2, <1>6 DEF RingInv, d
<1>8. Taken + d + 1 = n
  BY <1>1 DEF d
<1>9. \E j \in XHCEntries : ring[j].event.id = n /\ OnXHC(j) < Unread
  BY <1>7, <1>8
<1> QED BY <1>9 DEF OnRing, OnXHC, Unread, XHCEntries

\* The events keep their order and their places, whatever step is made.
LEMMA EventNext ==
  ASSUME Types, EventInv, CallInv, [Next]_vars
  PROVE  Types' /\ EventInv'
<1>1. Types' /\ RingInv'
  BY RingNext DEF EventInv
<1>2. RingInv /\ QueueInv /\ NothingForgotten /\ Taken \in Nat /\ Taken' \in Nat
  BY <1>1 DEF EventInv, RingInv
<1>3. ASSUME Taken' = Taken, UNCHANGED <<bounceQueue, bounceDequeueIndex, bounceEnqueueIndex,
                                         wEvent, lastPolled,
                                         fEvent, settled>>,
             lost \subseteq lost', fpc' = "publish" <=> fpc = "publish", wpc' = "advance" <=> wpc = "advance",
             fpc' = "bounce" => fpc = "bounce", fpc = "bounce" => fpc' = "bounce" \/ Taken \in lost'
      PROVE  QueueInv' /\ NothingForgotten'
  <2>1. fpc' = "bounce" => fEvent'.id = Taken'
    BY <1>2, <1>3 DEF QueueInv
  <2>2. \A n \in Taken + 1 .. Taken' : FALSE
    BY <1>2, <1>3
  <2> QED BY <1>2, <1>3, <2>1, <2>2, QuietQueue
<1>4. CASE FilterTake
  <2> DEFINE e == ring[xHCDequeueIndex].event
  <2>1. /\ Valid /\ xHCDequeueIndex' = NextXHC(xHCDequeueIndex) /\ fpc = "loop"
        /\ cycleState' = IF xHCDequeueIndex' = 0 THEN 1 - cycleState ELSE cycleState
        /\ UNCHANGED <<ring, hwIndex, hwCycle, erdp, posted>>
        /\ UNCHANGED <<bounceQueue, bounceDequeueIndex, bounceEnqueueIndex, wEvent, lastPolled,
                       lost, wpc>>
    BY <1>4 DEF FilterTake, hwVars, bounceVars, loopVars
  <2>2. Taken' = Taken + 1 /\ e.id = Taken + 1
    BY <1>2, <2>1, RingTaken
  <2>3. \/ settled' = settled \cup {Taken + 1} /\ fpc' = "loop"
        \/ fEvent' = e /\ fpc' = "bounce" /\ settled' = settled
    BY <1>4, <2>1, <2>2 DEF FilterTake
  <2>4. \A n \in Taken + 1 .. Taken' : n = Taken + 1
    BY <1>2, <2>2
  <2>5. Taken + 1 \in Taken + 1 .. Taken'
    BY <1>2, <2>2
  <2> HIDE DEF e
  <2>6. CASE settled' = settled \cup {Taken + 1} /\ fpc' = "loop"
    <3>1. settled \subseteq settled' /\ settled' \subseteq settled \cup (Taken + 1 .. Taken')
      BY <2>5, <2>6
    <3>2. \A n \in Taken + 1 .. Taken' : n \in settled'
      BY <2>4, <2>6
    <3> QED BY <1>1, <1>2, <2>1, <2>2, <2>6, <3>1, <3>2, QuietQueue DEF EventInv
  <2>7. CASE fEvent' = e /\ fpc' = "bounce" /\ settled' = settled
    BY <1>1, <1>2, <2>1, <2>2, <2>4, <2>7, QuietQueue DEF EventInv
  <2> QED BY <2>3, <2>6, <2>7
<1>5. CASE InitEventRing
  <2>1. /\ ring' = EmptyRing /\ xHCDequeueIndex' = 0 /\ cycleState' = 1 /\ hwIndex' = 0
        /\ hwCycle' = 1 /\ erdp' = 0 /\ posted' = posted /\ fpc = "idle" /\ lost' = lost \cup OnRing
        /\ UNCHANGED <<bounceQueue, bounceDequeueIndex, bounceEnqueueIndex, wEvent, lastPolled,
                       settled, fpc, wpc>>
    BY <1>5 DEF InitEventRing, bounceVars, filterVars
  <2>2. Taken' = posted
    BY <2>1, RingEmptied DEF Types
  <2>3. \A n \in Taken + 1 .. Taken' : n \in lost'
    BY <1>2, <2>1, <2>2, WipedAreLost
  <2>4. Taken <= Taken'
    BY <1>2, <2>2, OnXHCRange DEF Taken, Types
  <2> QED BY <1>1, <1>2, <2>1, <2>3, <2>4, QuietQueue DEF EventInv
<1>6. CASE FilterEnd
  <2>1. /\ erdp' = xHCDequeueIndex \/ erdp' = erdp
        /\ UNCHANGED <<ring, xHCDequeueIndex, cycleState, hwIndex, hwCycle, posted>>
        /\ UNCHANGED <<bounceQueue, bounceDequeueIndex, bounceEnqueueIndex, wEvent, lastPolled,
                       fEvent, settled, lost, wpc>>
        /\ fpc = "post" /\ fpc' = "idle"
    BY <1>6 DEF FilterEnd, bounceVars, histVars
  <2>2. Taken' = Taken
    BY <1>2, <2>1, RingTold
  <2> QED BY <1>1, <1>3, <2>1, <2>2 DEF EventInv
<1>7. ASSUME NEW kind \in Kinds, HwPost(kind) PROVE EventInv'
  <2>1. UNCHANGED <<bounceQueue, bounceDequeueIndex, bounceEnqueueIndex, wEvent, lastPolled,
                    fEvent, settled, lost, wpc, fpc>>
    BY <1>7 DEF HwPost, bounceVars, filterVars, loopVars
  <2>2. Taken' = Taken
    BY <1>2, <1>7, RingPosted
  <2> QED BY <1>1, <1>3, <2>1, <2>2 DEF EventInv
<1>8. CASE HwEvent \/ HwStop \/ HwComplete
  BY <1>1, <1>7, <1>8 DEF HwEvent, HwStop, HwComplete, Kinds
<1>9. ASSUME UNCHANGED <<ring, xHCDequeueIndex, cycleState, hwIndex, hwCycle, erdp,
                         posted>> PROVE Taken' = Taken
  BY <1>2, <1>9, RingStays
<1>10. CASE FilterDrop
  <2>1. /\ UNCHANGED <<ring, xHCDequeueIndex, cycleState, hwIndex, hwCycle, erdp, posted>>
        /\ UNCHANGED <<bounceQueue, bounceDequeueIndex, bounceEnqueueIndex, wEvent, lastPolled,
                       settled, wpc>>
        /\ fpc = "bounce" /\ fpc' = "post" /\ lost' = lost \cup {fEvent.id}
    BY <1>10 DEF FilterDrop, ringVars, bounceVars, loopVars, hwVars
  <2>2. Taken' = Taken /\ Taken \in lost'
    BY <1>2, <1>9, <2>1 DEF QueueInv
  <2>3. \A n \in Taken + 1 .. Taken' : FALSE
    BY <1>2, <2>2
  <2> QED BY <1>1, <1>2, <2>1, <2>2, <2>3, QuietQueue DEF EventInv
<1>11. CASE FilterStart \/ FilterLoopEnds \/ InterruptHandler \/ PollAgain \/ PollDone \/ StopEndpoint
            \/ WaitEnds \/ ScanEnds \/ HwInterrupt \/ UNCHANGED vars
  <2>1. /\ UNCHANGED <<ring, xHCDequeueIndex, cycleState, hwIndex, hwCycle, erdp, posted>>
        /\ UNCHANGED <<bounceQueue, bounceDequeueIndex, bounceEnqueueIndex, wEvent, lastPolled,
                       fEvent, settled, lost>>
        /\ fpc' = fpc \/ (fpc \in {"idle", "loop"} /\ fpc' \in {"loop", "post"})
        /\ wpc' = wpc \/ (wpc \in {"idle", "handled", "poll"} /\ wpc' \in {"poll", "idle"})
    BY <1>11 DEF FilterStart, FilterLoopEnds, InterruptHandler, PollAgain, PollDone, StopEndpoint,
                WaitEnds, ScanEnds, HwInterrupt, ringVars, bounceVars, filterVars, loopVars, hwVars, histVars, vars
  <2> QED BY <1>1, <1>3, <1>9, <2>1 DEF EventInv
<1>12. CASE FilterStore
  <2>1. UNCHANGED <<ring, xHCDequeueIndex, cycleState, hwIndex, hwCycle, erdp, posted>>
    BY <1>12 DEF FilterStore, ringVars, hwVars, histVars
  <2> QED BY <1>1, <1>2, <1>9, <1>12, <2>1, StoreQueue DEF EventInv
<1>13. CASE FilterPublish
  <2>1. UNCHANGED <<ring, xHCDequeueIndex, cycleState, hwIndex, hwCycle, erdp, posted>>
    BY <1>13 DEF FilterPublish, ringVars, hwVars, histVars
  <2> QED BY <1>1, <1>2, <1>9, <1>13, <2>1, PublishQueue DEF EventInv
<1>14. CASE PollTake
  <2>1. UNCHANGED <<ring, xHCDequeueIndex, cycleState, hwIndex, hwCycle, erdp, posted>>
    BY <1>14 DEF PollTake, ringVars, hwVars, histVars
  <2> QED BY <1>1, <1>2, <1>9, <1>14, <2>1, TakeQueue DEF EventInv
<1>15. CASE PollAdvance
  <2>1. UNCHANGED <<ring, xHCDequeueIndex, cycleState, hwIndex, hwCycle, erdp, posted>>
    BY <1>15 DEF PollAdvance, ringVars, hwVars
  <2> QED BY <1>1, <1>2, <1>9, <1>15, <2>1, AdvanceQueue DEF EventInv
<1>16. CASE ScanEntry
  <2>1. UNCHANGED <<ring, xHCDequeueIndex, cycleState, hwIndex, hwCycle, erdp, posted>>
    BY <1>16 DEF ScanEntry, ringVars, hwVars
  <2>2. wpc # "advance" /\ index \in BounceEntries /\ OnBounce(index) <= Waiting
    BY <1>16 DEF ScanEntry, Scanning, CallInv, InCall
  <2> QED BY <1>1, <1>2, <1>9, <1>16, <2>1, <2>2, ScanQueue DEF EventInv
<1> QED BY <1>4, <1>5, <1>6, <1>8, <1>10, <1>11, <1>12, <1>13, <1>14, <1>15, <1>16, <1>1
        DEF Next, Filter, Loop, Call, Xhc

-----------------------------------------------------------------------------
\* The numbers of the events on the ring and off it.
LEMMA Numbers ==
  ASSUME Types, EventInv
  PROVE  /\ Taken \in Nat /\ posted \in Nat /\ Taken <= posted /\ Unread \in Nat /\ lastPolled <= Taken
         /\ \A i \in XHCEntries : OnXHC(i) \in Nat
         /\ \A i \in XHCEntries : OnXHC(i) < Unread => ring[i].event.id > Taken /\ ring[i].event.id <= posted
         /\ fpc = "bounce" => fEvent.id <= posted
         /\ \A i \in BounceEntries : OnBounce(i) < Filled => bounceQueue[i].id <= posted
<1>1. /\ Taken \in Nat /\ Unread \in Nat /\ posted \in Nat /\ Taken + Unread = posted
      /\ \A i \in XHCEntries : OnXHC(i) \in Nat
  BY OnXHCRange DEF Taken, EventInv, RingInv, Types
<1>2. /\ \A i \in XHCEntries : OnXHC(i) < Unread => ring[i].event.id = Taken + OnXHC(i) + 1
      /\ lastPolled <= Taken /\ (fpc = "bounce" => fEvent.id = Taken)
      /\ \A i \in BounceEntries : OnBounce(i) < Filled /\ bounceQueue[i].id # 0 => bounceQueue[i].id <= Taken
  BY DEF EventInv, RingInv, QueueInv, Pending
<1>3. \A i \in BounceEntries : bounceQueue[i].id \in Nat
  BY <1>1, QueueEntries DEF EventInv
<1> QED BY <1>1, <1>2, <1>3

\* The stop event keeps its kind wherever it is.
LEMMA KindNext ==
  ASSUME Types, EventInv, CallInv, KindInv, [Next]_vars
  PROVE  KindInv'
<1>1. /\ RingInv /\ QueueInv /\ Types' /\ EventInv'
  BY EventNext DEF EventInv
<1>2. /\ stopEvent \in 0 .. posted
      /\ \A i \in XHCEntries : OnXHC(i) < Unread => StopIs(ring[i].event)
      /\ fpc = "bounce" => StopIs(fEvent)
      /\ \A i \in BounceEntries : OnBounce(i) < Filled => StopIs(bounceQueue[i])
  BY DEF KindInv
<1>3. StopIs(Cleared)
  BY <1>2 DEF StopIs, Cleared
\* The bounce queue, when its entries are among those before, or cleared, or the filter's event.
<1>5. ASSUME UNCHANGED <<stopEvent, ring, xHCDequeueIndex, hwIndex, posted>>,
             fpc' # "bounce" \/ (fpc' = fpc /\ fEvent' = fEvent),
             \A i \in BounceEntries : OnBounce(i)' < Filled' =>
               \/ OnBounce(i) < Filled /\ bounceQueue'[i] = bounceQueue[i]
               \/ bounceQueue'[i] = Cleared \/ (fpc = "bounce" /\ bounceQueue'[i] = fEvent)
      PROVE  KindInv'
  <2>1. \A i \in XHCEntries : OnXHC(i)' = OnXHC(i) /\ Unread' = Unread
    BY <1>5 DEF OnXHC, Unread
  <2>2. \A i \in BounceEntries : OnBounce(i)' < Filled' => StopIs(bounceQueue[i])'
    BY <1>2, <1>3, <1>5 DEF StopIs
  <2>3. fpc' = "bounce" => StopIs(fEvent)'
    BY <1>2, <1>5 DEF StopIs
  <2>4. \A i \in XHCEntries : OnXHC(i)' < Unread' => StopIs(ring[i].event)'
    BY <1>2, <1>5, <2>1 DEF StopIs
  <2> QED BY <1>2, <1>5, <2>2, <2>3, <2>4 DEF KindInv
<1>6. ASSUME UNCHANGED <<bounceQueue, bounceDequeueIndex, bounceEnqueueIndex>>, fpc' = "publish" <=> fpc = "publish"
      PROVE  \A i \in BounceEntries : OnBounce(i)' = OnBounce(i) /\ Filled' = Filled
  BY <1>6 DEF OnBounce, Filled, Waiting
<1>7. CASE FilterStart \/ FilterLoopEnds \/ FilterDrop \/ FilterEnd \/ InterruptHandler \/ PollAgain
           \/ PollDone \/ WaitEnds \/ ScanEnds \/ HwInterrupt \/ UNCHANGED vars
  <2>1. /\ UNCHANGED <<stopEvent, ring, xHCDequeueIndex, hwIndex, posted>>
        /\ UNCHANGED <<bounceQueue, bounceDequeueIndex, bounceEnqueueIndex>>
        /\ (fpc' = fpc /\ fEvent' = fEvent)
           \/ (fpc \in {"idle", "loop", "post", "bounce"} /\ fpc' \in {"idle", "loop", "post"})
    BY <1>7 DEF FilterStart, FilterLoopEnds, FilterDrop, FilterEnd, InterruptHandler, PollAgain,
                PollDone,
                WaitEnds, ScanEnds, HwInterrupt, ringVars, bounceVars, filterVars, loopVars, hwVars, histVars, vars
  <2> QED BY <1>5, <1>6, <2>1
<1>8. CASE FilterTake
  <2>1. /\ Valid /\ xHCDequeueIndex' = NextXHC(xHCDequeueIndex) /\ fpc = "loop"
        /\ cycleState' = IF xHCDequeueIndex' = 0 THEN 1 - cycleState ELSE cycleState
        /\ UNCHANGED <<ring, hwIndex, hwCycle, erdp, posted, stopEvent>>
        /\ UNCHANGED <<bounceQueue, bounceDequeueIndex, bounceEnqueueIndex>>
        /\ fpc' = fpc \/ (fpc' = "bounce" /\ fEvent' = ring[xHCDequeueIndex].event)
    BY <1>8 DEF FilterTake, hwVars, bounceVars
  <2>2. /\ \A i \in XHCEntries : OnXHC(i)' < Unread' => OnXHC(i) < Unread
        /\ Unread > 0
    BY <1>1, <2>1, RingTaken
  <2>3. OnXHC(xHCDequeueIndex) < Unread /\ xHCDequeueIndex \in XHCEntries
    BY <2>2, OnXHCRange DEF Types
  <2>4. fpc' = "bounce" => StopIs(fEvent)'
    BY <1>2, <2>1, <2>3 DEF StopIs
  <2>5. \A i \in XHCEntries : OnXHC(i)' < Unread' => StopIs(ring[i].event)'
    BY <1>2, <2>1, <2>2 DEF StopIs
  <2>6. \A i \in BounceEntries : OnBounce(i)' < Filled' => StopIs(bounceQueue[i])'
    BY <1>2, <1>6, <2>1 DEF StopIs
  <2> QED BY <1>2, <2>1, <2>4, <2>5, <2>6 DEF KindInv
<1>9. CASE FilterStore
  <2>1. /\ fpc = "bounce" /\ fpc' = "publish" /\ bounceQueue' = [bounceQueue EXCEPT ![bounceEnqueueIndex] = fEvent]
        /\ UNCHANGED <<bounceDequeueIndex, bounceEnqueueIndex>>
        /\ UNCHANGED <<stopEvent, ring, xHCDequeueIndex, hwIndex, posted>>
    BY <1>9 DEF FilterStore, ringVars, hwVars, histVars
  <2>2. /\ \A i \in BounceEntries : OnBounce(i)' = OnBounce(i)
        /\ Filled = Waiting /\ Filled' = Waiting + 1
    BY <2>1 DEF OnBounce, Filled, Waiting
  <2>3. \A i \in BounceEntries : i # bounceEnqueueIndex => bounceQueue'[i] = bounceQueue[i]
    BY <2>1 DEF Types
  <2>4. bounceQueue'[bounceEnqueueIndex] = fEvent
    BY <2>1 DEF Types
  <2>5. \A i \in BounceEntries : OnBounce(i) < Waiting + 1 => OnBounce(i) < Waiting \/ i = bounceEnqueueIndex
    BY <1>1, QueueEntries DEF RingInv
  <2> QED BY <1>5, <2>1, <2>2, <2>3, <2>4, <2>5
<1>10. CASE FilterPublish
  <2>1. /\ fpc = "publish" /\ fpc' = "loop" /\ UNCHANGED <<bounceQueue, bounceDequeueIndex>>
        /\ UNCHANGED <<stopEvent, ring, xHCDequeueIndex, hwIndex, posted, cycleState, hwCycle,
                       erdp>>
    BY <1>10 DEF FilterPublish, ringVars, hwVars, histVars
  <2>2. Filled' = Filled
    BY <1>1, <1>10, <2>1, RingStays, PublishQueue DEF EventInv, RingInv
  <2>3. \A i \in BounceEntries : OnBounce(i)' = OnBounce(i)
    BY <2>1 DEF OnBounce
  <2> QED BY <1>5, <2>1, <2>2, <2>3
<1>11. CASE PollTake
  <2>1. /\ bounceQueue' = [bounceQueue EXCEPT ![bounceDequeueIndex] = Cleared]
        /\ UNCHANGED <<bounceDequeueIndex, bounceEnqueueIndex, fpc, fEvent>>
        /\ UNCHANGED <<stopEvent, ring, xHCDequeueIndex, hwIndex, posted>>
    BY <1>11 DEF PollTake, ringVars, filterVars, hwVars, histVars
  <2>2. \A i \in BounceEntries : OnBounce(i)' = OnBounce(i) /\ Filled' = Filled
    BY <2>1 DEF OnBounce, Filled, Waiting
  <2>3. \A i \in BounceEntries : bounceQueue'[i] = bounceQueue[i] \/ bounceQueue'[i] = Cleared
    BY <2>1 DEF Types
  <2> QED BY <1>5, <2>1, <2>2, <2>3
<1>12. CASE PollAdvance
  <2>1. /\ wpc = "advance" /\ bounceDequeueIndex' = NextBounce(bounceDequeueIndex)
        /\ UNCHANGED <<bounceQueue, bounceEnqueueIndex, fpc, fEvent>>
        /\ UNCHANGED <<stopEvent, ring, xHCDequeueIndex, hwIndex, posted, cycleState, hwCycle,
                       erdp>>
    BY <1>12 DEF PollAdvance, ringVars, filterVars, hwVars
  <2>2. Waiting' = Waiting - 1 /\ Waiting > 0
    BY <1>1, <1>12, <2>1, RingStays, AdvanceQueue DEF EventInv, RingInv
  <2>3. Filled' = Filled - 1
    <3>1. Waiting \in Nat
      BY OnBounceRange
    <3> QED BY <2>1, <2>2, <3>1 DEF Filled
  <2>4. bounceDequeueIndex \in BounceEntries
    BY DEF Types
  <2>5. /\ \A i \in BounceEntries : i # bounceDequeueIndex => OnBounce(i)' = OnBounce(i) - 1
        /\ \A i \in BounceEntries : i = bounceDequeueIndex => OnBounce(i)' = NumBounceEntries - 1
    BY <2>1, <2>4, AheadMoved DEF BounceEntries, OnBounce, NextBounce
  <2>6. \A i \in BounceEntries : OnBounce(i)' < Filled' => OnBounce(i) < Filled
    BY <1>1, <2>3, <2>5, QueueEntries DEF RingInv
  <2> QED BY <1>5, <2>1, <2>6
<1>13. CASE ScanEntry
  <2>1. /\ bounceQueue' = bounceQueue \/ bounceQueue' = [bounceQueue EXCEPT ![index] = Cleared]
        /\ UNCHANGED <<bounceDequeueIndex, bounceEnqueueIndex, fpc, fEvent>>
        /\ UNCHANGED <<stopEvent, ring, xHCDequeueIndex, hwIndex, posted>>
    BY <1>13 DEF ScanEntry, Scooped, ringVars, filterVars, hwVars
  <2>2. \A i \in BounceEntries : OnBounce(i)' = OnBounce(i) /\ Filled' = Filled
    BY <2>1 DEF OnBounce, Filled, Waiting
  <2>3. \A i \in BounceEntries : bounceQueue'[i] = bounceQueue[i] \/ bounceQueue'[i] = Cleared
    BY <2>1 DEF Types
  <2> QED BY <1>5, <2>1, <2>2, <2>3
<1>14. CASE StopEndpoint
  <2>1. stopEvent' = 0 /\ posted' = posted /\ posted \in Nat
    BY <1>14 DEF StopEndpoint, Types
  <2> QED BY <1>2, <2>1 DEF KindInv, StopIs
<1>15. CASE InitEventRing
  <2>1. /\ UNCHANGED <<bounceQueue, bounceDequeueIndex, bounceEnqueueIndex, fpc, fEvent, posted,
                       stopEvent>>
        /\ fpc = "idle" /\ xHCDequeueIndex' = hwIndex'
    BY <1>15 DEF InitEventRing, bounceVars, filterVars
  <2>2. \A i \in XHCEntries : ~(OnXHC(i)' < Unread')
    <3>1. Unread' = 0
      BY <1>15, RingEmptied DEF InitEventRing, Types
    <3>2. \A i \in XHCEntries : OnXHC(i)' \in Nat
      BY <1>15 DEF InitEventRing, OnXHC, Ahead, XHCEntries
    <3> QED BY <3>1, <3>2
  <2>3. \A i \in BounceEntries : OnBounce(i)' < Filled' => StopIs(bounceQueue[i])'
    BY <1>2, <1>6, <2>1 DEF StopIs
  <2> QED BY <1>2, <2>1, <2>2, <2>3 DEF KindInv
<1>16. ASSUME NEW kind \in Kinds, HwPost(kind),
              stopEvent' = stopEvent \/ (stopEvent' = posted + 1 /\ kind = "stop")
       PROVE  KindInv'
  <2>1. /\ UNCHANGED <<bounceQueue, bounceDequeueIndex, bounceEnqueueIndex, fpc, fEvent>>
        /\ posted' = posted + 1 /\ hwIndex \in XHCEntries
        /\ ring' = [ring EXCEPT ![hwIndex] = [event |-> [id |-> posted + 1, kind |-> kind], cycle |-> hwCycle]]
    BY <1>16 DEF HwPost, bounceVars, filterVars, Types
  <2>2. /\ ring'[hwIndex].event = [id |-> posted + 1, kind |-> kind]
        /\ \A i \in XHCEntries : i # hwIndex => ring'[i] = ring[i]
    BY <2>1 DEF Types
  <2>3. \A i \in XHCEntries : OnXHC(i)' < Unread' => OnXHC(i) < Unread \/ i = hwIndex
    BY <1>1, <1>16, RingPosted
  <2>4. stopEvent \in Nat /\ stopEvent <= posted /\ posted \in Nat
    BY <1>2 DEF Types
  <2>6. \A i \in BounceEntries : OnBounce(i)' < Filled' => StopIs(bounceQueue[i])'
    BY <1>2, <1>6, <1>16, <2>1, <2>4, Numbers DEF StopIs
  <2>7. fpc' = "bounce" => StopIs(fEvent)'
    BY <1>2, <1>16, <2>1, <2>4, Numbers DEF StopIs
  <2>8. ASSUME NEW i \in XHCEntries, OnXHC(i)' < Unread' PROVE StopIs(ring[i].event)'
    <3>1. CASE i = hwIndex
      BY <1>16, <2>2, <2>4, <3>1 DEF StopIs
    <3>2. CASE i # hwIndex
      BY <1>2, <1>16, <2>2, <2>3, <2>4, <2>8, <3>2, Numbers DEF StopIs
    <3> QED BY <3>1, <3>2
  <2> QED BY <1>16, <2>1, <2>4, <2>6, <2>7, <2>8 DEF KindInv
<1>17. CASE HwEvent \/ HwStop \/ HwComplete
  BY <1>16, <1>17 DEF HwEvent, HwStop, HwComplete, Kinds
<1> QED BY <1>7, <1>8, <1>9, <1>10, <1>11, <1>12, <1>13, <1>14, <1>15, <1>17
        DEF Next, Filter, Loop, Call, Xhc

\* A call keeps the gate, its stop event comes before its completion, and its scan passes no
\* stop event.
LEMMA CallNext ==
  ASSUME Types, EventInv, CallInv, KindInv, [Next]_vars
  PROVE  CallInv'
<1>1. /\ RingInv /\ QueueInv /\ Types' /\ EventInv' /\ Taken \in Nat /\ Taken' \in Nat
  BY EventNext DEF EventInv, RingInv
<1>2. /\ spc \in {"idle", "wait", "scan", "scanLate"} /\ issuedAt \in Nat
      /\ InCall =>
           /\ wpc \in {"idle", "handled"}
           /\ stopEvent # 0 => lastPolled < stopEvent
           /\ lastPolled <= issuedAt /\ issuedAt <= posted
           /\ answered => owed = "none" /\ (stopEvent # 0 => stopEvent < Taken)
           /\ \A i \in XHCEntries :
                OnXHC(i) < Unread /\ ring[i].event.kind = "cmd" /\ ring[i].event.id > issuedAt =>
                  owed = "none" /\ stopEvent < ring[i].event.id
      /\ Scanning =>
           /\ index \in BounceEntries /\ OnBounce(index) <= Waiting
           /\ \A i \in BounceEntries : OnBounce(i) < OnBounce(index) => bounceQueue[i].kind \notin {"stop", "bad"}
      /\ spc = "scan" => answered
  BY DEF CallInv
<1>3. Waiting \in Nat /\ posted \in Nat /\ Taken <= posted /\ stopEvent \in 0 .. posted
  BY OnBounceRange, Numbers DEF KindInv
\* What the call knows, when the ring and the xHC's debt are as they were.
<1>4. ASSUME UNCHANGED <<ring, xHCDequeueIndex, hwIndex, posted, owed, stopEvent, lastPolled,
                         issuedAt>>, answered' <=> answered
      PROVE  /\ InCall /\ spc' # "idle" /\ wpc' \in {"idle", "handled"} =>
                /\ wpc' \in {"idle", "handled"}
                /\ stopEvent' # 0 => lastPolled' < stopEvent'
                /\ lastPolled' <= issuedAt' /\ issuedAt' <= posted'
                /\ answered' => owed' = "none" /\ (stopEvent' # 0 => stopEvent' < Taken')
                /\ \A i \in XHCEntries :
                     OnXHC(i)' < Unread' /\ ring'[i].event.kind = "cmd" /\ ring'[i].event.id > issuedAt' =>
                       owed' = "none" /\ stopEvent' < ring'[i].event.id
  <2>1. Taken' = Taken /\ Unread' = Unread /\ \A i \in XHCEntries : OnXHC(i)' = OnXHC(i)
    BY <1>4 DEF Taken, Unread, OnXHC
  <2> QED BY <1>2, <1>4, <2>1
\* What the scan has passed, when the bounce queue up to there is as it was.
<1>5. ASSUME UNCHANGED <<bounceQueue, bounceDequeueIndex, bounceEnqueueIndex, index>>
      PROVE  Scanning => /\ index' \in BounceEntries /\ OnBounce(index)' <= Waiting'
                         /\ \A i \in BounceEntries : OnBounce(i)' < OnBounce(index)' =>
                              bounceQueue'[i].kind \notin {"stop", "bad"}
  BY <1>2, <1>5 DEF OnBounce, Waiting
<1>6. CASE FilterStart \/ FilterLoopEnds \/ FilterDrop \/ FilterEnd \/ HwInterrupt \/ UNCHANGED vars
  <2>1. /\ UNCHANGED <<ring, xHCDequeueIndex, hwIndex, posted, owed, stopEvent, lastPolled,
                       issuedAt>>
        /\ UNCHANGED <<bounceQueue, bounceDequeueIndex, bounceEnqueueIndex, index, spc, wpc>>
        /\ answered' <=> answered
    BY <1>6 DEF FilterStart, FilterLoopEnds, FilterDrop, FilterEnd, HwInterrupt, ringVars,
                bounceVars, loopVars,
                callVars, hwVars, histVars, vars
  <2> QED BY <1>2, <1>4, <1>5, <2>1 DEF CallInv, InCall, Scanning
<1>7. CASE InterruptHandler \/ PollAgain \/ InitEventRing \/ PollTake \/ PollAdvance \/ PollDone
  <2>1. UNCHANGED <<spc, issuedAt>>
    BY <1>7 DEF InterruptHandler, PollAgain, InitEventRing, PollTake, PollAdvance, PollDone,
                callVars
  <2>2. spc = "idle"
    BY <1>2, <1>7 DEF InterruptHandler, PollAgain, InitEventRing, PollTake, PollAdvance, PollDone,
                      InCall
  <2> QED BY <1>2, <2>1, <2>2 DEF CallInv, InCall, Scanning
<1>8. CASE ScanEnds
  <2>1. spc' = "idle" /\ issuedAt' = issuedAt
    BY <1>8 DEF ScanEnds
  <2> QED BY <1>2, <2>1 DEF CallInv, InCall, Scanning
<1>9. CASE FilterTake
  <2>1. /\ Valid /\ xHCDequeueIndex' = NextXHC(xHCDequeueIndex)
        /\ cycleState' = IF xHCDequeueIndex' = 0 THEN 1 - cycleState ELSE cycleState
        /\ UNCHANGED <<ring, hwIndex, hwCycle, erdp, posted, stopEvent, owed, lastPolled, issuedAt>>
        /\ UNCHANGED <<bounceQueue, bounceDequeueIndex, bounceEnqueueIndex, index, spc, wpc>>
    BY <1>9 DEF FilterTake, hwVars, bounceVars, loopVars
  <2>2. /\ answered' => answered \/ (ring[xHCDequeueIndex].event.kind = "cmd"
                                     /\ ring[xHCDequeueIndex].event.id > issuedAt)
        /\ answered => answered'
    <3> DEFINE e == ring[xHCDequeueIndex].event
    <3>1. \/ e.kind = "cmd" /\ answered' = (answered \/ e.id > issuedAt)
          \/ answered' = answered
      BY <1>9 DEF FilterTake
    <3> HIDE DEF e
    <3>2. \/ e.kind = "cmd" /\ (answered' <=> (answered \/ e.id > issuedAt))
          \/ answered' <=> answered
      BY Zenon, <3>1
    <3>3. /\ answered' => answered \/ (e.kind = "cmd" /\ e.id > issuedAt)
          /\ answered => answered'
      BY <3>2
    <3> QED BY <3>3 DEF e
  <2>3. /\ \A i \in XHCEntries : OnXHC(i)' < Unread' => OnXHC(i) < Unread
        /\ Unread > 0 /\ Taken' = Taken + 1 /\ ring[xHCDequeueIndex].event.id = Taken + 1
    BY <1>1, <2>1, RingTaken
  <2>4. OnXHC(xHCDequeueIndex) < Unread /\ xHCDequeueIndex \in XHCEntries
    BY <2>3, OnXHCRange DEF Types
  <2>5. InCall /\ answered' => owed = "none" /\ (stopEvent # 0 => stopEvent < Taken')
    BY <1>1, <1>2, <1>3, <2>1, <2>2, <2>3, <2>4
  <2>6. InCall => \A i \in XHCEntries :
          OnXHC(i)' < Unread' /\ ring'[i].event.kind = "cmd" /\ ring'[i].event.id > issuedAt' =>
            owed' = "none" /\ stopEvent' < ring'[i].event.id
    BY <1>2, <2>1, <2>3
  <2>7. InCall' <=> InCall
    BY <2>1 DEF InCall
  <2>8. spc' = "scan" => answered'
    BY <1>2, <2>1, <2>2
  <2>9. Scanning' <=> Scanning
    BY <2>1 DEF Scanning
  <2> QED BY <1>2, <1>5, <2>1, <2>5, <2>6, <2>7, <2>8, <2>9 DEF CallInv
<1>10. CASE FilterStore
  <2>1. /\ bounceQueue' = [bounceQueue EXCEPT ![bounceEnqueueIndex] = fEvent]
        /\ UNCHANGED <<bounceDequeueIndex, bounceEnqueueIndex, index, spc, wpc>>
        /\ UNCHANGED <<ring, xHCDequeueIndex, hwIndex, posted, owed, stopEvent, lastPolled,
                       issuedAt>>
        /\ answered' <=> answered
    BY <1>10 DEF FilterStore, ringVars, loopVars, callVars, hwVars, histVars
  <2>2. \A i \in BounceEntries : i # bounceEnqueueIndex => bounceQueue'[i] = bounceQueue[i]
    BY <2>1 DEF Types
  <2>3. \A i \in BounceEntries : OnBounce(i)' = OnBounce(i)
    BY <2>1 DEF OnBounce
  <2>4. Waiting' = Waiting /\ OnBounce(index)' = OnBounce(index)
    BY <2>1 DEF Waiting, OnBounce
  <2>5. Scanning => \A i \in BounceEntries : OnBounce(i) < OnBounce(index) => i # bounceEnqueueIndex
    BY <1>1, <1>2, QueueEntries
  <2>6. Scanning => /\ index' \in BounceEntries /\ OnBounce(index)' <= Waiting'
                    /\ \A i \in BounceEntries : OnBounce(i)' < OnBounce(index)' =>
                         bounceQueue'[i].kind \notin {"stop", "bad"}
    BY <1>2, <2>1, <2>2, <2>3, <2>4, <2>5
  <2> QED BY <1>2, <1>4, <2>1, <2>6 DEF CallInv, InCall, Scanning
<1>11. CASE FilterPublish
  <2>1. /\ UNCHANGED <<bounceQueue, bounceDequeueIndex, index, spc, wpc>>
        /\ UNCHANGED <<ring, xHCDequeueIndex, hwIndex, posted, owed, stopEvent, lastPolled,
                       issuedAt, cycleState, hwCycle, erdp>>
        /\ answered' <=> answered
    BY <1>11 DEF FilterPublish, ringVars, loopVars, callVars, hwVars, histVars
  <2>2. Waiting' = Waiting + 1
    BY <1>1, <1>11, <2>1, RingStays, PublishQueue DEF EventInv
  <2>3. \A i \in BounceEntries : OnBounce(i)' = OnBounce(i)
    BY <2>1 DEF OnBounce
  <2>4. OnBounce(index)' = OnBounce(index)
    BY <2>1 DEF OnBounce
  <2>5. Scanning => OnBounce(index) \in Nat
    BY <1>2, OnBounceRange
  <2>6. Scanning => /\ index' \in BounceEntries /\ OnBounce(index)' <= Waiting'
                    /\ \A i \in BounceEntries : OnBounce(i)' < OnBounce(index)' =>
                         bounceQueue'[i].kind \notin {"stop", "bad"}
    BY <1>2, <1>3, <2>1, <2>2, <2>3, <2>4, <2>5
  <2> QED BY <1>2, <1>4, <2>1, <2>6 DEF CallInv, InCall, Scanning
<1>12. CASE StopEndpoint
  <2>1. /\ spc' = "wait" /\ wpc' = wpc /\ wpc \in {"idle", "handled"} /\ issuedAt' = posted /\ stopEvent' = 0
        /\ UNCHANGED <<ring, xHCDequeueIndex, hwIndex, posted, lastPolled>> /\ ~answered'
    BY <1>12 DEF StopEndpoint, OnGate, ringVars, loopVars
  <2>2. \A i \in XHCEntries : OnXHC(i)' = OnXHC(i) /\ Unread' = Unread
    BY <2>1 DEF Unread, OnXHC
  <2>3. \A i \in XHCEntries : OnXHC(i) < Unread => ring[i].event.id <= posted /\ ring[i].event.id \in Nat
    BY <1>3, Numbers DEF EventInv, RingInv
  <2>4. lastPolled <= posted
    BY <1>3, Numbers DEF Types
  <2> QED BY <1>3, <2>1, <2>2, <2>3, <2>4 DEF CallInv, InCall, Scanning
<1>13. CASE WaitEnds
  <2>1. /\ spc = "wait" /\ spc' \in {"scan", "scanLate"} /\ (spc' = "scan" => answered') /\ index' = bounceDequeueIndex
        /\ UNCHANGED <<bounceQueue, bounceDequeueIndex, bounceEnqueueIndex, wpc>>
        /\ UNCHANGED <<ring, xHCDequeueIndex, hwIndex, posted, owed, stopEvent, lastPolled,
                       issuedAt>>
        /\ answered' <=> answered
    BY <1>13 DEF WaitEnds, ringVars, bounceVars, loopVars, hwVars, histVars
  <2>2. /\ \A i \in BounceEntries : OnBounce(i)' = OnBounce(i) /\ OnBounce(i) \in Nat
        /\ OnBounce(index)' = 0 /\ Waiting' = Waiting /\ index' \in BounceEntries
    BY <2>1, OnBounceRange DEF OnBounce, Waiting, Types
  <2>3. \A i \in BounceEntries : ~(OnBounce(i)' < OnBounce(index)')
    BY <2>2
  <2> QED BY <1>2, <1>3, <1>4, <2>1, <2>2, <2>3 DEF CallInv, InCall, Scanning
<1>14. CASE ScanEntry
  <2>1. /\ Scanning /\ index # bounceEnqueueIndex /\ index' = NextBounce(index)
        /\ IF bounceQueue[index].kind \in {"stop", "bad"} THEN bounceQueue' = [bounceQueue EXCEPT ![index] = Cleared]
           ELSE bounceQueue' = bounceQueue
        /\ UNCHANGED <<bounceDequeueIndex, bounceEnqueueIndex, spc, wpc>>
        /\ UNCHANGED <<ring, xHCDequeueIndex, hwIndex, posted, owed, stopEvent, lastPolled,
                       issuedAt>>
        /\ answered' <=> answered
    BY <1>14 DEF ScanEntry, Scooped, ringVars, filterVars, loopVars, hwVars
  <2>2. /\ index \in BounceEntries /\ OnBounce(index) <= Waiting /\ OnBounce(index) # Waiting
        /\ OnBounce(index) \in Nat /\ Waiting < NumBounceEntries
    BY <1>1, <1>2, <2>1, QueueEntries, OnBounceRange
  <2>3. index' \in BounceEntries
    BY <2>1, <2>2 DEF NextBounce, BounceEntries
  <2>4. OnBounce(index)' = OnBounce(index) + 1
    <3>1. bounceDequeueIndex \in BounceEntries
      BY DEF Types
    <3>2. OnBounce(index) < NumBounceEntries - 1
      BY <1>3, <2>2
    <3> QED BY <2>1, <2>2, <3>1, <3>2, AheadNext DEF OnBounce, BounceEntries, NextBounce
  <2>5. /\ bounceQueue'[index].kind \notin {"stop", "bad"}
        /\ \A i \in BounceEntries : i # index => bounceQueue'[i] = bounceQueue[i]
    BY <2>1, <2>2 DEF Types, Cleared
  <2>6. \A i \in BounceEntries : OnBounce(i)' = OnBounce(i)
    BY <2>1 DEF OnBounce
  <2>7. \A i \in BounceEntries : OnBounce(i) < OnBounce(index) + 1 => OnBounce(i) < OnBounce(index) \/ i = index
    BY <2>2, OnBounceRange
  <2>8. \A i \in BounceEntries : OnBounce(i)' < OnBounce(index)' => bounceQueue'[i].kind \notin {"stop", "bad"}
    BY <1>2, <2>1, <2>4, <2>5, <2>6, <2>7
  <2>9. OnBounce(index)' <= Waiting'
    BY <1>3, <2>1, <2>2, <2>4 DEF Waiting, OnBounce
  <2> QED BY <1>2, <1>4, <2>1, <2>3, <2>8, <2>9 DEF CallInv, InCall, Scanning
<1>15. ASSUME NEW kind \in Kinds, HwPost(kind), owed \in {"stop", "cmd"} \/ kind # "cmd",
              \/ UNCHANGED <<owed, stopEvent>> /\ kind # "cmd"
              \/ owed = "stop" /\ owed' = "cmd" /\ kind = "stop" /\ stopEvent' = posted + 1
              \/ owed = "cmd" /\ owed' = "none" /\ kind = "cmd" /\ stopEvent' = stopEvent
       PROVE  CallInv'
  <2>1. /\ UNCHANGED <<bounceQueue, bounceDequeueIndex, bounceEnqueueIndex, index, spc, wpc,
                       lastPolled, issuedAt>>
        /\ posted' = posted + 1 /\ hwIndex \in XHCEntries /\ (answered' <=> answered)
        /\ ring' = [ring EXCEPT ![hwIndex] = [event |-> [id |-> posted + 1, kind |-> kind], cycle |-> hwCycle]]
    BY <1>15 DEF HwPost, bounceVars, loopVars, callVars, Types
  <2>2. /\ ring'[hwIndex].event = [id |-> posted + 1, kind |-> kind]
        /\ \A i \in XHCEntries : i # hwIndex => ring'[i] = ring[i]
    BY <2>1 DEF Types
  <2>3. /\ \A i \in XHCEntries : OnXHC(i)' < Unread' => OnXHC(i) < Unread \/ i = hwIndex
        /\ Taken' = Taken
    BY <1>1, <1>15, RingPosted
  <2>4. lastPolled <= posted
    BY <1>3, Numbers DEF Types
  <2>5. InCall /\ answered => owed' = "none" /\ (stopEvent' # 0 => stopEvent' < Taken')
    BY <1>2, <1>15, <2>3
  <2>6. InCall /\ stopEvent' # 0 => lastPolled < stopEvent'
    BY <1>2, <1>3, <1>15, <2>4, Numbers DEF Types
  <2>7. ASSUME InCall, NEW i \in XHCEntries, OnXHC(i)' < Unread', ring'[i].event.kind = "cmd",
               ring'[i].event.id > issuedAt
        PROVE  owed' = "none" /\ stopEvent' < ring'[i].event.id
    <3>1. CASE i = hwIndex
      BY <1>3, <1>15, <2>2, <2>7, <3>1
    <3>2. CASE i # hwIndex
      BY <1>2, <1>15, <2>2, <2>3, <2>7, <3>2
    <3> QED BY <3>1, <3>2
  <2>8. InCall => issuedAt <= posted + 1
    BY <1>2, <1>3
  <2> QED BY <1>2, <1>5, <2>1, <2>5, <2>6, <2>7, <2>8 DEF CallInv, InCall, Scanning
<1>16. CASE HwEvent \/ HwStop \/ HwComplete
  BY <1>15, <1>16 DEF HwEvent, HwStop, HwComplete, Kinds
<1> QED BY <1>6, <1>7, <1>8, <1>9, <1>10, <1>11, <1>12, <1>13, <1>14, <1>16
        DEF Next, Filter, Loop, Call, Xhc

-----------------------------------------------------------------------------
\* What the booleans are, and that whoever must look at the bounce queue is told.
SignalInv == /\ signalled \in BOOLEAN /\ ignored \in BOOLEAN /\ invokeContinuation \in BOOLEAN
             /\ ContinuationInv

\* Every step leaves somebody who knows of what is on the bounce queue.
LEMMA SignalNext ==
  ASSUME SignalInv, [Next]_vars
  PROVE  SignalInv'
<1>1. /\ signalled \in BOOLEAN /\ ignored \in BOOLEAN /\ invokeContinuation \in BOOLEAN
      /\ bounceDequeueIndex # bounceEnqueueIndex => ignored \/ signalled \/ wpc # "idle" \/ invokeContinuation
      /\ fpc = "idle" => ~invokeContinuation
  BY DEF SignalInv, ContinuationInv, Told, BounceEmpty
<1>2. CASE FilterStart
  <2>1. /\ fpc = "idle" /\ fpc' = "loop" /\ ~invokeContinuation'
        /\ UNCHANGED <<bounceDequeueIndex, bounceEnqueueIndex, wpc>>
        /\ (signalled' <=> signalled) /\ signalled' \in BOOLEAN /\ (ignored' <=> ignored) /\ ignored' \in BOOLEAN
        /\ invokeContinuation' \in BOOLEAN
    BY <1>1, <1>2 DEF FilterStart, bounceVars, loopVars, histVars
  <2> QED BY <1>1, <2>1 DEF SignalInv, ContinuationInv, Told, BounceEmpty
<1>3. CASE FilterTake \/ FilterDrop \/ FilterStore \/ FilterLoopEnds
  <2>1. /\ fpc \in {"loop", "bounce"} /\ fpc' # "idle"
        /\ UNCHANGED <<bounceDequeueIndex, bounceEnqueueIndex, wpc>>
    BY <1>3 DEF FilterTake, FilterDrop, FilterStore, FilterLoopEnds, bounceVars, loopVars
  <2>2. /\ (signalled' <=> signalled) /\ signalled' \in BOOLEAN /\ (ignored' <=> ignored) /\ ignored' \in BOOLEAN
    BY <1>1, <1>3 DEF FilterTake, FilterDrop, FilterStore, FilterLoopEnds, loopVars, histVars
  <2>3. (invokeContinuation => invokeContinuation') /\ invokeContinuation' \in BOOLEAN
    <3>1. invokeContinuation' = invokeContinuation \/ invokeContinuation' = TRUE
      BY <1>3 DEF FilterTake, FilterDrop, FilterStore, FilterLoopEnds
    <3> QED BY <1>1, <3>1
  <2> QED BY <1>1, <2>1, <2>2, <2>3 DEF SignalInv, ContinuationInv, Told, BounceEmpty
<1>4. CASE FilterPublish
  <2>1. /\ fpc' = "loop" /\ invokeContinuation' /\ invokeContinuation' \in BOOLEAN
        /\ (signalled' <=> signalled) /\ signalled' \in BOOLEAN /\ (ignored' <=> ignored) /\ ignored' \in BOOLEAN
    BY <1>1, <1>4 DEF FilterPublish, Continue, loopVars, histVars
  <2> QED BY <2>1 DEF SignalInv, ContinuationInv, Told
<1>5. CASE FilterEnd
  <2>1. /\ UNCHANGED <<bounceDequeueIndex, bounceEnqueueIndex, wpc>>
        /\ ~invokeContinuation' /\ invokeContinuation' \in BOOLEAN
        /\ (signalled' <=> (signalled \/ invokeContinuation)) /\ signalled' \in BOOLEAN
        /\ (ignored' <=> ignored) /\ ignored' \in BOOLEAN
    BY <1>1, <1>5 DEF FilterEnd, bounceVars, histVars
  <2> QED BY <1>1, <2>1 DEF SignalInv, ContinuationInv, Told, BounceEmpty
<1>6. CASE InterruptHandler \/ PollTake \/ PollAdvance \/ PollAgain
  <2>1. wpc' # "idle" /\ fpc' = fpc
    BY <1>6 DEF InterruptHandler, PollTake, PollAdvance, PollAgain, filterVars
  <2>2. signalled' \in BOOLEAN
    <3>1. signalled' = signalled \/ signalled' = FALSE
      BY <1>6 DEF InterruptHandler, PollTake, PollAdvance, PollAgain
    <3> QED BY <1>1, <3>1
  <2>3. /\ (invokeContinuation' <=> invokeContinuation) /\ invokeContinuation' \in BOOLEAN
        /\ (ignored' <=> ignored) /\ ignored' \in BOOLEAN
    BY <1>1, <1>6 DEF InterruptHandler, PollTake, PollAdvance, PollAgain, filterVars, histVars
  <2> QED BY <1>1, <2>1, <2>2, <2>3 DEF SignalInv, ContinuationInv, Told
<1>7. CASE PollDone
  <2>1. /\ bounceDequeueIndex' = bounceEnqueueIndex' /\ fpc' = fpc
        /\ signalled' \in BOOLEAN /\ ignored' \in BOOLEAN
        /\ (invokeContinuation' <=> invokeContinuation) /\ invokeContinuation' \in BOOLEAN
    BY <1>1, <1>7 DEF PollDone, BounceEmpty, bounceVars, filterVars, histVars
  <2> QED BY <1>1, <2>1 DEF SignalInv, ContinuationInv, Told, BounceEmpty
<1>8. CASE InitEventRing
  <2>1. /\ UNCHANGED <<bounceDequeueIndex, bounceEnqueueIndex, wpc, fpc>>
        /\ (invokeContinuation' <=> invokeContinuation) /\ invokeContinuation' \in BOOLEAN
        /\ signalled' \in {signalled, FALSE} /\ ignored' = (ignored \/ signalled' # signalled)
    BY <1>1, <1>8 DEF InitEventRing, bounceVars, filterVars
  <2>2. signalled' \in BOOLEAN /\ ignored' \in BOOLEAN /\ (ignored => ignored') /\ (signalled => signalled' \/ ignored')
    BY <1>1, <2>1
  <2> QED BY <1>1, <2>1, <2>2 DEF SignalInv, ContinuationInv, Told, BounceEmpty
<1>9. CASE StopEndpoint \/ WaitEnds \/ ScanEntry \/ ScanEnds \/ HwEvent \/ HwStop \/ HwComplete \/ HwInterrupt
           \/ UNCHANGED vars
  <2>1. /\ UNCHANGED <<bounceDequeueIndex, bounceEnqueueIndex, wpc, fpc>>
        /\ (invokeContinuation' <=> invokeContinuation) /\ invokeContinuation' \in BOOLEAN
        /\ (signalled' <=> signalled) /\ signalled' \in BOOLEAN /\ (ignored' <=> ignored) /\ ignored' \in BOOLEAN
    BY <1>1, <1>9 DEF StopEndpoint, WaitEnds, ScanEntry, ScanEnds, HwEvent, HwStop, HwComplete,
                      HwPost, HwInterrupt,
                      bounceVars, filterVars, loopVars, histVars, vars
  <2> QED BY <1>1, <2>1 DEF SignalInv, ContinuationInv, Told, BounceEmpty
<1> QED BY <1>2, <1>3, <1>4, <1>5, <1>6, <1>7, <1>8, <1>9 DEF Next, Filter, Loop, Call, Xhc

-----------------------------------------------------------------------------
Correct == Types /\ EventInv /\ KindInv /\ CallInv

\* At the start both queues are empty.
LEMMA CorrectInit == Init => Correct /\ SignalInv
<1> SUFFICES ASSUME Init PROVE Correct /\ SignalInv
  OBVIOUS
<1>1. Types
  BY DEF Init, Types, XHCEntries, BounceEntries, EmptyRing, Events, Cleared
<1>2. Taken = 0 /\ Unread = 0 /\ Waiting = 0 /\ Filled = 0
  BY DEF Init, Taken, Unread, OnXHC, Waiting, Filled, OnBounce, Ahead
<1>3. /\ \A i \in XHCEntries : ~(OnXHC(i) < Unread)
      /\ \A i \in BounceEntries : ~(OnBounce(i) < Filled)
  BY <1>1, <1>2, OnXHCRange, OnBounceRange
<1>4. RingInv
  <2>1. \A i \in XHCEntries : ring[i].cycle = IF i < hwIndex THEN hwCycle ELSE 1 - hwCycle
    BY DEF Init, EmptyRing, XHCEntries
  <2>2. Ahead(xHCDequeueIndex, erdp, NumXHCEntries) <= Ahead(hwIndex, erdp, NumXHCEntries)
    BY DEF Init, Ahead
  <2>3. cycleState = IF xHCDequeueIndex <= hwIndex THEN hwCycle ELSE 1 - hwCycle
    BY DEF Init
  <2> QED BY <1>2, <1>3, <2>1, <2>2, <2>3 DEF RingInv
<1>5. QueueInv
  BY <1>2, <1>3 DEF Init, QueueInv
<1>6. NothingForgotten
  BY <1>2 DEF NothingForgotten
<1>7. KindInv
  BY <1>3 DEF Init, KindInv
<1>8. CallInv
  BY DEF Init, CallInv, InCall, Scanning
<1>9. SignalInv
  BY DEF Init, SignalInv, ContinuationInv, Told, BounceEmpty
<1> QED BY <1>1, <1>4, <1>5, <1>6, <1>7, <1>8, <1>9 DEF Correct, EventInv

\* The ring and the bounce queue keep the events, in order and each in one place, whatever
\* filter, work loop, Stop Endpoint calls, restarts and xHC do (Interrupts.cpp).
THEOREM EventsKept == Spec => []Correct
<1>1. Correct /\ [Next]_vars => Correct'
  BY EventNext, KindNext, CallNext DEF Correct
<1> QED BY <1>1, CorrectInit, PTL DEF Spec

\* No event disappears: what has left the ring was dealt with, was lost to a full bounce
\* queue or a restart, or is still in somebody's hands or on the bounce queue.
THEOREM NoEventForgotten == Spec => []NothingForgotten
BY EventsKept, PTL DEF Correct, EventInv

\* The work loop handles the events left to it in the order in which they were posted, and
\* none that PollForCMDCompletions has dealt with.
THEOREM EventsPolledInOrder == Spec => PolledInOrder
<1>1. Correct /\ [Next]_vars => [lastPolled' # lastPolled => lastPolled' > lastPolled /\ lastPolled' \notin settled]_vars
  <2> SUFFICES ASSUME Correct, Next, lastPolled' # lastPolled
               PROVE  lastPolled' > lastPolled /\ lastPolled' \notin settled
    BY DEF vars, histVars
  <2>1. PollAdvance
    BY DEF Next, Filter, Loop, Call, Xhc, FilterStart, FilterTake, FilterDrop, FilterStore,
           FilterPublish,
           FilterLoopEnds, FilterEnd, InterruptHandler, PollTake, PollAgain, PollDone, StopEndpoint, WaitEnds,
           ScanEntry, ScanEnds, InitEventRing, HwEvent, HwStop, HwComplete, HwPost, HwInterrupt, histVars
  <2>2. UNCHANGED <<ring, xHCDequeueIndex, cycleState, hwIndex, hwCycle, erdp, posted>>
    BY <2>1 DEF PollAdvance, ringVars, hwVars
  <2>3. Taken' = Taken
    BY <2>2, RingStays DEF Correct, EventInv
  <2> QED BY <2>1, <2>3, AdvanceQueue DEF Correct, EventInv, RingInv
<1> QED BY <1>1, EventsKept, PTL DEF Spec, PolledInOrder

\* When a Stop Endpoint command has completed, the scan of the bounce queue has found the stop
\* event, before the work loop could, unless it was lost to a full queue.
THEOREM StopAlwaysScooped == Spec => StopScooped
<1>1. Correct /\ [Next]_vars =>
        [spc = "scan" /\ spc' = "idle" /\ stopEvent # 0 =>
           stopEvent \in lost \/ (stopEvent \in settled /\ lastPolled < stopEvent)]_vars
  <2> SUFFICES ASSUME Correct, Next, spc = "scan", spc' = "idle", stopEvent # 0
               PROVE  stopEvent \in lost \/ (stopEvent \in settled /\ lastPolled < stopEvent)
    BY DEF vars, callVars
  <2>1. ScanEnds
    BY DEF Next, Filter, Loop, Call, Xhc, FilterStart, FilterTake, FilterDrop, FilterStore,
           FilterPublish,
           FilterLoopEnds, FilterEnd, InterruptHandler, PollTake, PollAdvance, PollAgain, PollDone, StopEndpoint, WaitEnds,
           ScanEntry, InitEventRing, HwEvent, HwStop, HwComplete, HwPost, HwInterrupt, callVars
  <2>2. index = bounceEnqueueIndex
    BY <2>1 DEF ScanEnds
  <2>3. /\ wpc # "advance" /\ lastPolled < stopEvent /\ stopEvent < Taken
        /\ \A i \in BounceEntries : OnBounce(i) < Waiting => bounceQueue[i].kind # "stop"
    BY <2>2 DEF Correct, CallInv, InCall, Scanning, Waiting
  <2>4. Types /\ QueueInv /\ NothingForgotten /\ Taken \in Nat /\ KindInv
    BY DEF Correct, EventInv, RingInv
  <2>5. stopEvent \in 1 .. Taken /\ stopEvent # Taken
    <3>1. stopEvent \in Nat
      BY <2>4 DEF KindInv, Types
    <3> QED BY <2>3, <2>4, <3>1
  <2>6. ~InHand(stopEvent)
    <3> SUFFICES ASSUME NEW i \in BounceEntries, OnBounce(i) < Filled, bounceQueue[i].id = stopEvent PROVE FALSE
      BY <2>3, <2>5 DEF InHand
    <3>1. bounceQueue[i].kind = "stop"
      BY <2>4 DEF KindInv, StopIs
    <3>2. ~(OnBounce(i) < Waiting)
      BY <2>3, <3>1
    <3>3. fpc = "publish" /\ i = bounceEnqueueIndex
      BY <2>4, <3>2, QueueEntries DEF Filled
    <3> QED BY <2>4, <2>5, <3>3 DEF QueueInv
  <2> QED BY <2>3, <2>4, <2>5, <2>6 DEF NothingForgotten
<1> QED BY <1>1, EventsKept, PTL DEF Spec, StopScooped

\* Events never wait on the bounce queue for a work loop that was not told.
THEOREM ContinuationNeverLost == Spec => []NoLostContinuation
<1>1. SignalInv /\ [Next]_vars => SignalInv'
  BY SignalNext
<1>2. SignalInv => NoLostContinuation
  BY DEF SignalInv, ContinuationInv, Told, NoLostContinuation
<1> QED BY <1>1, <1>2, CorrectInit, PTL DEF Spec
=============================================================================

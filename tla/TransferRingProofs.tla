--------------------------- MODULE TransferRingProofs ---------------------------
(***************************************************************************)
(* Theorems about TransferRing, for every MaxTD and NumTRBs with more than   *)
(* two TDs' room and for every bound: types, the room for a TD, that nothing *)
(* closed stays hidden from the xHC, that it runs the TRBs in order, that    *)
(* events find their TDs, that nothing is stranded, and that an idle ring    *)
(* takes any TD.                                                           *)
(*                                                                         *)
(* The invariant has two halves. The driver's (DriverInv) says where the     *)
(* fragment being laid out lies, that the rest of its TD has room, and what  *)
(* cycle bit every slot of the ring has. The xHC's (ViewInv) says that the   *)
(* closed TRBs form one run of consecutive numbers with the xHC somewhere in *)
(* it, and how the scheduled TDs and the posted events lie along that run.   *)
(* The first half stands on its own, the second needs the first.             *)
(***************************************************************************)
EXTENDS TransferRing, TLAPS, SequenceTheorems

-----------------------------------------------------------------------------
(* The room for a TD.                                                      *)

\* The TRBs of the fragment being laid out, and those that the TD still needs slots for.
Length == IF first = None THEN 0
          ELSE IF enqueueIndex = 0 THEN Link - first ELSE enqueueIndex - first
Owed == IF dpc = "fill" THEN left - 1 ELSE left

\* The ways in which the rest of a TD finds its slots: before dequeueIndex, before the end of
\* the ring (the last slot only when dequeueIndex has left the first one), or, when the whole
\* TD finds them before dequeueIndex, anywhere, since a fragment can be moved there.
Room(d, e, owed) ==
  \/ e < d /\ owed <= d - 1 - e /\ (e = 0 => first = None)
  \/ d = 0 /\ owed <= Link - 1 - e /\ (e = 0 => first = None)
  \/ 0 < d /\ d <= e /\ owed <= Link - e
  \/ 0 < d /\ e = 0 /\ owed = 0
  \/ MaxTD <= d - 1 /\ (d <= e \/ (e = 0 /\ first # None))

LayInv ==
  /\ dpc # "idle" => /\ Room(dequeueIndex, enqueueIndex, Owed)
                     /\ Length + Owed <= MaxTD
                     /\ written + left <= MaxTRBs
  /\ first # None => enqueueIndex = 0 \/ first < enqueueIndex
  /\ dpc \in {"next", "relink", "fill"} => left >= 1
  /\ dpc \in {"relink", "fill", "close"} => first # None
  /\ dpc = "close" => written >= 1
  /\ dpc = "relink" => enqueueIndex = 0
  /\ dpc = "idle" => first = None
  /\ trbs[Link].kind = "link"

\* The sizes, as the prover needs them.
LEMMA Sizes ==
  /\ Link \in Nat /\ Link >= 2 * MaxTD /\ Link >= 3 /\ MaxTD \in Nat /\ MaxTD >= 1
  /\ NumTRBs = Link + 1 /\ MaxTRBs \in Nat /\ MaxReinits \in Nat
  /\ Slots = 0 .. Link - 1 /\ 0 \in Slots /\ Link \in 0 .. Link
  /\ None = -1 /\ None \notin Slots
BY MaxTDAssumption, NumTRBsAssumption, BoundsAssumption DEF Link, Slots, None

\* What is left of a sequence without its first k elements.
LEMMA DropFirst ==
  ASSUME NEW S, NEW s \in Seq(S), NEW k \in DOMAIN s
  PROVE  /\ SubSeq(s, k + 1, Len(s)) \in Seq(S)
         /\ Len(SubSeq(s, k + 1, Len(s))) = Len(s) - k
         /\ \A i \in 1 .. Len(s) - k : SubSeq(s, k + 1, Len(s))[i] = s[k + i]
<1>1. k \in 1 .. Len(s) /\ Len(s) \in Nat /\ k + 1 \in Int /\ \A i \in k + 1 .. Len(s) : s[i] \in S
  OBVIOUS
<1> DEFINE m == k + 1
           n == Len(s)
<1>2. /\ SubSeq(s, m, n) \in Seq(S)
      /\ Len(SubSeq(s, m, n)) = IF m <= n THEN n - m + 1 ELSE 0
      /\ \A i \in 1 .. n - m + 1 : SubSeq(s, m, n)[i] = s[m + i - 1]
  BY <1>1, SubSeqProperties
<1>3. ASSUME NEW i \in 1 .. n - k PROVE SubSeq(s, m, n)[i] = s[k + i]
  <2>1. i \in 1 .. n - m + 1 /\ m + i - 1 = k + i
    BY SMTT(30), <1>1
  <2> QED BY <1>2, <2>1
<1>4. Len(SubSeq(s, m, n)) = n - k
  <2> DEFINE length == Len(SubSeq(s, m, n))
  <2>1. length = IF m <= n THEN n - m + 1 ELSE 0
    BY <1>2
  <2>2. m = k + 1
    OBVIOUS
  <2> HIDE DEF length, m, n
  <2>3. n \in Nat /\ k \in 1 .. n
    BY <1>1 DEF n
  <2>4. length = n - k
    BY <2>1, <2>2, <2>3
  <2> QED BY <2>4 DEF length
<1> QED BY <1>2, <1>3, <1>4

\* The index dequeueIndex advances to is a slot, never the link TRB.
LEMMA NextInSlots == ASSUME NEW i \in Slots PROVE NextDQ(i) \in Slots
BY Sizes DEF NextDQ

\* A ring just initialised has its types and no open fragment.
LEMMA InitTypes == Init => TypeOK /\ LayInv
<1> SUFFICES ASSUME Init PROVE TypeOK /\ LayInv
  OBVIOUS
<1>1. EmptyRing \in [0 .. Link -> TRB] /\ EmptyRing[Link].kind = "link"
  BY Sizes DEF EmptyRing, TRB, Blank, LinkTRB
<1> QED BY <1>1, Sizes DEF Init, TypeOK, LayInv

-----------------------------------------------------------------------------
(* Laying out a TD.                                                        *)

\* A TD that CanTDFragmentFit lets through starts with room for all its TRBs.
LEMMA ScheduleTypes == TypeOK /\ LayInv /\ ScheduleTD => TypeOK' /\ LayInv'
<1> SUFFICES ASSUME TypeOK, LayInv, ScheduleTD PROVE TypeOK' /\ LayInv'
  OBVIOUS
<1>1. PICK n \in TDSizes : written + n <= MaxTRBs /\ left' = n
  BY DEF ScheduleTD
<1>2. n \in 1 .. MaxTD
  BY <1>1 DEF TDSizes
<1>3. /\ dpc = "idle" /\ MaxTD <= NumFit /\ dpc' = "next" /\ first' = None /\ tdStart' = closed
      /\ UNCHANGED <<ringVars, slot, written, hwVars, closed, ran, torn, suspect, reinits>>
  BY DEF ScheduleTD, CanTDFragmentFit
<1>4. TypeOK'
  BY <1>1, <1>2, <1>3, Sizes DEF TypeOK, ringVars, hwVars
<1>5. Room(dequeueIndex, enqueueIndex, Owed)'
  <2> DEFINE d == dequeueIndex
             e == enqueueIndex
  <2>1. enqueueIndex' = e /\ dequeueIndex' = d /\ Owed' = n /\ first' = None
    BY <1>1, <1>3 DEF ringVars, Owed
  <2>2. e \in Slots /\ d \in Slots
    BY DEF TypeOK
  <2>3. e \in Int /\ d \in Int /\ 0 <= e /\ 0 <= d /\ e < Link /\ d < Link /\ n \in Int /\ n <= MaxTD
    BY <1>2, <2>2, Sizes
  <2>4. \/ e < d /\ MaxTD <= d - 1 - e
        \/ d = 0 /\ d <= e /\ MaxTD <= Link - 1 - e
        \/ d > 0 /\ d <= e /\ (MaxTD <= d - 1 \/ MaxTD <= Link - e)
    BY <1>3, <2>3, Sizes DEF NumFit
  <2> HIDE DEF d, e
  <2>5. \/ e < d /\ n <= d - 1 - e
        \/ d = 0 /\ n <= Link - 1 - e
        \/ 0 < d /\ d <= e /\ n <= Link - e
        \/ MaxTD <= d - 1 /\ d <= e
    BY <2>3, <2>4, Sizes
  <2> QED BY <2>1, <2>5 DEF Room
<1>6. Length' + Owed' <= MaxTD
  BY <1>1, <1>2, <1>3, Sizes DEF Length, Owed
<1>7. LayInv'
  BY <1>1, <1>2, <1>3, <1>5, <1>6, Sizes DEF LayInv, ringVars
<1> QED BY <1>4, <1>7

\* A TD that CanTDFragmentFit let through finds room for each of its TRBs.
LEMMA NeverFull == TypeOK /\ LayInv /\ dpc = "next" => ~QueueFull
<1> SUFFICES ASSUME TypeOK, LayInv, dpc = "next" PROVE ~QueueFull
  OBVIOUS
<1>1. /\ enqueueIndex \in Slots /\ dequeueIndex \in Slots /\ first \in Slots \cup {None} /\ left \in Nat
      /\ Room(dequeueIndex, enqueueIndex, left) /\ Length + left <= MaxTD /\ left >= 1
      /\ first # None => enqueueIndex = 0 \/ first < enqueueIndex
  BY Sizes DEF TypeOK, LayInv, Owed
<1>2. ~(AtLast /\ dequeueIndex = 0)
  BY <1>1, Sizes DEF AtLast, Room
<1>3. ~(~AtLast /\ MustMove /\ dequeueIndex < Link - first + 2)
  BY <1>1, Sizes DEF MustMove, Room, Length
<1>4. ~(~AtLast /\ ~MustMove /\ enqueueIndex + 1 = dequeueIndex)
  BY <1>1, Sizes DEF AtLast, MustMove, Room
<1> QED BY <1>2, <1>3, <1>4 DEF QueueFull

\* GetNextTRB in the middle of the ring uses one slot of the room there is.
LEMMA TakeNextTypes == TypeOK /\ LayInv /\ TakeNext => TypeOK' /\ LayInv'
<1> SUFFICES ASSUME TypeOK, LayInv, TakeNext PROVE TypeOK' /\ LayInv'
  OBVIOUS
<1>1. /\ dpc = "next" /\ enqueueIndex # Link - 1 /\ ~(enqueueIndex = 0 /\ first # None)
      /\ slot' = enqueueIndex /\ first' = (IF first = None THEN enqueueIndex ELSE first) /\ dpc' = "fill"
      /\ trbs' = [trbs EXCEPT ![enqueueIndex] = Blank(trbs[enqueueIndex].cycle)]
      /\ enqueueIndex' = enqueueIndex + 1
      /\ UNCHANGED <<dequeueIndex, cycleState, tds, left, written, hwVars, histVars>>
  BY DEF TakeNext, AtLast, MustMove, Take
<1>2. /\ enqueueIndex \in Slots /\ dequeueIndex \in Slots /\ first \in Slots \cup {None} /\ left \in Nat
      /\ Room(dequeueIndex, enqueueIndex, left) /\ Length + left <= MaxTD /\ left >= 1
      /\ first # None => enqueueIndex = 0 \/ first < enqueueIndex
  BY <1>1, Sizes DEF TypeOK, LayInv, Owed
<1>3. trbs' \in [0 .. Link -> TRB] /\ trbs'[Link] = trbs[Link]
  BY <1>1, <1>2, Sizes DEF TypeOK, TRB, Blank
<1>4. enqueueIndex' \in Slots
  BY <1>1, <1>2, Sizes
<1>5. TypeOK'
  BY <1>1, <1>2, <1>3, <1>4, Sizes DEF TypeOK, hwVars, histVars
<1>6. Room(dequeueIndex', enqueueIndex', Owed') /\ Length' + Owed' <= MaxTD
  BY <1>1, <1>2, Sizes DEF Room, Length, Owed
<1>6a. Room(dequeueIndex, enqueueIndex, Owed)'
  BY <1>1, <1>2, Sizes DEF Room, Owed
<1>7. LayInv'
  BY <1>1, <1>2, <1>3, <1>6, <1>6a, Sizes DEF LayInv
<1> QED BY <1>5, <1>7

\* GetNextTRB in the last slot sets the link TRB's cycle bit and goes round.
LEMMA TakeLastTypes == TypeOK /\ LayInv /\ TakeLast => TypeOK' /\ LayInv'
<1> SUFFICES ASSUME TypeOK, LayInv, TakeLast PROVE TypeOK' /\ LayInv'
  OBVIOUS
<1>1. /\ dpc = "next" /\ enqueueIndex = Link - 1
      /\ slot' = enqueueIndex /\ first' = (IF first = None THEN enqueueIndex ELSE first) /\ dpc' = "fill"
      /\ trbs' = [trbs EXCEPT ![Link].cycle = cycleState, ![enqueueIndex] = Blank(@.cycle)]
      /\ enqueueIndex' = 0 /\ cycleState' = 1 - cycleState
      /\ UNCHANGED <<dequeueIndex, tds, left, written, hwVars, histVars>>
  BY DEF TakeLast, AtLast, Take, LinkCycle
<1>2. /\ enqueueIndex \in Slots /\ dequeueIndex \in Slots /\ first \in Slots \cup {None} /\ left \in Nat
      /\ Room(dequeueIndex, enqueueIndex, left) /\ Length + left <= MaxTD /\ left >= 1
      /\ first # None => enqueueIndex = 0 \/ first < enqueueIndex
      /\ cycleState \in 0 .. 1
  BY <1>1, Sizes DEF TypeOK, LayInv, Owed
<1>3. trbs' \in [0 .. Link -> TRB] /\ trbs'[Link].kind = "link"
  <2>1. trbs \in [0 .. Link -> TRB] /\ trbs[Link].kind = "link"
    BY DEF TypeOK, LayInv
  <2>2. Link \in 0 .. Link /\ enqueueIndex \in 0 .. Link /\ enqueueIndex # Link
    BY <1>1, Sizes
  <2>3. /\ [trbs[Link] EXCEPT !.cycle = cycleState] \in TRB
        /\ [trbs[Link] EXCEPT !.cycle = cycleState].kind = "link"
    BY <1>2, <2>1, <2>2 DEF TRB
  <2>4. Blank(trbs[enqueueIndex].cycle) \in TRB
    BY <2>1, <2>2, Sizes DEF TRB, Blank
  <2>5. trbs' = [trbs EXCEPT ![Link] = [trbs[Link] EXCEPT !.cycle = cycleState],
                             ![enqueueIndex] = Blank(trbs[enqueueIndex].cycle)]
    BY <1>1, <2>1, <2>2
  <2> QED BY <2>1, <2>2, <2>3, <2>4, <2>5
<1>4. cycleState' \in 0 .. 1 /\ slot' \in Slots /\ first' \in Slots \cup {None} /\ enqueueIndex' \in Slots
  BY <1>1, <1>2, Sizes
<1>5. TypeOK'
  BY <1>1, <1>3, <1>4 DEF TypeOK, hwVars, histVars
<1>6. Room(dequeueIndex, enqueueIndex, Owed)'
  BY <1>1, <1>2, Sizes DEF Room, Owed
<1>7. Length' + Owed' <= MaxTD
  <2>1. Owed' = left - 1 /\ enqueueIndex' = 0 /\ enqueueIndex # 0
    BY <1>1, Sizes DEF Owed
  <2>2. CASE first = None
    <3>1. Length' = Link - (Link - 1)
      BY <1>1, <2>1, <2>2, Sizes DEF Length
    <3>2. Length = 0
      BY <2>2 DEF Length
    <3> QED BY <1>2, <2>1, <3>1, <3>2, Sizes
  <2>3. CASE first # None
    <3>1. Length' = Link - first /\ Length = Link - 1 - first /\ first \in Int
      BY <1>1, <1>2, <2>1, <2>3, Sizes DEF Length
    <3> QED BY <1>2, <2>1, <3>1, Sizes
  <2> QED BY <2>2, <2>3
<1>8. LayInv'
  BY <1>1, <1>2, <1>3, <1>6, <1>7, Sizes DEF LayInv
<1> QED BY <1>5, <1>8

\* The copies of a moved fragment end before the link TRB.
LEMMA MoveTypes == TypeOK /\ LayInv /\ MoveFragment => TypeOK' /\ LayInv'
<1> SUFFICES ASSUME TypeOK, LayInv, MoveFragment PROVE TypeOK' /\ LayInv'
  OBVIOUS
<1>1. /\ dpc = "next" /\ enqueueIndex = 0 /\ first # None /\ dpc' = "relink"
      /\ trbs' = [i \in 0 .. Link |-> IF i < Link - first THEN Moved(trbs[first + i]) ELSE trbs[i]]
      /\ UNCHANGED <<enqueueIndex, dequeueIndex, cycleState, tds, first, slot, left, written,
                     hwVars, histVars>>
  BY DEF MoveFragment, MustMove
<1>2. first \in Slots /\ first \in Int
  BY <1>1, Sizes DEF TypeOK
<1>3. trbs' \in [0 .. Link -> TRB] /\ trbs'[Link] = trbs[Link]
  <2>1. trbs \in [0 .. Link -> TRB]
    BY DEF TypeOK
  <2>2. ASSUME NEW i \in 0 .. Link, i < Link - first PROVE Moved(trbs[first + i]) \in TRB
    <3>1. first + i \in 0 .. Link
      BY <1>2, <2>2, Sizes
    <3>2. trbs[first + i] \in TRB
      BY <2>1, <3>1
    <3> QED BY <3>2 DEF Moved, TRB
  <2>3. ~(Link < Link - first)
    BY <1>2, Sizes
  <2> QED BY <1>1, <2>1, <2>2, <2>3, Sizes
<1>4. TypeOK'
  BY <1>1, <1>3 DEF TypeOK, hwVars, histVars
<1>5. Room(dequeueIndex, enqueueIndex, Owed)' /\ Length' + Owed' <= MaxTD
  BY <1>1 DEF LayInv, Room, Length, Owed
<1>6. LayInv'
  BY <1>1, <1>3, <1>5 DEF LayInv
<1> QED BY <1>4, <1>6

\* The copies of a moved fragment end long before the fragment itself.
LEMMA MovedFits ==
  ASSUME TypeOK, LayInv, dpc = "relink"
  PROVE  /\ first \in Slots /\ enqueueIndex = 0 /\ left >= 1 /\ MaxTD <= dequeueIndex - 1
         /\ Link - first + left <= MaxTD
         /\ Link - first \in Slots /\ Link - first + 1 \in Slots /\ Link - first + 1 < first
         /\ Link - first >= 1
<1>1. /\ enqueueIndex = 0 /\ dequeueIndex \in Slots /\ first \in Slots /\ left \in Nat /\ first # None
      /\ Room(dequeueIndex, enqueueIndex, left) /\ Length + left <= MaxTD /\ left >= 1
  BY Sizes DEF TypeOK, LayInv, Owed
<1>2. MaxTD <= dequeueIndex - 1
  BY <1>1, Sizes DEF Room
<1>3. Link - first + left <= MaxTD
  BY <1>1 DEF Length
<1>4. first \in Int /\ 0 <= first /\ first <= Link - 1
  BY <1>1, Sizes
<1>5. /\ Link - first \in Slots /\ Link - first + 1 \in Slots /\ Link - first + 1 < first
      /\ Link - first >= 1
  BY <1>1, <1>3, <1>4, Sizes
<1> QED BY <1>1, <1>2, <1>3, <1>5

\* The link TRB that replaces the first TRB of a moved fragment is before its end.
LEMMA RelinkTypes == TypeOK /\ LayInv /\ Relink => TypeOK' /\ LayInv'
<1> SUFFICES ASSUME TypeOK, LayInv, Relink PROVE TypeOK' /\ LayInv'
  OBVIOUS
<1> DEFINE next == Link - first
<1>1. /\ dpc = "relink" /\ dpc' = "fill" /\ first' = 0 /\ slot' = next /\ enqueueIndex' = next + 1
      /\ trbs' = [trbs EXCEPT ![first] = trbs[Link], ![next] = Blank(@.cycle)]
      /\ UNCHANGED <<dequeueIndex, cycleState, tds, left, written, hwVars, histVars>>
  BY DEF Relink
<1>2. /\ first \in Slots /\ enqueueIndex = 0 /\ left >= 1 /\ MaxTD <= dequeueIndex - 1
      /\ next + left <= MaxTD /\ next \in Slots /\ next + 1 \in Slots /\ next + 1 < first /\ next >= 1
      /\ left \in Nat /\ dequeueIndex \in Slots /\ next \in Int
  BY <1>1, MovedFits, Sizes DEF TypeOK
<1> HIDE DEF next
<1>3. trbs' \in [0 .. Link -> TRB] /\ trbs'[Link] = trbs[Link]
  <2>1. trbs \in [0 .. Link -> TRB] /\ first \in 0 .. Link /\ next \in 0 .. Link /\ first # Link /\ next # Link
    BY <1>2, Sizes DEF TypeOK
  <2>2. \A t \in TRB : Blank(t.cycle) \in TRB
    BY Sizes DEF TRB, Blank
  <2> QED BY <1>1, <2>1, <2>2, Sizes
<1>4. TypeOK'
  BY <1>1, <1>2, <1>3, Sizes DEF TypeOK, hwVars, histVars
<1>5. Room(dequeueIndex, enqueueIndex, Owed)'
  <2>1. Owed' = left - 1 /\ enqueueIndex' = next + 1 /\ dequeueIndex' = dequeueIndex
    BY <1>1 DEF Owed
  <2>2. next + 1 < dequeueIndex /\ left - 1 <= dequeueIndex - 1 - (next + 1) /\ next + 1 # 0
    BY <1>2, Sizes
  <2> QED BY <2>1, <2>2 DEF Room
<1>6. Length' + Owed' <= MaxTD
  <2>0. first' # None /\ enqueueIndex' # 0 /\ first' = 0 /\ enqueueIndex' = next + 1
    BY <1>1, <1>2, Sizes
  <2>a. dpc' = "fill" /\ left' = left
    BY <1>1
  <2>1. Owed' = left - 1 /\ Length' = next + 1 - 0
    BY <2>0, <2>a DEF Owed, Length
  <2> QED BY <1>2, <2>1, Sizes
<1>7. LayInv'
  BY <1>1, <1>2, <1>3, <1>5, <1>6, Sizes DEF LayInv
<1> QED BY <1>4, <1>7

\* The words of a TRB go to a slot; the link TRB stays what it is.
LEMMA FillTypes == TypeOK /\ LayInv /\ Fill => TypeOK' /\ LayInv'
<1> SUFFICES ASSUME TypeOK, LayInv, Fill PROVE TypeOK' /\ LayInv'
  OBVIOUS
<1>1. /\ dpc = "fill" /\ written' = written + 1 /\ left' = left - 1
      /\ trbs' = [trbs EXCEPT ![slot] = [kind |-> "trb", id |-> written + 1, last |-> left = 1,
                                         cycle |-> FillCycle(@.cycle)]]
      /\ dpc' \in {"next", "close"} /\ (dpc' = "next" => left > 1)
      /\ UNCHANGED <<enqueueIndex, dequeueIndex, cycleState, tds, first, slot, hwVars, histVars>>
  BY DEF Fill
<1>2. /\ left \in Nat /\ left >= 1 /\ left <= MaxTD /\ written \in Nat /\ written + left <= MaxTRBs
      /\ first # None /\ slot \in Slots
      /\ Room(dequeueIndex, enqueueIndex, left - 1) /\ Length + (left - 1) <= MaxTD
      /\ first # None => enqueueIndex = 0 \/ first < enqueueIndex
  BY <1>1, Sizes DEF TypeOK, LayInv, Owed
<1>3. trbs' \in [0 .. Link -> TRB] /\ trbs'[Link] = trbs[Link]
  <2>1. trbs \in [0 .. Link -> TRB] /\ slot \in 0 .. Link /\ slot # Link
    BY <1>2, Sizes DEF TypeOK
  <2>2. FillCycle(trbs[slot].cycle) \in 0 .. 1
    BY <2>1 DEF FillCycle, TRB
  <2>3. (left = 1) \in BOOLEAN /\ written + 1 \in 0 .. MaxTRBs
    BY <1>2, Sizes
  <2>4. [kind |-> "trb", id |-> written + 1, last |-> left = 1, cycle |-> FillCycle(trbs[slot].cycle)] \in TRB
    BY <2>2, <2>3 DEF TRB
  <2> QED BY <1>1, <2>1, <2>4, Sizes
<1>4. TypeOK'
  BY <1>1, <1>2, <1>3, Sizes DEF TypeOK, hwVars, histVars
<1>5. Room(dequeueIndex, enqueueIndex, Owed)' /\ Length' + Owed' <= MaxTD
  BY <1>1, <1>2 DEF Room, Length, Owed
<1>6. LayInv'
  BY <1>1, <1>2, <1>3, <1>5, Sizes DEF LayInv
<1> QED BY <1>4, <1>6

\* CloseFragment writes one cycle bit and schedules the TD that is complete.
LEMMA CloseTypes == TypeOK /\ LayInv /\ CloseFragment => TypeOK' /\ LayInv'
<1> SUFFICES ASSUME TypeOK, LayInv, CloseFragment PROVE TypeOK' /\ LayInv'
  OBVIOUS
<1>1. /\ dpc = "close" /\ closed' = written /\ first' = None
      /\ trbs' = [trbs EXCEPT ![first].cycle = 1 - @]
      /\ \/ left > 0 /\ dpc' = "next" /\ tds' = tds /\ (armed' <=> armed)
         \/ ~(left > 0) /\ dpc' = "idle" /\ (armed' <=> TRUE)
            /\ tds' = Append(tds, [index |-> slot, id |-> written, flushed |-> FALSE])
      /\ UNCHANGED <<enqueueIndex, dequeueIndex, cycleState, slot, left, written,
                     hwIndex, hwCycle, events, tdStart, ran, torn, suspect, reinits>>
  BY DEF CloseFragment, LastTrbIndex, Doorbell
<1>1a. armed' \in BOOLEAN
  BY DEF CloseFragment, Doorbell, TypeOK
<1>2. /\ left \in Nat /\ left <= MaxTD /\ written \in Nat /\ written + left <= MaxTRBs /\ written >= 1
      /\ first \in Slots /\ slot \in Slots /\ enqueueIndex \in Slots /\ dequeueIndex \in Slots
      /\ Room(dequeueIndex, enqueueIndex, left) /\ Length + left <= MaxTD
      /\ first # None => enqueueIndex = 0 \/ first < enqueueIndex
  BY <1>1, Sizes DEF TypeOK, LayInv, Owed
<1>3. trbs' \in [0 .. Link -> TRB] /\ trbs'[Link] = trbs[Link]
  <2>1. trbs \in [0 .. Link -> TRB] /\ first \in 0 .. Link /\ first # Link
    BY <1>2, Sizes DEF TypeOK
  <2>2. [trbs[first] EXCEPT !.cycle = 1 - @] \in TRB
    BY <2>1 DEF TRB
  <2>3. trbs' = [trbs EXCEPT ![first] = [trbs[first] EXCEPT !.cycle = 1 - @]]
    BY <1>1, <2>1
  <2> QED BY <2>1, <2>2, <2>3
<1>4. tds' \in Seq([index : Slots, id : 1 .. MaxTRBs, flushed : BOOLEAN])
  <2>1. [index |-> slot, id |-> written, flushed |-> FALSE]
          \in [index : Slots, id : 1 .. MaxTRBs, flushed : BOOLEAN]
    BY <1>2, Sizes
  <2>2. tds \in Seq([index : Slots, id : 1 .. MaxTRBs, flushed : BOOLEAN])
    BY DEF TypeOK
  <2>3. tds' = tds \/ tds' = Append(tds, [index |-> slot, id |-> written, flushed |-> FALSE])
    BY <1>1
  <2> DEFINE TD == [index : Slots, id : 1 .. MaxTRBs, flushed : BOOLEAN]
             td == [index |-> slot, id |-> written, flushed |-> FALSE]
  <2> HIDE DEF TD, td
  <2>4. td \in TD /\ tds \in Seq(TD) /\ (tds' = tds \/ tds' = Append(tds, td))
    BY <2>1, <2>2, <2>3 DEF TD, td
  <2>5. tds' \in Seq(TD)
    BY <2>4, AppendProperties
  <2> QED BY <2>5 DEF TD
<1>5. TypeOK'
  BY <1>1, <1>1a, <1>2, <1>3, <1>4, Sizes DEF TypeOK
<1>6. left > 0 => Room(dequeueIndex, enqueueIndex, Owed)' /\ Length' + Owed' <= MaxTD
  <2>1. Length' = 0 /\ (left > 0 => Owed' = left)
    BY <1>1 DEF Length, Owed
  <2>2. /\ dequeueIndex' = dequeueIndex /\ enqueueIndex' = enqueueIndex /\ first' = None
        /\ dequeueIndex \in Int /\ enqueueIndex \in Int /\ 0 <= dequeueIndex /\ 0 <= enqueueIndex
        /\ left <= MaxTD
    BY <1>1, <1>2, Sizes
  <2>3. left > 0 => Room(dequeueIndex, enqueueIndex, Owed)'
    BY <1>2, <2>1, <2>2, Sizes DEF Room
  <2> QED BY <1>2, <2>1, <2>3, Sizes
<1>7. LayInv'
  BY SMTT(30), <1>1, <1>2, <1>3, <1>6, Sizes DEF LayInv
<1> QED BY <1>5, <1>7

\* PutBackTRB leaves the ring a ring: the link TRB stays the link TRB, and the TRBs that are
\* put back only lose their cycle bit.
LEMMA PutBackRing ==
  ASSUME TypeOK, PutBackTRB
  PROVE  /\ trbs' \in [0 .. Link -> TRB] /\ enqueueIndex' \in Slots /\ cycleState' \in 0 .. 1
         /\ trbs'[Link].kind = trbs[Link].kind
<1>1. /\ trbs \in [0 .. Link -> TRB] /\ enqueueIndex \in Slots /\ dequeueIndex \in Slots
      /\ cycleState \in 0 .. 1 /\ first \in Slots \cup {None}
  BY DEF TypeOK
<1>2. CASE first = None
  BY <1>1, <1>2 DEF PutBackTRB
<1>3. CASE first # None
  <2> DEFINE Passed(i) == Back(i) > 0 /\ Back(i) < Back(first) /\ Back(i) <= Back(dequeueIndex)
             Undone(i) == [trbs[i] EXCEPT !.cycle = 1 - TurnOf(i)]
  <2>1. /\ trbs' = [i \in 0 .. Link |-> IF Passed(i) THEN Undone(i) ELSE trbs[i]]
        /\ enqueueIndex' = (IF Back(dequeueIndex) < Back(first) THEN dequeueIndex ELSE first)
        /\ cycleState' = TurnOf(enqueueIndex')
    BY <1>3 DEF PutBackTRB
  <2>2. \A i : TurnOf(i) \in 0 .. 1
    BY <1>1 DEF TurnOf
  <2>3. ASSUME NEW i \in 0 .. Link PROVE Undone(i) \in TRB /\ Undone(i).kind = trbs[i].kind
    <3>1. trbs[i] \in TRB /\ 1 - TurnOf(i) \in 0 .. 1
      BY <1>1, <2>2
    <3> QED BY <3>1 DEF TRB
  <2> HIDE DEF Passed, Undone
  <2>4. trbs' \in [0 .. Link -> TRB]
    BY <1>1, <2>1, <2>3
  <2>5. trbs'[Link].kind = trbs[Link].kind
    BY <2>1, <2>3, Sizes
  <2> QED BY <1>1, <1>3, <2>1, <2>2, <2>4, <2>5
<1> QED BY <1>2, <1>3

\* A TD that _createTransfer gives up leaves a ring of the same shape.
LEMMA GiveUpTypes == TypeOK /\ LayInv /\ GiveUp => TypeOK' /\ LayInv'
<1> SUFFICES ASSUME TypeOK, LayInv, GiveUp PROVE TypeOK' /\ LayInv'
  OBVIOUS
<1>1. /\ PutBackTRB /\ dpc' = "idle" /\ first' = None /\ left' = 0 /\ written' = closed
      /\ UNCHANGED <<dequeueIndex, tds, slot, hwVars, closed, tdStart, ran, suspect, reinits>>
  BY DEF GiveUp
<1>2. torn' \in BOOLEAN
  BY DEF GiveUp, TypeOK
<1>3. /\ trbs' \in [0 .. Link -> TRB] /\ enqueueIndex' \in Slots /\ cycleState' \in 0 .. 1
      /\ trbs'[Link].kind = trbs[Link].kind
  BY <1>1, PutBackRing
<1>4. TypeOK'
  BY <1>1, <1>2, <1>3, Sizes DEF TypeOK, hwVars
<1>5. LayInv'
  BY <1>1, <1>3 DEF LayInv
<1> QED BY <1>4, <1>5

-----------------------------------------------------------------------------
(* Between two TDs, and the xHC.                                           *)

\* A step of the driver between two TDs keeps what LayInv says of the ring.
LEMMA IdleKeeps ==
  LayInv /\ dpc = "idle" /\ dpc' = "idle" /\ first' = first /\ trbs'[Link].kind = "link" => LayInv'
BY DEF LayInv

\* What SubSeq leaves of the scheduled TDs, and Tail of the events.
LEMMA ScheduleShrinks ==
  ASSUME TypeOK
  PROVE  /\ \A k \in DOMAIN tds :
              SubSeq(tds, k + 1, Len(tds)) \in Seq([index : Slots, id : 1 .. MaxTRBs, flushed : BOOLEAN])
         /\ \A k \in DOMAIN tds : tds[k].index \in Slots /\ tds[k].id \in 1 .. MaxTRBs
         /\ <<>> \in Seq([index : Slots, id : 1 .. MaxTRBs, flushed : BOOLEAN])
         /\ events # <<>> => Head(events) \in Slots /\ Tail(events) \in Seq(Slots)
<1> DEFINE TD == [index : Slots, id : 1 .. MaxTRBs, flushed : BOOLEAN]
<1>1. tds \in Seq(TD) /\ events \in Seq(Slots)
  BY DEF TypeOK
<1> HIDE DEF TD
<1>2. \A k \in DOMAIN tds : tds[k] \in TD
  BY <1>1, ElementOfSeq
<1>3. \A k \in DOMAIN tds : SubSeq(tds, k + 1, Len(tds)) \in Seq(TD)
  BY <1>1, DropFirst
<1>4. <<>> \in Seq(TD)
  OBVIOUS
<1>5. events # <<>> => Head(events) \in Slots /\ Tail(events) \in Seq(Slots)
  BY <1>1
<1> QED BY <1>2, <1>3, <1>4, <1>5 DEF TD

\* The k oldest TDs leave the ring, and of the others at most the flush flag changes.
Dropped(k) ==
  /\ tds' \in Seq([index : Slots, id : 1 .. MaxTRBs, flushed : BOOLEAN]) /\ Len(tds') = Len(tds) - k
  /\ \A j \in 1 .. Len(tds) - k : tds'[j].index = tds[k + j].index /\ tds'[j].id = tds[k + j].id

\* That is what retiring TDs does, ...
LEMMA RetireDrops ==
  ASSUME TypeOK, NEW k \in DOMAIN tds, tds' = SubSeq(tds, k + 1, Len(tds))
  PROVE  Dropped(k) /\ \A j \in 1 .. Len(tds) - k : tds'[j].flushed = tds[k + j].flushed
<1> DEFINE TD == [index : Slots, id : 1 .. MaxTRBs, flushed : BOOLEAN]
<1>1. tds \in Seq(TD)
  BY DEF TypeOK
<1> HIDE DEF TD
<1>2. /\ tds' \in Seq(TD) /\ Len(tds') = Len(tds) - k
      /\ \A j \in 1 .. Len(tds) - k : tds'[j] = tds[k + j]
  BY <1>1, DropFirst
<1> QED BY <1>2 DEF Dropped, TD

\* ... what the event of a flushed TD does, ...
LEMMA TailDrops ==
  ASSUME TypeOK, tds # <<>>, tds' = Tail(tds)
  PROVE  Dropped(1) /\ \A j \in 1 .. Len(tds) - 1 : tds'[j].flushed = tds[1 + j].flushed
<1> DEFINE TD == [index : Slots, id : 1 .. MaxTRBs, flushed : BOOLEAN]
<1>1. tds \in Seq(TD)
  BY DEF TypeOK
<1> HIDE DEF TD
<1>2. /\ tds' \in Seq(TD) /\ Len(tds') = Len(tds) - 1
      /\ \A j \in 1 .. Len(tds) - 1 : tds'[j] = tds[j + 1]
  BY <1>1, HeadTailProperties
<1>3. \A j \in 1 .. Len(tds) - 1 : j + 1 = 1 + j
  BY <1>1
<1> QED BY <1>2, <1>3 DEF Dropped, TD

\* ... and what a flush does that leaves the endpoint running.
LEMMA FlushDrops ==
  ASSUME TypeOK, NEW k \in DOMAIN tds, NEW m \in DOMAIN tds, tds' = FlushTDs(k, m)
  PROVE  /\ Dropped(k)
         /\ \A j \in 1 .. Len(tds) - k : k + j > m => tds'[j].flushed = tds[k + j].flushed
<1> DEFINE TD == [index : Slots, id : 1 .. MaxTRBs, flushed : BOOLEAN]
           n == Len(tds) - k
           td(j) == IF k + j <= m THEN [tds[k + j] EXCEPT !.flushed = TRUE] ELSE tds[k + j]
<1>1. tds \in Seq(TD)
  BY DEF TypeOK
<1>2. /\ DOMAIN tds = 1 .. Len(tds) /\ Len(tds) \in Nat /\ k \in Nat /\ 1 <= k /\ k <= Len(tds)
      /\ m \in Nat /\ n \in Nat
  BY <1>1
<1>3. \A j \in 1 .. n : k + j \in DOMAIN tds
  BY <1>2
<1>4. \A j \in DOMAIN tds : tds[j] \in TD
  <2> HIDE DEF TD
  <2> QED BY <1>1, ElementOfSeq
<1>5. ASSUME NEW j \in 1 .. n
      PROVE  /\ td(j) \in TD /\ td(j).index = tds[k + j].index /\ td(j).id = tds[k + j].id
             /\ k + j > m => td(j).flushed = tds[k + j].flushed
  <2>1. tds[k + j] \in TD
    BY <1>3, <1>4, <1>5
  <2>2. CASE k + j <= m
    <3>1. ~(k + j > m)
      BY <1>2, <2>2
    <3> QED BY <2>1, <2>2, <3>1
  <2>3. CASE ~(k + j <= m)
    BY <2>1, <2>3
  <2> QED BY <2>2, <2>3
<1>6. tds' = [j \in 1 .. n |-> td(j)]
  BY DEF FlushTDs
<1> HIDE DEF TD, td, n
<1>7. tds' \in Seq(TD) /\ Len(tds') = n /\ \A j \in 1 .. n : tds'[j] = td(j)
  BY <1>2, <1>5, <1>6
<1> QED BY <1>5, <1>7 DEF Dropped, TD, n

\* The cycle bit for Set TR Dequeue is a cycle bit.
LEMMA DequeueCycleTypes == TypeOK => \A i \in Slots : DequeueCycle(i) \in 0 .. 1
BY Sizes DEF TypeOK, DequeueCycle, TRB

\* Events, skips and re-initialisation keep the types; dequeueIndex stays a slot.
LEMMA RetireTypes == TypeOK /\ LayInv /\ Retire => TypeOK' /\ LayInv'
<1> SUFFICES ASSUME TypeOK, LayInv, Retire PROVE TypeOK' /\ LayInv'
  OBVIOUS
<1>1. CASE TransferEvent \/ ShortPacketRunning
  <2>1. /\ events' \in Seq(Slots) /\ dequeueIndex' \in Slots
        /\ tds' \in Seq([index : Slots, id : 1 .. MaxTRBs, flushed : BOOLEAN])
    <3>1. events' \in Seq(Slots) /\ dequeueIndex' \in Slots
      BY <1>1, ScheduleShrinks, NextInSlots DEF TransferEvent, ShortPacketRunning
    <3>2. \/ tds' = tds
          \/ tds # <<>> /\ tds' = Tail(tds)
          \/ \E k \in DOMAIN tds : tds' = SubSeq(tds, k + 1, Len(tds))
          \/ \E k, m \in DOMAIN tds : tds' = FlushTDs(k, m)
      BY <1>1 DEF TransferEvent, ShortPacketRunning
    <3> QED BY <3>1, <3>2, ScheduleShrinks, TailDrops, FlushDrops DEF TypeOK, Dropped
  <2>2. /\ dpc = "idle"
        /\ UNCHANGED <<trbs, enqueueIndex, cycleState, layoutVars, hwIndex, hwCycle, armed, histVars>>
    BY <1>1 DEF TransferEvent, ShortPacketRunning
  <2>3. TypeOK'
    BY <2>1, <2>2 DEF TypeOK, layoutVars, histVars
  <2> QED BY <2>2, <2>3, IdleKeeps DEF layoutVars, LayInv
<1>2. CASE SpuriousEvent
  <2>1. events' \in Seq(Slots) /\ tds' \in Seq([index : Slots, id : 1 .. MaxTRBs, flushed : BOOLEAN])
    BY <1>2, ScheduleShrinks DEF SpuriousEvent
  <2>2. /\ dpc = "idle"
        /\ UNCHANGED <<trbs, enqueueIndex, dequeueIndex, cycleState, layoutVars, hwIndex, hwCycle,
                       armed, histVars>>
    BY <1>2 DEF SpuriousEvent
  <2>3. TypeOK'
    BY <2>1, <2>2 DEF TypeOK, layoutVars, histVars
  <2> QED BY <2>2, <2>3, IdleKeeps DEF layoutVars, LayInv
<1>3. CASE ShortPacket
  <2>1. /\ events' \in Seq(Slots) /\ tds' \in Seq([index : Slots, id : 1 .. MaxTRBs, flushed : BOOLEAN])
        /\ dequeueIndex' = enqueueIndex /\ hwIndex' = enqueueIndex /\ hwCycle' \in 0 .. 1
        /\ (armed' <=> FALSE) /\ armed' \in BOOLEAN /\ ran' = closed /\ suspect' \in BOOLEAN
    BY <1>3, ScheduleShrinks, DequeueCycleTypes DEF ShortPacket, SetTRDQPtr, TypeOK
  <2>2. /\ dpc = "idle"
        /\ UNCHANGED <<trbs, enqueueIndex, cycleState, layoutVars, closed, tdStart, torn, reinits>>
    BY <1>3 DEF ShortPacket
  <2>3. TypeOK'
    BY <2>1, <2>2, Sizes DEF TypeOK, layoutVars
  <2> QED BY <2>2, <2>3, IdleKeeps DEF layoutVars, LayInv
<1>4. CASE SkipTDs
  <2>1. PICK k \in DOMAIN tds :
          /\ tds' = SubSeq(tds, k + 1, Len(tds)) /\ SetTRDQPtr(NextDQ(tds[k].index)) /\ ran' = tds[k].id
    BY <1>4 DEF SkipTDs, Scheduled
  <2>2. /\ tds' \in Seq([index : Slots, id : 1 .. MaxTRBs, flushed : BOOLEAN])
        /\ dequeueIndex' \in Slots /\ hwIndex' = dequeueIndex' /\ hwCycle' \in 0 .. 1
        /\ ran' \in 1 .. MaxTRBs
    BY <2>1, ScheduleShrinks, DequeueCycleTypes, NextInSlots DEF SetTRDQPtr
  <2>3. armed' \in BOOLEAN /\ suspect' \in BOOLEAN
    BY <1>4 DEF SkipTDs, TypeOK
  <2>4. /\ dpc = "idle"
        /\ UNCHANGED <<trbs, enqueueIndex, cycleState, layoutVars, events, closed, tdStart, torn, reinits>>
    BY <1>4 DEF SkipTDs
  <2>5. TypeOK'
    BY <2>2, <2>3, <2>4, Sizes DEF TypeOK, layoutVars
  <2> QED BY <2>4, <2>5, IdleKeeps DEF layoutVars, LayInv
<1>5. ASSUME Wipe, hwIndex' \in 0 .. Link, hwCycle' \in 0 .. 1, armed' \in BOOLEAN, suspect' \in BOOLEAN
      PROVE  TypeOK' /\ LayInv'
  <2>1. /\ dpc = "idle" /\ reinits' \in 0 .. MaxReinits
        /\ trbs' = EmptyRing /\ enqueueIndex' = 0 /\ dequeueIndex' = 0 /\ cycleState' = 1
        /\ written' = 0 /\ closed' = 0 /\ tdStart' = 0 /\ ran' = 0
        /\ UNCHANGED <<dpc, first, slot, left, events>>
    BY <1>5, Sizes DEF Wipe, TypeOK
  <2>a. torn' \in BOOLEAN
    BY <1>5 DEF Wipe
  <2>2. tds' \in Seq([index : Slots, id : 1 .. MaxTRBs, flushed : BOOLEAN])
    BY <1>5, ScheduleShrinks DEF Wipe, TypeOK
  <2>3. EmptyRing \in [0 .. Link -> TRB] /\ EmptyRing[Link].kind = "link"
    BY Sizes DEF EmptyRing, TRB, Blank, LinkTRB
  <2>4. TypeOK'
    BY <1>5, <2>1, <2>a, <2>2, <2>3, Sizes DEF TypeOK
  <2> QED BY <2>1, <2>3, <2>4, IdleKeeps
<1>6. CASE Reinit
  <2>1. Wipe /\ hwIndex' \in 0 .. Link /\ hwCycle' \in 0 .. 1
    BY <1>6, Sizes DEF Reinit
  <2>2. armed' \in BOOLEAN
    BY <1>6 DEF Reinit
  <2>3. suspect' \in BOOLEAN
    BY <1>6 DEF Reinit
  <2> QED BY <1>5, <2>1, <2>2, <2>3
<1>7. CASE ReinitFails
  BY <1>5, <1>7 DEF ReinitFails, TypeOK
<1> QED BY <1>1, <1>2, <1>3, <1>4, <1>6, <1>7 DEF Retire

\* The xHC moves along the ring and posts events that name slots.
LEMMA XhcTypes == TypeOK /\ LayInv /\ Xhc => TypeOK' /\ LayInv'
<1> SUFFICES ASSUME TypeOK, LayInv, Xhc PROVE TypeOK' /\ LayInv'
  OBVIOUS
<1>1. ringVars' = ringVars /\ layoutVars' = layoutVars
  BY DEF Xhc, HwFetch, HwLink, HwIdle
<1>2. LayInv'
  BY <1>1 DEF LayInv, Room, Length, Owed, ringVars, layoutVars
<1>3. CASE HwFetch
  <2>1. hwIndex \in 0 .. Link /\ hwIndex # Link /\ trbs[hwIndex] \in TRB
    BY <1>3 DEF HwFetch, TypeOK, LayInv
  <2>2. hwIndex \in Slots /\ hwIndex' \in 0 .. Link /\ ran' \in 0 .. MaxTRBs
    BY SMTT(30), <1>3, <2>1, Sizes DEF HwFetch, TRB
  <2>3. events' \in Seq(Slots)
    BY <1>3, <2>2 DEF HwFetch, TypeOK
  <2> QED BY <1>1, <1>2, <1>3, <2>2, <2>3 DEF HwFetch, TypeOK, ringVars, layoutVars
<1>4. CASE HwLink
  BY <1>1, <1>2, <1>4, Sizes DEF HwLink, TypeOK, ringVars, layoutVars, histVars
<1>5. CASE HwIdle
  BY <1>1, <1>2, <1>5 DEF HwIdle, TypeOK, ringVars, layoutVars, histVars
<1> QED BY <1>3, <1>4, <1>5 DEF Xhc

\* The types and the room of the TD in progress are inductive.
LEMMA TypeStep == TypeOK /\ LayInv /\ [Next]_vars => TypeOK' /\ LayInv'
<1> SUFFICES ASSUME TypeOK, LayInv, [Next]_vars PROVE TypeOK' /\ LayInv'
  OBVIOUS
<1>1. CASE UNCHANGED vars
  BY <1>1 DEF vars, ringVars, layoutVars, hwVars, histVars, TypeOK, LayInv, Room, Length, Owed
<1> QED BY <1>1, ScheduleTypes, TakeNextTypes, TakeLastTypes, MoveTypes, RelinkTypes, FillTypes,
           CloseTypes, GiveUpTypes, RetireTypes, XhcTypes DEF Next, Layout

\* Every index of the ring stays on it and the driver's off the link TRB, whatever is scheduled,
\* put back, skipped or wiped, with the xHC anywhere.
THEOREM Types == Spec => []TypeOK
<1> QED BY InitTypes, TypeStep, PTL DEF Spec

\* Once CanTDFragmentFit has let a TD through, GetNextTRB finds a slot for each of its TRBs, the
\* move of a fragment to the start of the ring included (Room says which ones).
THEOREM RoomIsEnough == Spec => []FitSuffices
<1>1. TypeOK /\ LayInv => FitSuffices
  BY NeverFull DEF FitSuffices
<1> QED BY <1>1, InitTypes, TypeStep, PTL DEF Spec

-----------------------------------------------------------------------------
(* The cycle bits and the fragment that is laid out.                       *)

\* Where the next fragment begins or the open one began: all before it is closed.
Front == IF first = None THEN enqueueIndex ELSE first

\* The open fragment ends with the last slot of the ring.
Wrapped == first # None /\ enqueueIndex = 0

\* The cycle bit of a valid TRB of the turn of the ring that a slot is in.
Turn(i) == IF ~Wrapped /\ i < enqueueIndex THEN cycleState ELSE 1 - cycleState

\* Slots with the other cycle bit: the first of the open fragment and one not written yet.
Pending(i) == i = first \/ (dpc = "fill" /\ i = slot)

\* The slots that hold the copies of a moved fragment.
Copied(i) == dpc = "relink" /\ i < Link - first

CycleInv ==
  \A i \in 0 .. Link :
    trbs[i].cycle = IF Copied(i) THEN IF i = 0 THEN 1 - cycleState ELSE cycleState
                    ELSE IF Pending(i) THEN 1 - Turn(i) ELSE Turn(i)

Filled == IF dpc = "fill" THEN Length - 1 ELSE Length

\* dequeueIndex is not in the open fragment: GetNextTRB never passed it.
Outside == IF Wrapped THEN 0 < dequeueIndex /\ dequeueIndex <= first
                      ELSE dequeueIndex <= first \/ enqueueIndex < dequeueIndex

OpenInv ==
  /\ first # None =>
       /\ Outside /\ Length >= 1
       /\ \A i \in 0 .. Filled - 1 :
            /\ trbs[first + i].kind = "trb" /\ trbs[first + i].id = closed + 1 + i
            /\ trbs[first + i].last <=> (dpc = "close" /\ left = 0 /\ i = Filled - 1)
  /\ dpc \in {"fill", "close"} => slot = first + Length - 1
  /\ dpc = "relink" => \A i \in 0 .. Filled - 1 : trbs[i] = Moved(trbs[first + i])
  /\ written = closed + Filled
  /\ dpc # "idle" => tdStart <= closed

\* The numbers, as the prover needs them.
Numbers ==
  /\ enqueueIndex \in Int /\ 0 <= enqueueIndex /\ enqueueIndex < Link
  /\ dequeueIndex \in Int /\ 0 <= dequeueIndex /\ dequeueIndex < Link
  /\ first \in Int /\ -1 <= first /\ first < Link /\ (first # None => 0 <= first)
  /\ cycleState \in 0 .. 1 /\ hwCycle \in 0 .. 1
  /\ hwIndex \in Int /\ 0 <= hwIndex /\ hwIndex <= Link
  /\ closed \in Nat /\ written \in Nat /\ ran \in Nat /\ tdStart \in Nat /\ left \in Nat
  /\ Length \in Int /\ 0 <= Length /\ Length <= Link
  /\ Front \in Int /\ 0 <= Front /\ Front < Link
  /\ ~Wrapped => Front <= enqueueIndex
  /\ Wrapped => Front = first /\ first >= MaxTD /\ Link - first <= MaxTD

\* The types and the room give the numbers.
LEMMA Places == TypeOK /\ LayInv => Numbers
<1> SUFFICES ASSUME TypeOK, LayInv PROVE Numbers
  OBVIOUS
<1>1. /\ enqueueIndex \in Int /\ 0 <= enqueueIndex /\ enqueueIndex < Link
      /\ dequeueIndex \in Int /\ 0 <= dequeueIndex /\ dequeueIndex < Link
      /\ first \in Int /\ -1 <= first /\ first < Link /\ (first # None => 0 <= first)
      /\ cycleState \in 0 .. 1 /\ hwCycle \in 0 .. 1
      /\ hwIndex \in Int /\ 0 <= hwIndex /\ hwIndex <= Link
      /\ closed \in Nat /\ written \in Nat /\ ran \in Nat /\ tdStart \in Nat /\ left \in Nat
  BY Sizes DEF TypeOK
<1>2. first # None => enqueueIndex = 0 \/ first < enqueueIndex
  BY DEF LayInv
<1>3. Length \in Int /\ 0 <= Length /\ Length <= Link
  BY <1>1, <1>2, Sizes DEF Length
<1>4. Front \in Int /\ 0 <= Front /\ Front < Link /\ (~Wrapped => Front <= enqueueIndex)
  BY <1>1, <1>2, Sizes DEF Front, Wrapped
<1>5. Wrapped => Front = first /\ first >= MaxTD /\ Link - first <= MaxTD
  <2> SUFFICES ASSUME Wrapped PROVE Front = first /\ first >= MaxTD /\ Link - first <= MaxTD
    OBVIOUS
  <2>1. first # None /\ enqueueIndex = 0 /\ dpc # "idle"
    BY DEF Wrapped, LayInv
  <2>2. Length + Owed <= MaxTD /\ Length = Link - first /\ (dpc = "fill" => left >= 1)
    BY <2>1 DEF LayInv, Length
  <2>3. Owed \in Nat
    BY <1>1, <2>2 DEF Owed
  <2>4. Link - first <= MaxTD
    BY <1>1, <2>2, <2>3, Sizes
  <2>5. first >= MaxTD
    BY <1>1, <2>4, Sizes
  <2> QED BY <2>1, <2>4, <2>5 DEF Front
<1> QED BY <1>1, <1>3, <1>4, <1>5 DEF Numbers

\* The same after a step.
LEMMA PlacesNext == TypeOK' /\ LayInv' => Numbers'
BY Places, PTL

\* A ring just initialised: no slot is valid and no fragment open.
LEMMA InitOpen == Init => CycleInv /\ OpenInv
<1> SUFFICES ASSUME Init PROVE CycleInv /\ OpenInv
  OBVIOUS
<1>1. CycleInv
  BY Sizes DEF Init, CycleInv, Copied, Pending, Turn, Wrapped, EmptyRing, Blank, LinkTRB
<1>2. OpenInv
  BY DEF Init, OpenInv, Filled, Length
<1> QED BY <1>1, <1>2

\* A TD that starts has no fragment yet.
LEMMA ScheduleOpen == TypeOK /\ LayInv /\ CycleInv /\ OpenInv /\ ScheduleTD => CycleInv' /\ OpenInv'
<1> SUFFICES ASSUME TypeOK, LayInv, CycleInv, OpenInv, ScheduleTD PROVE CycleInv' /\ OpenInv'
  OBVIOUS
<1>1. /\ dpc = "idle" /\ dpc' = "next" /\ first = None /\ first' = None /\ tdStart' = closed
      /\ UNCHANGED <<ringVars, slot, written, hwVars, closed, ran, torn, suspect, reinits>>
  BY DEF ScheduleTD, LayInv
<1>2. CycleInv'
  BY <1>1 DEF CycleInv, Copied, Pending, Turn, Wrapped, ringVars
<1>3. written' = closed' + Filled'
  BY <1>1 DEF OpenInv, Filled, Length
<1>4. tdStart' <= closed'
  BY <1>1, Places DEF Numbers
<1> QED BY <1>1, <1>2, <1>3, <1>4 DEF OpenInv

\* A slot taken keeps the cycle bit that says it is not valid.
LEMMA TakeNextOpen == TypeOK /\ LayInv /\ CycleInv /\ OpenInv /\ TakeNext => CycleInv' /\ OpenInv'
<1> SUFFICES ASSUME TypeOK, LayInv, CycleInv, OpenInv, TakeNext PROVE CycleInv' /\ OpenInv'
  OBVIOUS
<1>1. /\ dpc = "next" /\ enqueueIndex # Link - 1 /\ ~(enqueueIndex = 0 /\ first # None)
      /\ enqueueIndex + 1 # dequeueIndex
      /\ slot' = enqueueIndex /\ first' = (IF first = None THEN enqueueIndex ELSE first) /\ dpc' = "fill"
      /\ trbs' = [trbs EXCEPT ![enqueueIndex] = Blank(trbs[enqueueIndex].cycle)]
      /\ enqueueIndex' = enqueueIndex + 1
      /\ UNCHANGED <<dequeueIndex, cycleState, tds, left, written, hwVars, histVars>>
  BY DEF TakeNext, AtLast, MustMove, Take, QueueFull
<1>2. Numbers
  BY Places
<1>3. first # None => enqueueIndex = 0 \/ first < enqueueIndex
  BY DEF LayInv
<1>4. trbs \in [0 .. Link -> TRB] /\ enqueueIndex \in 0 .. Link
  BY <1>2, Sizes DEF TypeOK, Numbers
<1>5. /\ trbs'[enqueueIndex].cycle = trbs[enqueueIndex].cycle
      /\ \A i \in 0 .. Link : i # enqueueIndex => trbs'[i] = trbs[i]
  BY <1>1, <1>4 DEF Blank
<1>6. ~Wrapped /\ ~Wrapped' /\ (\A i : ~Copied(i) /\ ~Copied(i)')
  BY <1>1, <1>2 DEF Wrapped, Copied, Numbers
<1>7. CycleInv'
  <2> SUFFICES ASSUME NEW i \in 0 .. Link
               PROVE trbs'[i].cycle = IF Pending(i)' THEN 1 - Turn(i)' ELSE Turn(i)'
    BY <1>6 DEF CycleInv
  <2>1. trbs[i].cycle = IF Pending(i) THEN 1 - Turn(i) ELSE Turn(i)
    BY <1>6 DEF CycleInv
  <2>2. CASE i = enqueueIndex
    <3>1. Pending(i)' /\ ~Pending(i) /\ Turn(i)' = cycleState /\ Turn(i) = 1 - cycleState
      BY <1>1, <1>2, <1>3, <1>6, <2>2, Sizes DEF Pending, Turn, Numbers
    <3> QED BY <1>5, <2>1, <2>2, <3>1
  <2>3. CASE i # enqueueIndex
    <3>1. (Pending(i)' <=> Pending(i)) /\ Turn(i)' = Turn(i)
      BY <1>1, <1>2, <1>3, <1>6, <2>3, Sizes DEF Pending, Turn, Numbers
    <3> QED BY <1>5, <2>1, <2>3, <3>1
  <2> QED BY <2>2, <2>3
<1>8. /\ Outside' /\ Length' = Length + 1 /\ Filled' = Filled /\ Filled = Length /\ first' # None
      /\ first' + Length = enqueueIndex
  <2>1. CASE first = None
    <3>1. first' = enqueueIndex /\ Length = 0 /\ Filled = Length /\ first' # None
      BY <1>1, <1>2, <2>1, Sizes DEF Length, Filled, Numbers
    <3>2. Length' = 1 /\ Filled' = 0
      BY <1>1, <1>2, <3>1, Sizes DEF Length, Filled, Numbers
    <3>3. Outside'
      BY <1>1, <1>2, <1>6, <3>1 DEF Outside, Numbers
    <3> QED BY <1>2, <3>1, <3>2, <3>3 DEF Numbers
  <2>2. CASE first # None
    <3>1. first' = first /\ enqueueIndex # 0 /\ Length = enqueueIndex - first /\ Filled = Length
      BY <1>1, <2>2 DEF Length, Filled
    <3>2. Length' = enqueueIndex + 1 - first /\ Filled' = Length' - 1
      BY <1>1, <1>2, <2>2, <3>1 DEF Length, Filled, Numbers
    <3>3. Outside
      BY <2>2 DEF OpenInv
    <3>4. Outside'
      BY <1>1, <1>2, <1>6, <3>1, <3>3 DEF Outside, Numbers
    <3> QED BY <1>2, <2>2, <3>1, <3>2, <3>4 DEF Numbers
  <2> QED BY <2>1, <2>2
<1>9. ASSUME NEW i \in 0 .. Filled' - 1
      PROVE /\ trbs'[first' + i].kind = "trb" /\ trbs'[first' + i].id = closed' + 1 + i
            /\ ~trbs'[first' + i].last
  <2>1. i \in 0 .. Filled - 1 /\ first # None /\ first' = first
    BY <1>1, <1>2, <1>8 DEF Length, Numbers
  <2>2. first + i \in 0 .. Link /\ first + i # enqueueIndex
    BY <1>2, <1>4, <1>8, <2>1, Sizes DEF Numbers
  <2>3. trbs'[first' + i] = trbs[first + i]
    BY <1>5, <2>1, <2>2
  <2> QED BY <1>1, <2>1, <2>3 DEF OpenInv, histVars
<1>10. slot' = first' + Length' - 1
  BY <1>1, <1>2, <1>8 DEF Numbers
<1>11. written' = closed' + Filled' /\ tdStart' <= closed'
  BY <1>1, <1>8 DEF OpenInv, histVars
<1>12. Length' >= 1
  BY <1>2, <1>8 DEF Numbers
<1>13. OpenInv'
  BY <1>1, <1>8, <1>9, <1>10, <1>11, <1>12 DEF OpenInv
<1> QED BY <1>7, <1>13

\* Going round changes cycleState with the turn that every slot is in.
LEMMA TakeLastOpen == TypeOK /\ LayInv /\ CycleInv /\ OpenInv /\ TakeLast => CycleInv' /\ OpenInv'
<1> SUFFICES ASSUME TypeOK, LayInv, CycleInv, OpenInv, TakeLast PROVE CycleInv' /\ OpenInv'
  OBVIOUS
<1>1. /\ dpc = "next" /\ enqueueIndex = Link - 1 /\ dequeueIndex # 0
      /\ slot' = enqueueIndex /\ first' = (IF first = None THEN enqueueIndex ELSE first) /\ dpc' = "fill"
      /\ trbs' = [trbs EXCEPT ![Link].cycle = cycleState, ![enqueueIndex] = Blank(@.cycle)]
      /\ enqueueIndex' = 0 /\ cycleState' = 1 - cycleState
      /\ UNCHANGED <<dequeueIndex, tds, left, written, hwVars, histVars>>
  BY DEF TakeLast, AtLast, Take, LinkCycle, QueueFull
<1>2. Numbers
  BY Places
<1>3. first # None => first < enqueueIndex
  BY <1>1, Sizes DEF LayInv
<1>n. /\ dpc = "next" /\ enqueueIndex = Link - 1 /\ dequeueIndex # 0
      /\ slot' = enqueueIndex /\ first' = (IF first = None THEN enqueueIndex ELSE first) /\ dpc' = "fill"
      /\ enqueueIndex' = 0 /\ cycleState' = 1 - cycleState /\ dequeueIndex' = dequeueIndex
      /\ closed' = closed /\ written' = written /\ tdStart' = tdStart
  BY <1>1 DEF histVars
<1>4. trbs \in [0 .. Link -> TRB] /\ enqueueIndex \in 0 .. Link /\ enqueueIndex # Link
  BY <1>n, <1>2, Sizes DEF TypeOK, Numbers
<1>5. /\ trbs'[enqueueIndex].cycle = trbs[enqueueIndex].cycle
      /\ trbs'[Link].cycle = cycleState
      /\ \A i \in 0 .. Link : i # enqueueIndex /\ i # Link => trbs'[i] = trbs[i]
  BY <1>1, <1>4, Sizes DEF Blank, TRB
<1>6. ~Wrapped /\ Wrapped' /\ (\A i : ~Copied(i) /\ ~Copied(i)')
  BY <1>n, <1>2, Sizes DEF Wrapped, Copied, Numbers
<1>7. CycleInv'
  <2> SUFFICES ASSUME NEW i \in 0 .. Link
               PROVE trbs'[i].cycle = IF Pending(i)' THEN 1 - Turn(i)' ELSE Turn(i)'
    BY <1>6 DEF CycleInv
  <2>1. trbs[i].cycle = IF Pending(i) THEN 1 - Turn(i) ELSE Turn(i)
    BY <1>6 DEF CycleInv
  <2>0. Turn(i)' = cycleState
    BY <1>1, <1>2, <1>6 DEF Turn, Numbers
  <2>2. CASE i = enqueueIndex
    <3>1. Pending(i)' /\ ~Pending(i) /\ Turn(i) = 1 - cycleState
      BY <1>n, <1>2, <1>3, <1>6, <2>2, Sizes DEF Pending, Turn, Numbers
    <3> QED BY <1>5, <2>0, <2>1, <2>2, <3>1
  <2>3. CASE i = Link
    <3>1. ~Pending(i)'
      BY <1>n, <1>2, <1>3, <1>6, <2>3, Sizes DEF Pending, Numbers
    <3> QED BY <1>5, <2>0, <2>3, <3>1
  <2>4. CASE i # enqueueIndex /\ i # Link
    <3>1. (Pending(i)' <=> Pending(i)) /\ Turn(i) = cycleState
      BY <1>n, <1>2, <1>3, <1>6, <2>4, Sizes DEF Pending, Turn, Numbers
    <3> QED BY <1>5, <2>0, <2>1, <2>4, <3>1
  <2> QED BY <2>2, <2>3, <2>4
<1>8. /\ Outside' /\ Length' = Length + 1 /\ Filled' = Filled /\ Filled = Length /\ first' # None
      /\ first' + Length = enqueueIndex
  <2>1. CASE first = None
    <3>1. first' = enqueueIndex /\ Length = 0 /\ Filled = Length /\ first' # None
      BY <1>1, <1>2, <2>1, Sizes DEF Length, Filled, Numbers
    <3>2. Length' = 1 /\ Filled' = 0
      BY <1>n, <1>2, <3>1, Sizes DEF Length, Filled, Numbers
    <3>3. Outside'
      BY <1>n, <1>2, <1>6, <3>1, Sizes DEF Outside, Numbers
    <3> QED BY <1>2, <3>1, <3>2, <3>3 DEF Numbers
  <2>2. CASE first # None
    <3>1. first' = first /\ enqueueIndex # 0 /\ Length = enqueueIndex - first /\ Filled = Length
      BY <1>1, <2>2, Sizes DEF Length, Filled
    <3>2. Length' = Link - first /\ Filled' = Length' - 1
      BY <1>1, <1>2, <2>2, <3>1 DEF Length, Filled, Numbers
    <3>3. Outside
      BY <2>2 DEF OpenInv
    <3>4. Outside'
      BY <1>n, <1>2, <1>6, <3>1, <3>3, Sizes DEF Outside, Numbers
    <3> QED BY <1>n, <1>2, <2>2, <3>1, <3>2, <3>4, Sizes DEF Numbers
  <2> QED BY <2>1, <2>2
<1>9. ASSUME NEW i \in 0 .. Filled' - 1
      PROVE /\ trbs'[first' + i].kind = "trb" /\ trbs'[first' + i].id = closed' + 1 + i
            /\ ~trbs'[first' + i].last
  <2>1. i \in 0 .. Filled - 1 /\ first # None /\ first' = first
    BY <1>1, <1>2, <1>8 DEF Length, Numbers
  <2>2. first + i \in 0 .. Link /\ first + i < enqueueIndex
    BY <1>2, <1>4, <1>8, <2>1, Sizes DEF Numbers
  <2>3. trbs'[first' + i] = trbs[first + i]
    <3>1. first + i # enqueueIndex /\ first + i # Link
      BY <1>n, <1>2, <2>1, <2>2, Sizes DEF Numbers
    <3> QED BY <1>5, <2>1, <2>2, <3>1
  <2> QED BY <1>1, <2>1, <2>3 DEF OpenInv, histVars
<1>10. slot' = first' + Length' - 1
  BY <1>1, <1>2, <1>8 DEF Numbers
<1>11. written' = closed' + Filled' /\ tdStart' <= closed'
  BY <1>1, <1>8 DEF OpenInv, histVars
<1>12. Length' >= 1
  BY <1>2, <1>8 DEF Numbers
<1>13. OpenInv'
  BY <1>1, <1>8, <1>9, <1>10, <1>11, <1>12 DEF OpenInv
<1> QED BY <1>7, <1>13

\* The copies have the cycle bits of the slots they will be valid in, but for the first.
LEMMA MoveOpen == TypeOK /\ LayInv /\ CycleInv /\ OpenInv /\ MoveFragment => CycleInv' /\ OpenInv'
<1> SUFFICES ASSUME TypeOK, LayInv, CycleInv, OpenInv, MoveFragment PROVE CycleInv' /\ OpenInv'
  OBVIOUS
<1>1. /\ dpc = "next" /\ enqueueIndex = 0 /\ first # None /\ dpc' = "relink"
      /\ trbs' = [i \in 0 .. Link |-> IF i < Link - first THEN Moved(trbs[first + i]) ELSE trbs[i]]
      /\ UNCHANGED <<enqueueIndex, dequeueIndex, cycleState, tds, first, slot, left, written,
                     hwVars, histVars>>
  BY DEF MoveFragment, MustMove
<1>2. Numbers
  BY Places
<1>3. Wrapped /\ Wrapped' /\ first >= MaxTD /\ Link - first <= MaxTD /\ first < Link /\ first \in Nat
  BY <1>1, <1>2, Sizes DEF Wrapped, Numbers
<1>4. /\ Length = Link - first /\ Length' = Length /\ Filled = Length /\ Filled' = Length
  BY <1>1 DEF Length, Filled
<1>5. \A i \in 0 .. Link : ~(i < Link - first) => trbs'[i] = trbs[i]
  BY <1>1
<1>6. ASSUME NEW i \in 0 .. Link, i < Link - first
      PROVE  /\ first + i \in 0 .. Link /\ ~(first + i < Link - first) /\ i # first
             /\ trbs'[i] = Moved(trbs[first + i]) /\ trbs[first + i] \in TRB
             /\ trbs[first + i].cycle = IF i = 0 THEN cycleState ELSE 1 - cycleState
             /\ trbs'[first + i] = trbs[first + i]
  <2>1. first + i \in 0 .. Link /\ ~(first + i < Link - first) /\ i # first
    BY <1>3, <1>6, Sizes
  <2>2. trbs'[i] = Moved(trbs[first + i]) /\ trbs[first + i] \in TRB
    BY <1>1, <1>6, <2>1 DEF TypeOK
  <2>3. trbs[first + i].cycle = IF Pending(first + i) THEN 1 - Turn(first + i) ELSE Turn(first + i)
    BY <1>1, <2>1 DEF CycleInv, Copied
  <2>4. (Pending(first + i) <=> i = 0) /\ Turn(first + i) = 1 - cycleState
    BY <1>1, <1>3 DEF Pending, Turn
  <2>5. trbs[first + i].cycle = IF i = 0 THEN cycleState ELSE 1 - cycleState
    BY <1>2, <2>3, <2>4 DEF Numbers
  <2>6. trbs'[first + i] = trbs[first + i]
    BY <1>5, <2>1
  <2> QED BY <2>1, <2>2, <2>5, <2>6
<1>7. CycleInv'
  <2> SUFFICES ASSUME NEW i \in 0 .. Link
               PROVE trbs'[i].cycle = IF i < Link - first
                       THEN IF i = 0 THEN 1 - cycleState ELSE cycleState
                       ELSE IF i = first THEN cycleState ELSE 1 - cycleState
    <3>1. \A i \in 0 .. Link : /\ Copied(i)' <=> i < Link - first
                               /\ Pending(i)' <=> i = first
                               /\ Turn(i)' = 1 - cycleState
      BY <1>1, <1>3 DEF Copied, Pending, Turn
    <3>2. cycleState' = cycleState /\ 1 - (1 - cycleState) = cycleState
      BY <1>1, <1>2 DEF Numbers
    <3> QED BY <3>1, <3>2 DEF CycleInv
  <2>1. CASE i < Link - first
    <3>1. trbs'[i].cycle = 1 - trbs[first + i].cycle
      BY <1>6, <2>1 DEF Moved, TRB
    <3> QED BY <1>2, <1>6, <2>1, <3>1 DEF Numbers
  <2>2. CASE ~(i < Link - first)
    <3>1. trbs[i].cycle = IF Pending(i) THEN 1 - Turn(i) ELSE Turn(i)
      BY <1>1 DEF CycleInv, Copied
    <3>2. (Pending(i) <=> i = first) /\ Turn(i) = 1 - cycleState
      BY <1>1, <1>3 DEF Pending, Turn
    <3> QED BY <1>2, <1>5, <2>2, <3>1, <3>2 DEF Numbers
  <2> QED BY <2>1, <2>2
<1>8. ASSUME NEW i \in 0 .. Filled' - 1
      PROVE /\ trbs'[first' + i].kind = "trb" /\ trbs'[first' + i].id = closed' + 1 + i
            /\ ~trbs'[first' + i].last
            /\ trbs'[i] = Moved(trbs'[first' + i])
  <2>1. i \in 0 .. Filled - 1 /\ i \in 0 .. Link /\ i < Link - first
    BY <1>3, <1>4, Sizes
  <2>2. /\ trbs[first + i].kind = "trb" /\ trbs[first + i].id = closed + 1 + i
        /\ ~trbs[first + i].last
    BY <1>1, <2>1 DEF OpenInv
  <2> QED BY <1>1, <1>6, <2>1, <2>2 DEF histVars
<1>9. Outside' /\ Length' >= 1
  <2>1. Outside /\ Length >= 1
    BY <1>1 DEF OpenInv
  <2> QED BY <1>1, <1>3, <1>4, <2>1 DEF Outside
<1>10. written' = closed' + Filled' /\ tdStart' <= closed'
  BY <1>1, <1>4 DEF OpenInv, histVars
<1> QED BY <1>1, <1>7, <1>8, <1>9, <1>10 DEF OpenInv

\* After the move the fragment lies at the start of the ring, with its first TRB not valid.
LEMMA RelinkOpen == TypeOK /\ LayInv /\ CycleInv /\ OpenInv /\ Relink => CycleInv' /\ OpenInv'
<1> SUFFICES ASSUME TypeOK, LayInv, CycleInv, OpenInv, Relink PROVE CycleInv' /\ OpenInv'
  OBVIOUS
<1> DEFINE next == Link - first
<1>1. /\ dpc = "relink" /\ dpc' = "fill" /\ first' = 0 /\ slot' = next /\ enqueueIndex' = next + 1
      /\ trbs' = [trbs EXCEPT ![first] = trbs[Link], ![next] = Blank(@.cycle)]
      /\ UNCHANGED <<dequeueIndex, cycleState, tds, left, written, hwVars, histVars>>
  BY DEF Relink
<1>2. /\ first \in Slots /\ enqueueIndex = 0 /\ left >= 1 /\ MaxTD <= dequeueIndex - 1
      /\ next + left <= MaxTD /\ next \in Slots /\ next + 1 \in Slots /\ next + 1 < first /\ next >= 1
      /\ left \in Nat /\ dequeueIndex \in Slots /\ next \in Int /\ first \in Nat /\ first < Link
  BY <1>1, MovedFits, Sizes DEF TypeOK
<1>n. /\ dpc = "relink" /\ dpc' = "fill" /\ first' = 0 /\ slot' = next /\ enqueueIndex' = next + 1
      /\ dequeueIndex' = dequeueIndex /\ cycleState' = cycleState
  BY <1>1
<1>3. first # None /\ Wrapped /\ ~Wrapped' /\ cycleState \in 0 .. 1 /\ next <= MaxTD /\ MaxTD <= first
  <2>1. first # None /\ enqueueIndex' # 0
    BY <1>n, <1>2, Sizes
  <2>2. Wrapped /\ ~Wrapped'
    BY <1>2, <2>1 DEF Wrapped
  <2>3. cycleState \in 0 .. 1 /\ MaxTD <= first
    BY <2>2, Places, Sizes DEF Numbers
  <2>4. next <= MaxTD
    BY <1>2, Sizes
  <2> QED BY <2>1, <2>2, <2>3, <2>4
<1>4. /\ Length = next /\ Filled = next /\ Length' = next + 1 /\ Filled' = next
  <2>1. Length = next /\ Filled = next
    BY <1>n, <1>2, <1>3 DEF Length, Filled
  <2>2. first' # None /\ enqueueIndex' # 0 /\ enqueueIndex' - first' = next + 1 /\ next + 1 - 1 = next
    BY <1>n, <1>2, Sizes
  <2>3. Length' = next + 1 /\ Filled' = Length' - 1
    BY <1>n, <2>2 DEF Length, Filled
  <2> QED BY <2>1, <2>2, <2>3
<1> HIDE DEF next
<1>5. /\ trbs'[next].cycle = trbs[next].cycle /\ trbs'[first] = trbs[Link]
      /\ \A i \in 0 .. Link : i # next /\ i # first => trbs'[i] = trbs[i]
  <2>1. trbs \in [0 .. Link -> TRB] /\ next \in 0 .. Link /\ first \in 0 .. Link /\ next # first
    BY <1>2, Sizes DEF TypeOK
  <2> QED BY <1>1, <2>1 DEF Blank
<1>6. CycleInv'
  <2> SUFFICES ASSUME NEW i \in 0 .. Link
               PROVE trbs'[i].cycle = IF i = 0 \/ i = next THEN 1 - cycleState
                                      ELSE IF i < next THEN cycleState ELSE 1 - cycleState
    <3>1. \A i \in 0 .. Link : /\ ~Copied(i)'
                               /\ Pending(i)' <=> (i = 0 \/ i = next)
                               /\ Turn(i)' = IF i < next + 1 THEN cycleState ELSE 1 - cycleState
      BY <1>1, <1>3 DEF Copied, Pending, Turn
    <3>2. \A i \in 0 .. Link :
            (IF Pending(i)' THEN 1 - Turn(i)' ELSE Turn(i)')
              = IF i = 0 \/ i = next THEN 1 - cycleState
                ELSE IF i < next THEN cycleState ELSE 1 - cycleState
      <4>1. 1 - (1 - cycleState) = cycleState /\ next \in Int /\ next >= 1
        BY <1>2, <1>3
      <4>2. \A i \in 0 .. Link : (i < next + 1 <=> i < next \/ i = next)
        BY <4>1, Sizes
      <4>3. next < next + 1 /\ 0 < next + 1
        BY <4>1
      <4> QED BY <3>1, <4>1, <4>2, <4>3
    <3> QED BY <3>1, <3>2 DEF CycleInv
  <2>1. \A j \in 0 .. Link :
          trbs[j].cycle = IF j < next THEN IF j = 0 THEN 1 - cycleState ELSE cycleState
                          ELSE IF j = first THEN cycleState ELSE 1 - cycleState
    <3>1. \A j \in 0 .. Link : /\ Copied(j) <=> j < next
                               /\ Pending(j) <=> j = first
                               /\ Turn(j) = 1 - cycleState
      BY <1>1, <1>3 DEF Copied, Pending, Turn, next
    <3>2. 1 - (1 - cycleState) = cycleState
      BY <1>3
    <3> QED BY <3>1, <3>2 DEF CycleInv
  <2>2. CASE i = first
    <3>1. trbs[Link].cycle = 1 - cycleState
      BY <1>2, <2>1, Sizes
    <3> QED BY <1>2, <1>5, <2>2, <3>1, Sizes
  <2>3. CASE i = next
    BY <1>2, <1>5, <2>1, <2>3, Sizes
  <2>4. CASE i # first /\ i # next
    BY <1>2, <1>5, <2>1, <2>4, Sizes
  <2> QED BY <2>2, <2>3, <2>4
<1>7. ASSUME NEW i \in 0 .. Filled' - 1
      PROVE /\ trbs'[first' + i].kind = "trb" /\ trbs'[first' + i].id = closed' + 1 + i
            /\ ~trbs'[first' + i].last
  <2>1. i \in 0 .. Filled - 1 /\ i \in 0 .. Link /\ i < next /\ first' + i = i /\ first + i \in 0 .. Link
    <3>1. i \in Int /\ 0 <= i /\ i < next
      BY <1>2, <1>4
    <3>2. first + i < Link
      BY <1>2, <3>1, Sizes DEF next
    <3> QED BY <1>n, <1>2, <1>4, <3>1, <3>2, Sizes
  <2>2. /\ trbs[first + i].kind = "trb" /\ trbs[first + i].id = closed + 1 + i
        /\ ~trbs[first + i].last
    BY <1>1, <1>3, <2>1 DEF OpenInv
  <2>3. trbs[i] = Moved(trbs[first + i])
    BY <1>1, <2>1 DEF OpenInv
  <2>4. trbs[first + i] \in TRB
    BY <2>1 DEF TypeOK
  <2>5. trbs'[i] = trbs[i]
    BY <1>2, <1>5, <2>1
  <2>6. trbs'[i].kind = "trb" /\ trbs'[i].id = closed + 1 + i /\ ~trbs'[i].last
    BY <2>2, <2>3, <2>4, <2>5 DEF Moved, TRB
  <2> QED BY <1>1, <2>1, <2>6 DEF histVars
<1>8. Outside'
  <2>1. enqueueIndex' < dequeueIndex'
    BY <1>n, <1>2, <1>3, Sizes
  <2> QED BY <1>3, <2>1 DEF Outside
<1>9. written' = closed' + Filled' /\ tdStart' <= closed'
  BY <1>1, <1>4 DEF OpenInv, histVars
<1>10. slot' = first' + Length' - 1 /\ Length' >= 1
  BY <1>1, <1>2, <1>4
<1> QED BY <1>1, <1>6, <1>7, <1>8, <1>9, <1>10 DEF OpenInv

\* The TRB written is the next in number, valid unless it is the first of its fragment.
LEMMA FillOpen == TypeOK /\ LayInv /\ CycleInv /\ OpenInv /\ Fill => CycleInv' /\ OpenInv'
<1> SUFFICES ASSUME TypeOK, LayInv, CycleInv, OpenInv, Fill PROVE CycleInv' /\ OpenInv'
  OBVIOUS
<1> DEFINE new == [kind |-> "trb", id |-> written + 1, last |-> left = 1, cycle |-> FillCycle(trbs[slot].cycle)]
<1>1. /\ dpc = "fill" /\ trbs' = [trbs EXCEPT ![slot] = new]
      /\ UNCHANGED <<enqueueIndex, dequeueIndex, cycleState, tds, first, slot, hwVars, histVars>>
  BY DEF Fill
<1>n. /\ dpc = "fill" /\ written' = written + 1 /\ left' = left - 1
      /\ (dpc' = "next" /\ left # 1) \/ (dpc' = "close" /\ left # 2)
      /\ left = 1 => dpc' = "close"
      /\ enqueueIndex' = enqueueIndex /\ dequeueIndex' = dequeueIndex /\ cycleState' = cycleState
      /\ first' = first /\ slot' = slot /\ closed' = closed /\ tdStart' = tdStart
  BY Places DEF Fill, histVars, Numbers
<1>2. Numbers
  BY Places
<1>3. first # None /\ left >= 1 /\ left \in Nat
  BY <1>n, <1>2 DEF LayInv, Numbers
<1>4. Outside /\ Length >= 1 /\ slot = first + Length - 1 /\ Filled = Length - 1 /\ written = closed + Filled
  BY <1>n, <1>3 DEF OpenInv, Filled
<1>5. Length' = Length /\ Filled' = Length /\ (Wrapped' <=> Wrapped) /\ Outside'
  BY <1>n, <1>4 DEF Length, Filled, Wrapped, Outside
<1>6. trbs \in [0 .. Link -> TRB] /\ slot \in 0 .. Link
  BY Sizes DEF TypeOK
<1>7. /\ trbs'[slot] = new
      /\ \A i \in 0 .. Link : i # slot => trbs'[i] = trbs[i]
  BY <1>1, <1>6
<1> HIDE DEF new
<1>8. CycleInv'
  <2> SUFFICES ASSUME NEW i \in 0 .. Link
               PROVE trbs'[i].cycle = IF i = first THEN 1 - Turn(i) ELSE Turn(i)
    <3>1. \A i \in 0 .. Link : ~Copied(i)' /\ (Pending(i)' <=> i = first) /\ Turn(i)' = Turn(i)
      BY <1>n, <1>5 DEF Copied, Pending, Turn
    <3> QED BY <3>1 DEF CycleInv
  <2>1. trbs[i].cycle = IF i = first \/ i = slot THEN 1 - Turn(i) ELSE Turn(i)
    BY <1>n DEF CycleInv, Copied, Pending
  <2>2. CASE i = slot
    <3>1. trbs'[i].cycle = FillCycle(trbs[slot].cycle)
      BY <1>7, <2>2 DEF new
    <3>2. trbs[slot].cycle = 1 - Turn(i) /\ 1 - (1 - Turn(i)) = Turn(i)
      BY <1>2, <2>1, <2>2 DEF Turn, Numbers
    <3>3. trbs'[i].cycle = IF slot = first THEN 1 - Turn(i) ELSE Turn(i)
      BY <3>1, <3>2 DEF FillCycle
    <3> QED BY <2>2, <3>3
  <2>3. CASE i # slot
    BY <1>7, <2>1, <2>3
  <2> QED BY <2>2, <2>3
<1>9. ASSUME NEW i \in 0 .. Filled' - 1
      PROVE /\ trbs'[first' + i].kind = "trb" /\ trbs'[first' + i].id = closed' + 1 + i
            /\ trbs'[first' + i].last <=> (dpc' = "close" /\ left' = 0 /\ i = Filled' - 1)
  <2>1. i \in Int /\ 0 <= i /\ i <= Length - 1
    BY <1>2, <1>5 DEF Numbers
  <2>2. CASE i = Length - 1
    <3>1. first' + i = slot
      BY <1>n, <1>2, <1>4, <2>1, <2>2 DEF Numbers
    <3>2. /\ new.kind = "trb" /\ new.id = written + 1 /\ (new.last <=> left = 1)
      BY DEF new
    <3>3. written + 1 = closed' + 1 + i
      BY <1>n, <1>2, <1>4, <2>2 DEF Numbers
    <3>4. left = 1 <=> (dpc' = "close" /\ left' = 0)
      BY <1>n, <1>3
    <3> QED BY <1>5, <1>7, <2>2, <3>1, <3>2, <3>3, <3>4
  <2>3. CASE i # Length - 1
    <3>1. i \in 0 .. Filled - 1 /\ i # Filled' - 1
      BY <1>2, <1>4, <1>5, <2>1, <2>3 DEF Numbers
    <3>2. /\ trbs[first + i].kind = "trb" /\ trbs[first + i].id = closed + 1 + i
          /\ ~trbs[first + i].last
      BY <1>n, <1>3, <3>1 DEF OpenInv
    <3>3. first + i \in 0 .. Link /\ first + i # slot
      BY <1>2, <1>3, <1>4, <1>6, <2>1, <2>3, Sizes DEF Numbers
    <3> QED BY <1>n, <1>7, <3>1, <3>2, <3>3
  <2> QED BY <2>2, <2>3
<1>10. written' = closed' + Filled' /\ tdStart' <= closed'
  <2>1. tdStart <= closed
    BY <1>n DEF OpenInv
  <2>2. written + 1 = closed + Length
    BY <1>2, <1>4 DEF Numbers
  <2> QED BY <1>n, <1>5, <2>1, <2>2
<1>11. slot' = first' + Length' - 1 /\ Length' >= 1
  BY <1>n, <1>4, <1>5
<1>12. dpc' # "relink"
  BY <1>n
<1> QED BY <1>5, <1>8, <1>9, <1>10, <1>11, <1>12 DEF OpenInv

\* Closing makes the first TRB valid, and with it the fragment.
LEMMA CloseOpen == TypeOK /\ LayInv /\ CycleInv /\ OpenInv /\ CloseFragment => CycleInv' /\ OpenInv'
<1> SUFFICES ASSUME TypeOK, LayInv, CycleInv, OpenInv, CloseFragment PROVE CycleInv' /\ OpenInv'
  OBVIOUS
<1>1. /\ dpc = "close" /\ closed' = written /\ first' = None /\ dpc' \in {"next", "idle"}
      /\ trbs' = [trbs EXCEPT ![first].cycle = 1 - @]
      /\ UNCHANGED <<enqueueIndex, dequeueIndex, cycleState, slot, left, written, tdStart>>
  BY DEF CloseFragment
<1>2. Numbers
  BY Places
<1>3. first # None /\ first \in 0 .. Link /\ trbs \in [0 .. Link -> TRB]
  <2>1. first # None /\ trbs \in [0 .. Link -> TRB]
    BY <1>1 DEF LayInv, TypeOK
  <2> QED BY <1>2, <2>1, Sizes DEF Numbers
<1>4. /\ trbs'[first].cycle = 1 - trbs[first].cycle
      /\ \A i \in 0 .. Link : i # first => trbs'[i] = trbs[i]
  BY <1>1, <1>3 DEF TRB
<1>5. CycleInv'
  <2> SUFFICES ASSUME NEW i \in 0 .. Link PROVE trbs'[i].cycle = Turn(i)
    <3>0. ~Wrapped' /\ (Wrapped => enqueueIndex = 0) /\ enqueueIndex' = enqueueIndex
      BY <1>1 DEF Wrapped
    <3>1. \A i \in 0 .. Link : ~Copied(i)' /\ ~Pending(i)' /\ Turn(i)' = Turn(i)
      <4>1. \A i \in 0 .. Link : ~Copied(i)' /\ ~Pending(i)'
        BY <1>1, Sizes DEF Copied, Pending
      <4>2. \A i \in 0 .. Link : Turn(i)' = Turn(i)
        <5>1. CASE Wrapped
          <6>1. \A i \in 0 .. Link : ~(i < enqueueIndex)
            BY <3>0, <5>1, Sizes
          <6> QED BY <1>1, <3>0, <5>1, <6>1 DEF Turn
        <5>2. CASE ~Wrapped
          BY <1>1, <3>0, <5>2 DEF Turn
        <5> QED BY <5>1, <5>2
      <4> QED BY <4>1, <4>2
    <3> QED BY <3>1 DEF CycleInv
  <2>1. trbs[i].cycle = IF i = first THEN 1 - Turn(i) ELSE Turn(i)
    BY <1>1 DEF CycleInv, Copied, Pending
  <2>2. 1 - (1 - Turn(i)) = Turn(i)
    BY <1>2 DEF Turn, Numbers
  <2> QED BY <1>4, <2>1, <2>2
<1>6. Filled' = 0 /\ dpc' \notin {"fill", "close", "relink"}
  BY <1>1 DEF Filled, Length
<1>7. written' = closed' + Filled' /\ tdStart' <= closed'
  <2>1. tdStart <= closed /\ written = closed + Filled /\ Filled = Length
    BY <1>1 DEF OpenInv, Filled
  <2>2. tdStart <= written /\ written + 0 = written
    BY <1>2, <2>1 DEF Numbers
  <2> QED BY <1>1, <1>6, <2>2
<1> QED BY <1>1, <1>5, <1>6, <1>7 DEF OpenInv

\* The length of PutBackTRB's walk, without the remainder.
LEMMA BackLength ==
  ASSUME TypeOK, NEW i \in 0 .. Link
  PROVE  Back(i) = IF i <= enqueueIndex THEN enqueueIndex - i ELSE enqueueIndex - i + NumTRBs
<1>1. enqueueIndex \in Nat /\ enqueueIndex < NumTRBs /\ i \in Nat /\ i < NumTRBs /\ NumTRBs \in Nat
  BY Sizes DEF TypeOK
<1>2. CASE i <= enqueueIndex
  <2>1. /\ enqueueIndex - i + NumTRBs = NumTRBs * 1 + (enqueueIndex - i)
        /\ 0 <= enqueueIndex - i /\ enqueueIndex - i < NumTRBs
    BY <1>1, <1>2
  <2>2. (enqueueIndex - i + NumTRBs) % NumTRBs = enqueueIndex - i
    BY <1>1, <2>1
  <2> QED BY <1>2, <2>2 DEF Back
<1>3. CASE i > enqueueIndex
  <2>1. /\ enqueueIndex - i + NumTRBs \in Int
        /\ 0 <= enqueueIndex - i + NumTRBs /\ enqueueIndex - i + NumTRBs < NumTRBs
    BY <1>1, <1>3
  <2>2. (enqueueIndex - i + NumTRBs) % NumTRBs = enqueueIndex - i + NumTRBs
    BY <1>1, <2>1
  <2> QED BY <1>1, <1>3, <2>2 DEF Back
<1> QED BY <1>1, <1>2, <1>3

\* A TD is given up only when it has an open fragment (GetNextTRB does not return null, by
\* NeverFull), and PutBackTRB then walks back to its first TRB: dequeueIndex does not stop it.
LEMMA PutBackWalk ==
  ASSUME TypeOK, LayInv, OpenInv, GiveUp
  PROVE  /\ dpc = "fill" /\ first # None /\ dpc' = "idle" /\ first' = None /\ left' = 0
         /\ enqueueIndex' = first /\ cycleState' = (IF Wrapped THEN 1 - cycleState ELSE cycleState)
         /\ \A i \in 0 .. Link :
              trbs'[i] = IF i > first /\ (Wrapped \/ i < enqueueIndex)
                         THEN [trbs[i] EXCEPT !.cycle = IF Wrapped THEN cycleState ELSE 1 - cycleState]
                         ELSE trbs[i]
         /\ written' = closed /\ torn' = (torn \/ closed > tdStart)
         /\ UNCHANGED <<dequeueIndex, tds, slot, hwVars, closed, tdStart, ran, suspect, reinits>>
<1>1. dpc = "fill" /\ PutBackTRB
  BY NeverFull DEF GiveUp
<1>2. Numbers
  BY Places
<1>3. first # None /\ (enqueueIndex = 0 \/ first < enqueueIndex)
  BY <1>1 DEF LayInv
<1>4. Outside
  BY <1>3 DEF OpenInv
<1> DEFINE B(i) == IF i <= enqueueIndex THEN enqueueIndex - i ELSE enqueueIndex - i + NumTRBs
<1>5. \A i \in 0 .. Link : Back(i) = B(i)
  BY BackLength
<1>6. first \in 0 .. Link /\ dequeueIndex \in 0 .. Link /\ NumTRBs = Link + 1 /\ Link \in Int
  BY <1>2, <1>3, Sizes DEF Numbers
<1>7. ~(Back(dequeueIndex) < Back(first))
  BY <1>2, <1>3, <1>4, <1>5, <1>6 DEF Outside, Wrapped, Numbers
<1>8. TurnOf(first) = (IF Wrapped THEN 1 - cycleState ELSE cycleState)
  <2>1. CASE Wrapped
    <3>1. first > enqueueIndex
      BY <1>2, <2>1, Sizes DEF Wrapped, Numbers
    <3> QED BY <2>1, <3>1 DEF TurnOf
  <2>2. CASE ~Wrapped
    <3>1. ~(first > enqueueIndex)
      BY <1>2, <1>3, <2>2 DEF Wrapped, Numbers
    <3> QED BY <2>2, <3>1 DEF TurnOf
  <2> QED BY <2>1, <2>2
<1>9. enqueueIndex' = first /\ cycleState' = TurnOf(first)
  BY <1>1, <1>3, <1>7 DEF PutBackTRB
<1>10. ASSUME NEW i \in 0 .. Link
       PROVE  /\ (Back(i) > 0 /\ Back(i) < Back(first) /\ Back(i) <= Back(dequeueIndex))
                   <=> (i > first /\ (Wrapped \/ i < enqueueIndex))
              /\ i > first /\ (Wrapped \/ i < enqueueIndex) =>
                   1 - TurnOf(i) = IF Wrapped THEN cycleState ELSE 1 - cycleState
  <2>1. Back(i) = B(i) /\ Back(first) = B(first) /\ i \in Int /\ 0 <= i /\ i <= Link
        /\ Back(first) <= Back(dequeueIndex) /\ Back(dequeueIndex) \in Int
    BY <1>2, <1>5, <1>6, <1>7 DEF Numbers
  <2>2. CASE Wrapped
    <3>1. enqueueIndex = 0 /\ first > 0
      BY <1>2, <2>2, Sizes DEF Wrapped, Numbers
    <3>2. Back(first) = NumTRBs - first /\ Back(i) = IF i = 0 THEN 0 ELSE NumTRBs - i
      BY <1>2, <1>6, <2>1, <3>1 DEF Numbers
    <3>3. i > first => i > enqueueIndex
      BY <1>2, <2>1, <3>1 DEF Numbers
    <3>4. (Back(i) > 0 /\ Back(i) < Back(first) /\ Back(i) <= Back(dequeueIndex)) <=> i > first
      BY <1>2, <1>6, <2>1, <3>1, <3>2 DEF Numbers
    <3>5. i > first => 1 - TurnOf(i) = cycleState
      BY <1>2, <3>3 DEF TurnOf, Numbers
    <3> QED BY <2>2, <3>4, <3>5
  <2>3. CASE ~Wrapped
    <3>1. first < enqueueIndex
      BY <1>3, <2>3 DEF Wrapped
    <3>2. Back(first) = enqueueIndex - first
      BY <1>2, <2>1, <3>1 DEF Numbers
    <3>3. (Back(i) > 0 /\ Back(i) < Back(first) /\ Back(i) <= Back(dequeueIndex))
             <=> (i > first /\ i < enqueueIndex)
      BY <1>2, <1>6, <2>1, <3>1, <3>2 DEF Numbers
    <3>4. i < enqueueIndex => TurnOf(i) = cycleState
      BY <1>2, <2>1 DEF TurnOf, Numbers
    <3> QED BY <2>3, <3>3, <3>4
  <2> QED BY <2>2, <2>3
<1>11. ASSUME NEW i \in 0 .. Link
       PROVE  trbs'[i] = IF i > first /\ (Wrapped \/ i < enqueueIndex)
                         THEN [trbs[i] EXCEPT !.cycle = IF Wrapped THEN cycleState ELSE 1 - cycleState]
                         ELSE trbs[i]
  <2>1. trbs'[i] = IF Back(i) > 0 /\ Back(i) < Back(first) /\ Back(i) <= Back(dequeueIndex)
                   THEN [trbs[i] EXCEPT !.cycle = 1 - TurnOf(i)] ELSE trbs[i]
    BY <1>1, <1>3 DEF PutBackTRB
  <2> QED BY <1>10, <2>1
<1> QED BY <1>1, <1>3, <1>8, <1>9, <1>11 DEF GiveUp

\* PutBackTRB leaves each slot with the cycle bit of a slot that is not valid.
LEMMA GiveUpOpen == TypeOK /\ LayInv /\ CycleInv /\ OpenInv /\ GiveUp => CycleInv' /\ OpenInv'
<1> SUFFICES ASSUME TypeOK, LayInv, CycleInv, OpenInv, GiveUp PROVE CycleInv' /\ OpenInv'
  OBVIOUS
<1>1. /\ dpc = "fill" /\ first # None /\ dpc' = "idle" /\ first' = None
      /\ enqueueIndex' = first /\ cycleState' = (IF Wrapped THEN 1 - cycleState ELSE cycleState)
      /\ written' = closed /\ closed' = closed
      /\ \A i \in 0 .. Link :
           trbs'[i] = IF i > first /\ (Wrapped \/ i < enqueueIndex)
                      THEN [trbs[i] EXCEPT !.cycle = IF Wrapped THEN cycleState ELSE 1 - cycleState]
                      ELSE trbs[i]
  BY PutBackWalk
<1>2. Numbers
  BY Places
<1>3. enqueueIndex = 0 \/ first < enqueueIndex
  BY <1>1 DEF LayInv
<1>4. slot = first + Length - 1 /\ Length >= 1
  BY <1>1 DEF OpenInv
<1>5. CycleInv'
  <2> SUFFICES ASSUME NEW i \in 0 .. Link
               PROVE trbs'[i].cycle = IF i < first THEN cycleState' ELSE 1 - cycleState'
    <3>1. \A i \in 0 .. Link : ~Copied(i)' /\ ~Pending(i)' /\ ~Wrapped'
      BY <1>1, Sizes DEF Copied, Pending, Wrapped
    <3> QED BY <1>1, <3>1 DEF CycleInv, Turn
  <2>1. trbs[i].cycle = IF i = first \/ i = slot THEN 1 - Turn(i) ELSE Turn(i)
    BY <1>1 DEF CycleInv, Copied, Pending
  <2>2. trbs[i] \in TRB
    BY DEF TypeOK
  <2>3. CASE i > first /\ (Wrapped \/ i < enqueueIndex)
    <3>1. trbs'[i].cycle = IF Wrapped THEN cycleState ELSE 1 - cycleState
      BY <1>1, <2>2, <2>3 DEF TRB
    <3> QED BY <1>1, <1>2, <2>3, <3>1 DEF Numbers
  <2>4. CASE ~(i > first /\ (Wrapped \/ i < enqueueIndex))
    <3>1. trbs'[i] = trbs[i]
      BY <1>1, <2>4
    <3>2. i # first => i # slot
      <4> SUFFICES ASSUME i = slot, i # first PROVE FALSE
        OBVIOUS
      <4>1. i > first /\ i = first + Length - 1
        BY <1>2, <1>4 DEF Numbers
      <4>2. ~Wrapped => Length = enqueueIndex - first
        BY <1>1, <1>3 DEF Length, Wrapped
      <4> QED BY <1>2, <2>4, <4>1, <4>2 DEF Numbers
    <3>3. trbs'[i].cycle = IF i = first THEN 1 - Turn(i) ELSE Turn(i)
      BY <2>1, <3>1, <3>2
    <3>4. Turn(i) = IF ~Wrapped /\ i <= first THEN cycleState ELSE 1 - cycleState
      <4>1. CASE Wrapped
        BY <4>1 DEF Turn
      <4>2. CASE ~Wrapped
        <5>1. i < enqueueIndex <=> i <= first
          BY <1>1, <1>2, <1>3, <2>4, <4>2 DEF Wrapped, Numbers
        <5> QED BY <4>2, <5>1 DEF Turn
      <4> QED BY <4>1, <4>2
    <3> QED BY <1>1, <1>2, <2>4, <3>3, <3>4 DEF Numbers
  <2> QED BY <2>3, <2>4
<1>6. Filled' = 0 /\ dpc' = "idle" /\ written' = closed' + Filled'
  BY <1>1, <1>2 DEF Filled, Length, Numbers
<1> QED BY <1>1, <1>5, <1>6 DEF OpenInv

\* Moving dequeueIndex over closed TRBs does not touch the open fragment.
LEMMA RetireOpen == TypeOK /\ LayInv /\ CycleInv /\ OpenInv /\ Retire => CycleInv' /\ OpenInv'
<1> SUFFICES ASSUME TypeOK, LayInv, CycleInv, OpenInv, Retire PROVE CycleInv' /\ OpenInv'
  OBVIOUS
<1>1. dpc = "idle" /\ dpc' = "idle" /\ first' = first /\ slot' = slot
  BY DEF Retire, TransferEvent, SpuriousEvent, ShortPacketRunning, ShortPacket, SkipTDs,
         Reinit, ReinitFails, Wipe, layoutVars
<1>2. first = None
  BY <1>1 DEF LayInv
<1>3. CASE Reinit \/ ReinitFails
  <2>1. Wipe
    BY <1>3 DEF Reinit, ReinitFails
  <2>2. trbs' = EmptyRing /\ enqueueIndex' = 0 /\ cycleState' = 1 /\ written' = 0 /\ closed' = 0
    BY <2>1 DEF Wipe
  <2>3. CycleInv'
    <3>1. \A i \in 0 .. Link : ~Copied(i)' /\ ~Pending(i)' /\ Turn(i)' = 0
      BY <1>1, <1>2, <2>2, Sizes DEF Copied, Pending, Turn
    <3> QED BY <2>2, <3>1 DEF CycleInv, EmptyRing, Blank, LinkTRB
  <2>4. written' = closed' + Filled'
    BY <1>1, <1>2, <2>2 DEF Filled, Length
  <2> QED BY <1>1, <1>2, <2>3, <2>4 DEF OpenInv
<1>4. CASE ~(Reinit \/ ReinitFails)
  <2>1. UNCHANGED <<trbs, enqueueIndex, cycleState, written, closed>>
    BY <1>4 DEF Retire, TransferEvent, SpuriousEvent, ShortPacketRunning, ShortPacket, SkipTDs,
                 layoutVars, histVars
  <2>2. CycleInv'
    BY <1>1, <2>1 DEF CycleInv, Copied, Pending, Turn, Wrapped
  <2>3. written' = closed' + Filled'
    BY <1>1, <2>1 DEF OpenInv, Filled, Length
  <2> QED BY <1>1, <1>2, <2>2, <2>3 DEF OpenInv
<1> QED BY <1>3, <1>4

\* The cycle bits of all slots and the contents of the open fragment are inductive.
LEMMA OpenStep ==
  TypeOK /\ LayInv /\ CycleInv /\ OpenInv /\ [Next]_vars => CycleInv' /\ OpenInv'
<1> SUFFICES ASSUME TypeOK, LayInv, CycleInv, OpenInv, [Next]_vars PROVE CycleInv' /\ OpenInv'
  OBVIOUS
<1>1. CASE Xhc \/ UNCHANGED vars
  <2>1. ringVars' = ringVars /\ layoutVars' = layoutVars /\ closed' = closed /\ tdStart' = tdStart
    BY <1>1 DEF Xhc, HwFetch, HwLink, HwIdle, vars, histVars
  <2>2. CycleInv'
    BY <2>1 DEF CycleInv, Copied, Pending, Turn, Wrapped, ringVars, layoutVars
  <2>3. OpenInv'
    BY <2>1 DEF OpenInv, Outside, Filled, Length, Wrapped, ringVars, layoutVars
  <2> QED BY <2>2, <2>3
<1> QED BY <1>1, ScheduleOpen, TakeNextOpen, TakeLastOpen, MoveOpen, RelinkOpen, FillOpen,
           CloseOpen, GiveUpOpen, RetireOpen DEF Next, Layout

-----------------------------------------------------------------------------
(* The schedule.                                                           *)

\* A flush leaves the youngest TD on the schedule, or nothing.
YoungestScheduled == tds # <<>> => ~tds[Len(tds)].flushed

\* Retiring TDs from the old end does not disturb that.
LEMMA YoungestStays ==
  ASSUME TypeOK, YoungestScheduled, NEW k \in DOMAIN tds, Dropped(k),
         Len(tds) - k >= 1 => tds'[Len(tds) - k].flushed = tds[k + (Len(tds) - k)].flushed
  PROVE  YoungestScheduled'
<1> SUFFICES ASSUME tds' # <<>> PROVE ~tds'[Len(tds')].flushed
  BY DEF YoungestScheduled
<1> DEFINE TD == [index : Slots, id : 1 .. MaxTRBs, flushed : BOOLEAN]
<1>1. tds \in Seq(TD) /\ tds' \in Seq(TD) /\ Len(tds') = Len(tds) - k
  BY DEF TypeOK, Dropped
<1> HIDE DEF TD
<1>2. Len(tds) \in Nat /\ k \in Int /\ Len(tds') \in Nat /\ Len(tds') # 0 /\ tds # <<>>
  <2>1. DOMAIN tds = 1 .. Len(tds) /\ Len(tds) \in Nat /\ Len(tds') \in Nat
    BY <1>1, LenProperties
  <2>2. Len(tds') # 0
    BY <1>1, EmptySeq
  <2>3. tds # <<>>
    BY <2>1, k \in DOMAIN tds, Len(<<>>) = 0
  <2> QED BY <2>1, <2>2, <2>3
<1>3. Len(tds) - k >= 1 /\ k + (Len(tds) - k) = Len(tds)
  BY <1>1, <1>2
<1> QED BY <1>1, <1>2, <1>3 DEF YoungestScheduled

\* Every step keeps the youngest TD scheduled.
LEMMA YoungestStep == TypeOK /\ LayInv /\ YoungestScheduled /\ [Next]_vars => YoungestScheduled'
<1> SUFFICES ASSUME TypeOK, LayInv, YoungestScheduled, [Next]_vars PROVE YoungestScheduled'
  OBVIOUS
<1>1. CASE tds' = tds \/ tds' = <<>>
  BY <1>1 DEF YoungestScheduled
<1>2. CASE CloseFragment /\ tds' # tds
  <2> DEFINE TD == [index : Slots, id : 1 .. MaxTRBs, flushed : BOOLEAN]
             td == [index |-> slot, id |-> written, flushed |-> FALSE]
  <2>1. tds \in Seq(TD) /\ tds' = Append(tds, td) /\ ~td.flushed
    BY <1>2 DEF TypeOK, CloseFragment, LastTrbIndex
  <2>2. td \in TD
    BY <1>2, Sizes DEF CloseFragment, TypeOK, LayInv
  <2> HIDE DEF TD, td
  <2>3. tds'[Len(tds')] = td
    BY <2>1, <2>2, AppendProperties
  <2> QED BY <2>1, <2>3 DEF YoungestScheduled
<1>3. ASSUME NEW k \in DOMAIN tds, tds' = SubSeq(tds, k + 1, Len(tds)) PROVE YoungestScheduled'
  <2>1. Len(tds) - k >= 1 => Len(tds) - k \in 1 .. Len(tds) - k
    BY DEF TypeOK
  <2> QED BY <1>3, <2>1, RetireDrops, YoungestStays
<1>4. ASSUME tds # <<>>, tds' = Tail(tds) PROVE YoungestScheduled'
  <2>1. 1 \in DOMAIN tds /\ (Len(tds) - 1 >= 1 => Len(tds) - 1 \in 1 .. Len(tds) - 1)
    BY <1>4 DEF TypeOK
  <2> QED BY <1>4, <2>1, TailDrops, YoungestStays
<1>5. CASE ShortPacketRunning
  <2>1. PICK k \in DOMAIN tds, m \in DOMAIN tds : tds' = FlushTDs(k, m) /\ \E j \in DOMAIN tds : m < j
    BY <1>5 DEF ShortPacketRunning, Scheduled
  <2>2. Len(tds) - k >= 1 => Len(tds) - k \in 1 .. Len(tds) - k /\ k + (Len(tds) - k) > m
    <3>1. Len(tds) \in Nat /\ DOMAIN tds = 1 .. Len(tds)
      BY LenProperties DEF TypeOK
    <3>2. PICK j \in DOMAIN tds : m < j
      BY <2>1
    <3>3. k \in Nat /\ m \in Nat /\ j \in Nat /\ j <= Len(tds) /\ m < j
      BY <2>1, <3>1, <3>2
    <3> QED BY <3>1, <3>3
  <2> QED BY <2>1, <2>2, FlushDrops, YoungestStays
<1> QED BY <1>1, <1>2, <1>3, <1>4, <1>5
        DEF Next, Layout, Retire, Xhc, ScheduleTD, TakeNext, TakeLast, MoveFragment, Relink, Fill, GiveUp,
            TransferEvent, SpuriousEvent, ShortPacket, SkipTDs, Scheduled, Reinit, ReinitFails, Wipe,
            HwFetch, HwLink, HwIdle, ringVars, vars

-----------------------------------------------------------------------------
(* The ring as the xHC sees it.                                            *)

\* The cycle state with which the xHC gets to Front.
FrontTurn == IF Wrapped THEN 1 - cycleState ELSE cycleState

\* What is between dequeueIndex and Front goes around the end of the ring.
Around == enqueueIndex < dequeueIndex /\ ~Wrapped

\* The closed TRBs are those from dequeueIndex up to Front, or, when they go around, from
\* dequeueIndex up to the link at f and from 0 up to Front; the numbers in them are consecutive
\* and the one before Front holds closed.
Busy(f, i) == IF Around THEN (dequeueIndex <= i /\ i < f) \/ i < Front
              ELSE dequeueIndex <= i /\ i < Front
IdAt(f, i) == IF Around /\ dequeueIndex <= i THEN closed - Front - (f - 1 - i)
              ELSE closed - (Front - 1 - i)

\* The link at which the older turn of the ring ends: that of the ring, or of a moved fragment.
EndInv(f) == Around => dequeueIndex <= f /\ trbs[f].kind = "link" /\ (f = Link \/ f > MaxTD)

\* The xHC is among the closed TRBs or right after them, and ran is the number before it.
HwPos(f) ==
  \/ /\ ~Around /\ dequeueIndex <= hwIndex /\ hwIndex <= Front
     /\ hwCycle = FrontTurn /\ ran = closed - (Front - hwIndex)
  \/ /\ ~Around /\ dequeueIndex = 0 /\ hwIndex = Link
     /\ hwCycle = 1 - FrontTurn /\ ran = closed - Front
  \/ /\ Around /\ dequeueIndex <= hwIndex /\ hwIndex <= f
     /\ hwCycle = 1 - FrontTurn /\ ran = closed - Front - (f - hwIndex)
  \/ /\ Around /\ hwIndex <= Front
     /\ hwCycle = FrontTurn /\ ran = closed - (Front - hwIndex)

ContentInv(f) ==
  \A i \in 0 .. Link : Busy(f, i) =>
    /\ trbs[i].kind = "trb" /\ trbs[i].id = IdAt(f, i)
    /\ ran < IdAt(f, i) => (trbs[i].last <=> \E k \in DOMAIN tds : tds[k].id = IdAt(f, i))

TdsInv(f) ==
  \A k \in DOMAIN tds : Busy(f, tds[k].index) /\ tds[k].id = IdAt(f, tds[k].index)

Ring(f) == EndInv(f) /\ HwPos(f) /\ ContentInv(f) /\ TdsInv(f)
RingInv == ~suspect => \E f \in 0 .. Link : Ring(f)

\* The events not yet handled are those of the oldest TDs, in their order.
QueueInv ==
  ~suspect =>
    /\ \A k \in DOMAIN tds : tds[k].id <= closed
    /\ \A j, k \in DOMAIN tds : j < k => tds[j].id < tds[k].id
    /\ Len(events) <= Len(tds)
    /\ \A k \in DOMAIN events : events[k] = tds[k].index
    /\ \A k \in DOMAIN tds : tds[k].id <= ran <=> k <= Len(events)

\* Unless a TD was put back half closed: what the xHC has not carried out, it is running for or
\* will be rung for; the youngest TD ends all that is closed; and with no TD left, dequeueIndex
\* is where the next TD begins, or in the place of a fragment that was moved from there.
StrandInv ==
  ~suspect /\ ~torn =>
    /\ ~armed => IF dpc = "idle" THEN ran = closed ELSE tdStart <= ran
    /\ tds # <<>> => tds[Len(tds)].id = IF dpc = "idle" THEN closed ELSE tdStart
    /\ tds = <<>> /\ (dpc = "idle" \/ closed = tdStart) =>
         dequeueIndex = Front \/ (Front = 0 /\ MaxTD <= dequeueIndex - 1)

DriverInv == TypeOK /\ LayInv /\ CycleInv /\ OpenInv /\ YoungestScheduled
ViewInv == RingInv /\ QueueInv /\ StrandInv

\* A fragment is copied only to slots before dequeueIndex.
LEMMA CopiedBefore == DriverInv => \A i \in 0 .. Link : Copied(i) => i < dequeueIndex /\ i < Front /\ Wrapped
<1> SUFFICES ASSUME DriverInv, NEW i \in 0 .. Link, dpc = "relink", i < Link - first
             PROVE  i < dequeueIndex /\ i < Front /\ Wrapped
  BY DEF Copied
<1>1. /\ first \in Slots /\ enqueueIndex = 0 /\ left >= 1 /\ MaxTD <= dequeueIndex - 1
      /\ Link - first + left <= MaxTD /\ Link - first + 1 < first
  BY MovedFits DEF DriverInv
<1>2. Numbers /\ first # None
  BY <1>1, Places, Sizes DEF DriverInv
<1>3. Wrapped /\ Front = first
  BY <1>1, <1>2 DEF Wrapped, Front
<1> QED BY <1>1, <1>2, <1>3, Sizes DEF Numbers

\* The slot where the xHC stops is not valid for it.
LEMMA FrontInvalid == DriverInv => trbs[Front].cycle = 1 - FrontTurn
<1> SUFFICES ASSUME DriverInv PROVE trbs[Front].cycle = 1 - FrontTurn
  OBVIOUS
<1>1. Numbers
  BY Places DEF DriverInv
<1>2. Front \in 0 .. Link /\ ~Copied(Front)
  BY <1>1, CopiedBefore, Sizes DEF Numbers
<1>3. trbs[Front].cycle = IF Pending(Front) THEN 1 - Turn(Front) ELSE Turn(Front)
  BY <1>2 DEF DriverInv, CycleInv
<1>4. CASE first = None
  <2>1. ~Pending(Front) /\ ~Wrapped /\ Front = enqueueIndex
    BY <1>1, <1>4, Sizes DEF Pending, Wrapped, Front, DriverInv, LayInv, Numbers
  <2>2. Turn(Front) = 1 - cycleState
    BY <1>1, <2>1 DEF Turn, Numbers
  <2> QED BY <1>3, <2>1, <2>2 DEF FrontTurn
<1>5. CASE first # None
  <2>1. Pending(Front) /\ Front = first /\ (enqueueIndex = 0 \/ first < enqueueIndex)
    BY <1>5 DEF Pending, Front, DriverInv, LayInv
  <2>2. Turn(Front) = FrontTurn
    BY <1>1, <1>5, <2>1 DEF Turn, FrontTurn, Wrapped, Numbers
  <2> QED BY <1>3, <2>1, <2>2
<1> QED BY <1>4, <1>5

\* The closed TRBs are valid for the xHC when it gets to them, and so is the link between them.
LEMMA ClosedValid ==
  DriverInv =>
    /\ \A i \in 0 .. Link : (Around \/ dequeueIndex <= i) /\ i < Front => trbs[i].cycle = FrontTurn
    /\ \A i \in 0 .. Link : Around /\ dequeueIndex <= i => trbs[i].cycle = 1 - FrontTurn
    /\ ~Wrapped => trbs[Link].cycle = 1 - FrontTurn
<1> SUFFICES ASSUME DriverInv
             PROVE /\ \A i \in 0 .. Link : (Around \/ dequeueIndex <= i) /\ i < Front => trbs[i].cycle = FrontTurn
                   /\ \A i \in 0 .. Link : Around /\ dequeueIndex <= i => trbs[i].cycle = 1 - FrontTurn
                   /\ ~Wrapped => trbs[Link].cycle = 1 - FrontTurn
  OBVIOUS
<1>1. Numbers
  BY Places DEF DriverInv
<1>2. /\ first # None => enqueueIndex = 0 \/ first < enqueueIndex
      /\ dpc = "fill" => slot = first + Length - 1 /\ Length >= 1 /\ first # None
  BY DEF DriverInv, LayInv, OpenInv
<1>3. \A i \in 0 .. Link : ~Copied(i) => trbs[i].cycle = IF Pending(i) THEN 1 - Turn(i) ELSE Turn(i)
  BY DEF DriverInv, CycleInv
<1>4. ~Wrapped /\ first # None => Length = enqueueIndex - first /\ first < enqueueIndex
  BY <1>2 DEF Length, Wrapped
<1>5. ~Wrapped => \A i \in 0 .. Link : enqueueIndex <= i => trbs[i].cycle = 1 - FrontTurn
  <2> SUFFICES ASSUME ~Wrapped, NEW i \in 0 .. Link, enqueueIndex <= i PROVE trbs[i].cycle = 1 - FrontTurn
    OBVIOUS
  <2>1. ~Copied(i)
    BY CopiedBefore
  <2>2. ~Pending(i)
    <3>1. i # first
      BY <1>1, <1>4, Sizes DEF Numbers
    <3>2. dpc = "fill" => i # slot
      BY <1>1, <1>2, <1>4 DEF Numbers
    <3> QED BY <3>1, <3>2 DEF Pending
  <2>3. Turn(i) = 1 - cycleState
    BY <1>1 DEF Turn, Numbers
  <2> QED BY <1>3, <2>1, <2>2, <2>3 DEF FrontTurn
<1>6. ASSUME NEW i \in 0 .. Link, Around \/ dequeueIndex <= i, i < Front PROVE trbs[i].cycle = FrontTurn
  <2>1. ~Copied(i)
    BY <1>1, <1>6, CopiedBefore DEF Around, Numbers
  <2>2. ~Pending(i)
    <3>1. i # first
      BY <1>1, <1>6, Sizes DEF Front, Numbers
    <3>2. dpc = "fill" => i # slot
      BY <1>1, <1>2, <1>6 DEF Front, Numbers
    <3> QED BY <3>1, <3>2 DEF Pending
  <2>3. Turn(i) = FrontTurn
    BY <1>1, <1>6 DEF Turn, FrontTurn, Numbers
  <2> QED BY <1>3, <2>1, <2>2, <2>3
<1>7. ASSUME NEW i \in 0 .. Link, Around, dequeueIndex <= i PROVE trbs[i].cycle = 1 - FrontTurn
  BY <1>1, <1>5, <1>7 DEF Around, Numbers
<1>8. ~Wrapped => trbs[Link].cycle = 1 - FrontTurn
  BY <1>1, <1>5, Sizes DEF Numbers
<1> QED BY <1>6, <1>7, <1>8

\* A TRB is busy where its number says so.
LEMMA BusyIds ==
  ASSUME DriverInv, NEW f \in 0 .. Link, EndInv(f)
  PROVE  /\ \A i \in 0 .. Link : IdAt(f, i) \in Int /\ (Busy(f, i) => IdAt(f, i) <= closed)
         /\ \A i, j \in 0 .. Link : Busy(f, i) /\ Busy(f, j) /\ IdAt(f, i) = IdAt(f, j) => i = j
<1>1. Numbers /\ f \in Int /\ 0 <= f /\ f <= Link /\ Link \in Int
  BY Places, Sizes DEF DriverInv
<1>2. Around => Front < dequeueIndex
  BY <1>1 DEF Around, Numbers
<1>3. ASSUME NEW i \in 0 .. Link PROVE IdAt(f, i) \in Int /\ (Busy(f, i) => IdAt(f, i) <= closed)
  BY <1>1, <1>2 DEF IdAt, Busy, Numbers
<1>4. ASSUME NEW i \in 0 .. Link, NEW j \in 0 .. Link, Busy(f, i), Busy(f, j), IdAt(f, i) = IdAt(f, j)
      PROVE  i = j
  BY <1>1, <1>2, <1>4 DEF IdAt, Busy, Numbers
<1> QED BY <1>3, <1>4

\* The xHC finds the next TRB of those closed, or a link to it, and it finds nothing valid only
\* when it has carried out all of them.
LEMMA HwView ==
  ASSUME DriverInv, NEW f \in 0 .. Link, Ring(f)
  PROVE  /\ ran <= closed
         /\ \/ Busy(f, hwIndex) /\ IdAt(f, hwIndex) = ran + 1 /\ Valid(hwIndex)
            \/ hwIndex = Front /\ ran = closed /\ ~Valid(hwIndex)
            \/ trbs[hwIndex].kind = "link" /\ Valid(hwIndex)
               /\ \/ ~Around /\ dequeueIndex = 0 /\ hwIndex = Link /\ hwCycle = 1 - FrontTurn /\ ran = closed - Front
                  \/ Around /\ hwIndex = f /\ hwCycle = 1 - FrontTurn /\ ran = closed - Front
<1>1. Numbers /\ f \in Int /\ 0 <= f /\ f <= Link /\ Link \in Int /\ hwIndex \in 0 .. Link
  BY Places, Sizes DEF DriverInv, Numbers
<1>2. Around => Front < dequeueIndex /\ dequeueIndex <= f /\ trbs[f].kind = "link"
  BY <1>1 DEF Around, Numbers, Ring, EndInv
<1>3. trbs[Front].cycle = 1 - FrontTurn /\ FrontTurn \in 0 .. 1
  BY <1>1, FrontInvalid DEF FrontTurn, Numbers
<1>4. HwPos(f)
  BY DEF Ring
<1>5. CASE /\ ~Around /\ dequeueIndex <= hwIndex /\ hwIndex <= Front
           /\ hwCycle = FrontTurn /\ ran = closed - (Front - hwIndex)
  <2>1. CASE hwIndex < Front
    <3>1. Busy(f, hwIndex) /\ IdAt(f, hwIndex) = ran + 1
      BY <1>1, <1>5, <2>1 DEF Busy, IdAt, Numbers
    <3>2. Valid(hwIndex)
      BY <1>1, <1>5, <2>1, ClosedValid DEF Valid
    <3> QED BY <1>1, <1>5, <3>1, <3>2 DEF Numbers
  <2>2. CASE hwIndex = Front
    <3>1. ran = closed
      BY <1>1, <1>5, <2>2 DEF Numbers
    <3>2. ~Valid(hwIndex)
      BY <1>3, <1>5, <2>2 DEF Valid
    <3> QED BY <1>1, <2>2, <3>1, <3>2 DEF Numbers
  <2> QED BY <1>1, <1>5, <2>1, <2>2 DEF Numbers
<1>6. CASE /\ ~Around /\ dequeueIndex = 0 /\ hwIndex = Link
           /\ hwCycle = 1 - FrontTurn /\ ran = closed - Front
  <2>1. ~Wrapped
    BY <1>6 DEF DriverInv, OpenInv, Outside, Wrapped
  <2>2. Valid(hwIndex) /\ trbs[hwIndex].kind = "link"
    BY <1>6, <2>1, ClosedValid DEF Valid, DriverInv, LayInv
  <2> QED BY <1>1, <1>6, <2>2 DEF Numbers
<1>7. CASE /\ Around /\ dequeueIndex <= hwIndex /\ hwIndex <= f
           /\ hwCycle = 1 - FrontTurn /\ ran = closed - Front - (f - hwIndex)
  <2>1. Valid(hwIndex)
    BY <1>1, <1>7, ClosedValid DEF Valid
  <2>2. CASE hwIndex < f
    <3>1. Busy(f, hwIndex) /\ IdAt(f, hwIndex) = ran + 1
      BY <1>1, <1>7, <2>2 DEF Busy, IdAt, Numbers
    <3> QED BY <1>1, <1>7, <2>1, <3>1 DEF Numbers
  <2>3. CASE hwIndex = f
    <3>1. ran = closed - Front /\ ran <= closed
      BY <1>1, <1>7, <2>3 DEF Numbers
    <3> QED BY <1>2, <1>7, <2>1, <2>3, <3>1
  <2> QED BY <1>1, <1>7, <2>2, <2>3 DEF Numbers
<1>8. CASE /\ Around /\ hwIndex <= Front
           /\ hwCycle = FrontTurn /\ ran = closed - (Front - hwIndex)
  <2>1. CASE hwIndex < Front
    <3>1. Busy(f, hwIndex) /\ IdAt(f, hwIndex) = ran + 1
      BY <1>1, <1>2, <1>8, <2>1 DEF Busy, IdAt, Numbers
    <3>2. Valid(hwIndex)
      BY <1>1, <1>8, <2>1, ClosedValid DEF Valid
    <3> QED BY <1>1, <1>8, <3>1, <3>2 DEF Numbers
  <2>2. CASE hwIndex = Front
    <3>1. ran = closed
      BY <1>1, <1>8, <2>2 DEF Numbers
    <3>2. ~Valid(hwIndex)
      BY <1>3, <1>8, <2>2 DEF Valid
    <3> QED BY <1>1, <2>2, <3>1, <3>2 DEF Numbers
  <2> QED BY <1>1, <1>8, <2>1, <2>2 DEF Numbers
<1> QED BY <1>4, <1>5, <1>6, <1>7, <1>8 DEF HwPos

-----------------------------------------------------------------------------
(* Steps that leave the closed TRBs alone.                                 *)

\* What the xHC's view of the ring is made of does not change.
Same ==
  /\ Front' = Front /\ FrontTurn' = FrontTurn /\ (Around' <=> Around)
  /\ dequeueIndex' = dequeueIndex /\ hwIndex' = hwIndex /\ hwCycle' = hwCycle
  /\ closed' = closed /\ ran' = ran /\ tds' = tds
  /\ \A i \in 0 .. Link :
       IF Around THEN i < Front \/ dequeueIndex <= i => trbs'[i] = trbs[i]
                 ELSE dequeueIndex <= i /\ i < Front => trbs'[i] = trbs[i]

\* A step that leaves the closed TRBs alone leaves the xHC where it was among them.
LEMMA SameRing ==
  ASSUME DriverInv, NEW f \in 0 .. Link, Ring(f), Same PROVE Ring(f)'
<1>1. /\ Front' = Front /\ FrontTurn' = FrontTurn /\ (Around' <=> Around)
      /\ dequeueIndex' = dequeueIndex /\ hwIndex' = hwIndex /\ hwCycle' = hwCycle
      /\ closed' = closed /\ ran' = ran /\ tds' = tds
  BY DEF Same
<1>2. \A i \in 0 .. Link : (Busy(f, i)' <=> Busy(f, i)) /\ IdAt(f, i)' = IdAt(f, i)
  BY <1>1 DEF Busy, IdAt
<1>3. \A i \in 0 .. Link : Busy(f, i) => trbs'[i] = trbs[i]
  BY DEF Same, Busy
<1>4. EndInv(f)'
  <2>1. Around => dequeueIndex <= f /\ trbs[f].kind = "link" /\ (f = Link \/ f > MaxTD)
    BY DEF Ring, EndInv
  <2>2. Around => trbs'[f] = trbs[f]
    BY <2>1 DEF Same
  <2> QED BY <1>1, <2>1, <2>2 DEF EndInv
<1>5. HwPos(f)'
  BY <1>1 DEF Ring, HwPos
<1>6. ContentInv(f)'
  BY <1>1, <1>2, <1>3 DEF Ring, ContentInv
<1>7. TdsInv(f)'
  <2>1. \A k \in DOMAIN tds : tds[k].index \in 0 .. Link
    BY ScheduleShrinks, Sizes DEF DriverInv
  <2> QED BY <1>1, <1>2, <2>1 DEF Ring, TdsInv
<1> QED BY <1>4, <1>5, <1>6, <1>7 DEF Ring

\* It leaves the schedule and the events as they were, too.
LEMMA SameView ==
  DriverInv /\ RingInv /\ QueueInv /\ Same /\ events' = events /\ (suspect' <=> suspect)
    => RingInv' /\ QueueInv'
<1> SUFFICES ASSUME DriverInv, RingInv, QueueInv, Same, events' = events, suspect' <=> suspect
             PROVE RingInv' /\ QueueInv'
  OBVIOUS
<1>1. RingInv'
  BY SameRing DEF RingInv
<1>2. closed' = closed /\ ran' = ran /\ tds' = tds
  BY DEF Same
<1>3. QueueInv'
  BY <1>2 DEF QueueInv
<1> QED BY <1>1, <1>3

\* Starting a TD touches nothing the xHC looks at.
LEMMA ScheduleView == DriverInv /\ ViewInv /\ ScheduleTD => ViewInv'
<1> SUFFICES ASSUME DriverInv, ViewInv, ScheduleTD PROVE ViewInv'
  OBVIOUS
<1>1. /\ dpc = "idle" /\ dpc' = "next" /\ first' = first /\ tdStart' = closed
      /\ UNCHANGED <<trbs, enqueueIndex, dequeueIndex, cycleState, tds, hwIndex, hwCycle, events,
                     closed, ran>>
      /\ (suspect' <=> suspect) /\ (torn' <=> torn) /\ (armed' <=> armed)
  BY DEF ScheduleTD, DriverInv, LayInv, ringVars, hwVars
<1>2. Same
  BY <1>1 DEF Same, Front, FrontTurn, Around, Wrapped
<1>3. RingInv' /\ QueueInv'
  BY <1>1, <1>2, SameView DEF ViewInv
<1>4. StrandInv'
  <2>1. Front' = Front
    BY <1>2 DEF Same
  <2> SUFFICES ASSUME ~suspect, ~torn
               PROVE  /\ ~armed => tdStart' <= ran'
                      /\ tds # <<>> => tds[Len(tds)].id = closed
                      /\ tds = <<>> => dequeueIndex = Front \/ (Front = 0 /\ MaxTD <= dequeueIndex - 1)
    BY <1>1, <2>1 DEF StrandInv
  <2>2. ran \in Nat
    BY Places DEF Numbers, DriverInv
  <2> QED BY <1>1, <2>2 DEF ViewInv, StrandInv
<1> QED BY <1>3, <1>4 DEF ViewInv

\* The steps that lay out a TRB: they are before a fragment is closed or moved.
LEMMA LayoutView ==
  DriverInv /\ ViewInv /\ Same /\ events' = events /\ (suspect' <=> suspect)
    /\ tdStart' = tdStart /\ (torn' <=> torn) /\ (armed' <=> armed)
    /\ dpc # "idle" /\ dpc' # "idle" => ViewInv'
<1> SUFFICES ASSUME DriverInv, ViewInv, Same, events' = events, suspect' <=> suspect,
                    tdStart' = tdStart, torn' <=> torn, armed' <=> armed, dpc # "idle", dpc' # "idle"
             PROVE ViewInv'
  OBVIOUS
<1>1. RingInv' /\ QueueInv'
  BY SameView DEF ViewInv
<1>2. StrandInv'
  BY DEF StrandInv, ViewInv, Same
<1> QED BY <1>1, <1>2 DEF ViewInv

\* Taking a slot in front of the closed TRBs does not touch them.
LEMMA TakeNextView == DriverInv /\ ViewInv /\ TakeNext => ViewInv'
<1> SUFFICES ASSUME DriverInv, ViewInv, TakeNext PROVE ViewInv'
  OBVIOUS
<1>1. /\ dpc = "next" /\ dpc' = "fill" /\ ~(enqueueIndex = 0 /\ first # None) /\ enqueueIndex # Link - 1
      /\ enqueueIndex + 1 # dequeueIndex
      /\ first' = (IF first = None THEN enqueueIndex ELSE first)
      /\ enqueueIndex' = enqueueIndex + 1
      /\ UNCHANGED <<dequeueIndex, cycleState, tds, hwIndex, hwCycle, events, closed, ran, tdStart>>
      /\ (suspect' <=> suspect) /\ (torn' <=> torn) /\ (armed' <=> armed)
  BY DEF TakeNext, AtLast, MustMove, Take, QueueFull, hwVars, histVars
<1>2. Numbers
  BY Places DEF DriverInv
<1>3. ~Wrapped /\ ~Wrapped'
  BY <1>1, <1>2 DEF Wrapped, Numbers
<1>4. Front' = Front /\ FrontTurn' = FrontTurn /\ (Around' <=> Around)
  <2>1. Front' = Front
    BY <1>1, <1>2, Sizes DEF Front, Numbers
  <2>2. Around' <=> Around
    BY <1>1, <1>2, <1>3 DEF Around, Numbers
  <2> QED BY <1>1, <1>3, <2>1, <2>2 DEF FrontTurn
<1>5. \A i \in 0 .. Link : i # enqueueIndex => trbs'[i] = trbs[i]
  BY DEF TakeNext, DriverInv, TypeOK
<1>6. ASSUME NEW i \in 0 .. Link, IF Around THEN i < Front \/ dequeueIndex <= i ELSE dequeueIndex <= i /\ i < Front
      PROVE  i # enqueueIndex
  BY <1>2, <1>3, <1>6 DEF Around, Numbers
<1>7. Same
  BY <1>1, <1>4, <1>5, <1>6 DEF Same
<1> QED BY <1>1, <1>7, LayoutView

\* Nor does going round: the end of the closed TRBs is where it was.
LEMMA TakeLastView == DriverInv /\ ViewInv /\ TakeLast => ViewInv'
<1> SUFFICES ASSUME DriverInv, ViewInv, TakeLast PROVE ViewInv'
  OBVIOUS
<1>1. /\ dpc = "next" /\ dpc' = "fill" /\ enqueueIndex = Link - 1 /\ dequeueIndex # 0
      /\ first' = (IF first = None THEN enqueueIndex ELSE first)
      /\ enqueueIndex' = 0 /\ cycleState' = 1 - cycleState
      /\ UNCHANGED <<dequeueIndex, tds, hwIndex, hwCycle, events, closed, ran, tdStart>>
      /\ (suspect' <=> suspect) /\ (torn' <=> torn) /\ (armed' <=> armed)
  BY DEF TakeLast, AtLast, Take, QueueFull, hwVars, histVars
<1>2. Numbers
  BY Places DEF DriverInv
<1>3. ~Wrapped /\ Wrapped' /\ ~Around /\ ~Around'
  <2>1. ~Wrapped /\ Wrapped'
    BY <1>1, <1>2, Sizes DEF Wrapped, Numbers
  <2>2. ~Around /\ ~Around'
    BY <1>1, <1>2, <2>1, Sizes DEF Around, Numbers
  <2> QED BY <2>1, <2>2
<1>4. Front' = Front /\ FrontTurn' = FrontTurn /\ Front <= enqueueIndex
  <2>1. Front' = Front
    BY <1>1, <1>2, Sizes DEF Front, Numbers
  <2>2. FrontTurn' = FrontTurn
    BY <1>1, <1>2, <1>3 DEF FrontTurn, Numbers
  <2> QED BY <1>2, <1>3, <2>1, <2>2 DEF Numbers
<1>5. \A i \in 0 .. Link : i # enqueueIndex /\ i # Link => trbs'[i] = trbs[i]
  BY DEF TakeLast, DriverInv, TypeOK
<1>6. ASSUME NEW i \in 0 .. Link, i < Front
      PROVE  i # enqueueIndex /\ i # Link
  BY <1>1, <1>2, <1>4, <1>6, Sizes DEF Numbers
<1>7. Same
  BY <1>1, <1>3, <1>4, <1>5, <1>6 DEF Same
<1> QED BY <1>1, <1>7, LayoutView

\* The copies go to slots before dequeueIndex, where nothing is closed.
LEMMA MoveView == DriverInv /\ ViewInv /\ MoveFragment => ViewInv'
<1> SUFFICES ASSUME DriverInv, ViewInv, MoveFragment PROVE ViewInv'
  OBVIOUS
<1>1. /\ dpc = "next" /\ dpc' = "relink" /\ enqueueIndex = 0 /\ first # None
      /\ dequeueIndex >= Link - first + 2
      /\ UNCHANGED <<enqueueIndex, dequeueIndex, cycleState, first, tds, hwIndex, hwCycle, events,
                     closed, ran, tdStart>>
      /\ (suspect' <=> suspect) /\ (torn' <=> torn) /\ (armed' <=> armed)
  <2>1. Numbers
    BY Places DEF DriverInv
  <2>2. dequeueIndex >= Link - first + 2
    BY <2>1, Sizes DEF MoveFragment, MustMove, QueueFull, AtLast, Numbers
  <2> QED BY <2>2 DEF MoveFragment, MustMove, hwVars, histVars
<1>2. Numbers
  BY Places DEF DriverInv
<1>3. Wrapped /\ ~Around /\ Front' = Front /\ FrontTurn' = FrontTurn /\ (Around' <=> Around)
  BY <1>1 DEF Wrapped, Around, Front, FrontTurn
<1>4. \A i \in 0 .. Link : dequeueIndex <= i => trbs'[i] = trbs[i]
  <2>1. \A i \in 0 .. Link : dequeueIndex <= i => ~(i < Link - first)
    BY <1>1, <1>2, Sizes DEF Numbers
  <2> QED BY <2>1 DEF MoveFragment
<1>5. Same
  BY <1>1, <1>3, <1>4 DEF Same
<1> QED BY <1>1, <1>5, LayoutView

\* The words of a TRB go to the open fragment.
LEMMA FillView == DriverInv /\ ViewInv /\ Fill => ViewInv'
<1> SUFFICES ASSUME DriverInv, ViewInv, Fill PROVE ViewInv'
  OBVIOUS
<1>1. /\ dpc = "fill" /\ dpc' # "idle"
      /\ UNCHANGED <<enqueueIndex, dequeueIndex, cycleState, first, tds, hwIndex, hwCycle, events,
                     closed, ran, tdStart>>
      /\ (suspect' <=> suspect) /\ (torn' <=> torn) /\ (armed' <=> armed)
  BY DEF Fill, hwVars, histVars
<1>2. Numbers
  BY Places DEF DriverInv
<1>3. Front' = Front /\ FrontTurn' = FrontTurn /\ (Around' <=> Around)
  BY <1>1 DEF Wrapped, Around, Front, FrontTurn
<1>4. \A i \in 0 .. Link : i # slot => trbs'[i] = trbs[i]
  BY DEF Fill, DriverInv, TypeOK
<1>5. /\ first # None /\ slot = first + Length - 1 /\ Length >= 1
      /\ enqueueIndex = 0 \/ first < enqueueIndex
  BY <1>1 DEF DriverInv, LayInv, OpenInv
<1>6. ~Wrapped => Length = enqueueIndex - first
  BY <1>5 DEF Length, Wrapped
<1>7. ASSUME NEW i \in 0 .. Link, IF Around THEN i < Front \/ dequeueIndex <= i ELSE i < Front
      PROVE  i # slot
  BY <1>2, <1>5, <1>6, <1>7 DEF Around, Front, Numbers
<1>8. Same
  BY <1>1, <1>3, <1>4, <1>7 DEF Same
<1> QED BY <1>1, <1>8, LayoutView

\* What is put back was not closed, but for a TD one of whose fragments was (torn).
LEMMA GiveUpView == DriverInv /\ ViewInv /\ GiveUp => ViewInv'
<1> SUFFICES ASSUME DriverInv, ViewInv, GiveUp PROVE ViewInv'
  OBVIOUS
<1>1. /\ dpc = "fill" /\ first # None /\ dpc' = "idle" /\ first' = None
      /\ enqueueIndex' = first /\ cycleState' = (IF Wrapped THEN 1 - cycleState ELSE cycleState)
      /\ \A i \in 0 .. Link :
           trbs'[i] = IF i > first /\ (Wrapped \/ i < enqueueIndex)
                      THEN [trbs[i] EXCEPT !.cycle = IF Wrapped THEN cycleState ELSE 1 - cycleState]
                      ELSE trbs[i]
      /\ torn' = (torn \/ closed > tdStart)
      /\ UNCHANGED <<dequeueIndex, tds, slot, hwVars, closed, tdStart, ran, suspect, reinits>>
  BY PutBackWalk DEF DriverInv
<1>2. Numbers
  BY Places DEF DriverInv
<1>3. (enqueueIndex = 0 \/ first < enqueueIndex) /\ Outside /\ tdStart <= closed
  BY <1>1 DEF DriverInv, LayInv, OpenInv
<1>4. Front' = Front /\ FrontTurn' = FrontTurn /\ Front = first /\ ~Wrapped'
  <2>1. Front' = Front /\ Front = first /\ ~Wrapped'
    BY <1>1 DEF Front, Wrapped
  <2> QED BY <1>1, <2>1 DEF FrontTurn
<1>5. Around' <=> Around
  BY <1>1, <1>2, <1>3, <1>4 DEF Around, Outside, Wrapped, Numbers
<1>6. ASSUME NEW i \in 0 .. Link, IF Around THEN i < Front \/ dequeueIndex <= i ELSE i < Front
      PROVE  trbs'[i] = trbs[i]
  <2>1. ~(i > first /\ (Wrapped \/ i < enqueueIndex))
    BY <1>2, <1>4, <1>6 DEF Around, Numbers
  <2> QED BY <1>1, <2>1
<1>7. Same
  BY <1>1, <1>4, <1>5, <1>6 DEF Same, hwVars
<1>8. RingInv' /\ QueueInv'
  BY <1>1, <1>7, SameView DEF ViewInv, hwVars
<1>9. StrandInv'
  <2> SUFFICES ASSUME ~suspect, ~torn, closed = tdStart
               PROVE  /\ ~armed => ran = closed
                      /\ tds # <<>> => tds[Len(tds)].id = closed
                      /\ tds = <<>> => dequeueIndex = Front \/ (Front = 0 /\ MaxTD <= dequeueIndex - 1)
    <3>1. ~torn' => ~torn /\ closed = tdStart
      <4>1. ~torn' => ~torn /\ ~(closed > tdStart)
        BY <1>1
      <4>2. ~(closed > tdStart) => closed = tdStart
        BY <1>2, <1>3 DEF Numbers
      <4> QED BY <4>1, <4>2
    <3> QED BY <1>1, <1>4, <3>1 DEF StrandInv, hwVars
  <2>1. /\ ~armed => tdStart <= ran
        /\ tds # <<>> => tds[Len(tds)].id = tdStart
        /\ tds = <<>> => dequeueIndex = Front \/ (Front = 0 /\ MaxTD <= dequeueIndex - 1)
    BY <1>1 DEF ViewInv, StrandInv
  <2>2. ran <= closed
    BY HwView DEF ViewInv, RingInv
  <2> QED BY <1>2, <2>1, <2>2 DEF Numbers
<1> QED BY <1>8, <1>9 DEF ViewInv

-----------------------------------------------------------------------------
(* A fragment is moved, or closed.                                         *)

\* The fragment that ended the ring's turn now begins the next one, and its old place is the link
\* there.
LEMMA RelinkView == DriverInv /\ ViewInv /\ Relink => ViewInv'
<1> SUFFICES ASSUME DriverInv, ViewInv, Relink PROVE ViewInv'
  OBVIOUS
<1>1. /\ dpc = "relink" /\ dpc' = "fill" /\ first' = 0 /\ enqueueIndex' = Link - first + 1
      /\ UNCHANGED <<dequeueIndex, cycleState, tds, hwIndex, hwCycle, events, closed, ran, tdStart>>
      /\ (suspect' <=> suspect) /\ (torn' <=> torn) /\ (armed' <=> armed)
  BY DEF Relink, hwVars, histVars
<1>2. /\ first \in Slots /\ enqueueIndex = 0 /\ left >= 1 /\ MaxTD <= dequeueIndex - 1
      /\ Link - first + left <= MaxTD /\ Link - first + 1 \in Slots /\ Link - first + 1 < first
      /\ Link - first >= 1
  BY <1>1, MovedFits DEF DriverInv
<1>3. Numbers /\ Outside
  BY <1>1, Places DEF DriverInv, OpenInv, LayInv
<1>4. /\ Wrapped /\ ~Wrapped' /\ Front = first /\ Front' = 0 /\ ~Around /\ Around' /\ dequeueIndex <= first
      /\ FrontTurn = 1 - cycleState /\ FrontTurn' = cycleState
  <2>1. first # None /\ first' # None /\ enqueueIndex' # 0 /\ Link - first + 1 < dequeueIndex
    BY <1>1, <1>2, <1>3, Sizes DEF Numbers
  <2>2. Wrapped /\ ~Wrapped' /\ Front = first /\ Front' = 0
    BY <1>1, <1>2, <2>1 DEF Wrapped, Front
  <2>3. ~Around /\ Around' /\ dequeueIndex <= first
    BY <1>1, <1>3, <2>1, <2>2 DEF Around, Outside
  <2> QED BY <1>1, <2>2, <2>3 DEF FrontTurn
<1>5. /\ \A i \in 0 .. Link : i # first /\ i # Link - first => trbs'[i] = trbs[i]
      /\ trbs'[first] = trbs[Link]
  <2>1. trbs \in [0 .. Link -> TRB] /\ first \in 0 .. Link /\ Link - first # first
    BY <1>2, <1>3, Sizes DEF DriverInv, TypeOK, Numbers
  <2> QED BY <2>1 DEF Relink
<1>6. first > MaxTD /\ Link - first < dequeueIndex /\ first \in 0 .. Link
  BY <1>2, <1>3, Sizes DEF Numbers
<1>g. PICK g \in 0 .. Link : g = first
  BY <1>6
<1>7. ASSUME NEW f \in 0 .. Link, Ring(f) PROVE Ring(g)'
  <2>0. g \in Int /\ g = first
    BY <1>3, <1>g DEF Numbers
  <2>1. \A i \in 0 .. Link : /\ (dequeueIndex' <= i /\ i < g) \/ i < Front' <=> Busy(f, i)
                             /\ Busy(f, i) => /\ i # first /\ i # Link - first
                                              /\ dequeueIndex <= i /\ closed - 0 - (g - 1 - i) = IdAt(f, i)
    BY <1>1, <1>3, <1>4, <1>6, <2>0 DEF Busy, IdAt, Numbers
  <2>2. EndInv(f) /\ HwPos(f) /\ ContentInv(f) /\ TdsInv(f)
    BY <1>7 DEF Ring
  <2>3. trbs'[g].kind = "link" /\ dequeueIndex' <= g /\ g > MaxTD
    BY <1>1, <1>4, <1>5, <1>6, <2>0 DEF DriverInv, LayInv
  <2>4. /\ dequeueIndex' <= hwIndex' /\ hwIndex' <= g
        /\ hwCycle' = 1 - cycleState /\ ran' = closed' - 0 - (g - hwIndex')
    <3>1. dequeueIndex # 0
      BY <1>2, <1>3, Sizes DEF Numbers
    <3>2. dequeueIndex <= hwIndex /\ hwIndex <= Front /\ hwCycle = FrontTurn /\ ran = closed - (Front - hwIndex)
      BY <1>4, <2>2, <3>1 DEF HwPos
    <3> QED BY <1>1, <1>3, <1>4, <2>0, <3>2 DEF Numbers
  <2>5. \A k \in DOMAIN tds : tds[k].index \in 0 .. Link
    BY ScheduleShrinks, Sizes DEF DriverInv
  <2>6. \A i \in 0 .. Link : /\ Busy(g, i)' <=> Busy(f, i)
                             /\ Busy(f, i) => IdAt(g, i)' = IdAt(f, i) /\ trbs'[i] = trbs[i]
    <3> SUFFICES ASSUME NEW i \in 0 .. Link
                 PROVE  /\ Busy(g, i)' <=> Busy(f, i)
                        /\ Busy(f, i) => IdAt(g, i)' = IdAt(f, i) /\ trbs'[i] = trbs[i]
      OBVIOUS
    <3>1. Busy(g, i)' <=> Busy(f, i)
      BY <1>4, <2>1 DEF Busy
    <3>2. Busy(f, i) => IdAt(g, i)' = IdAt(f, i)
      BY <1>1, <1>4, <2>1 DEF IdAt
    <3> QED BY <1>5, <2>1, <3>1, <3>2
  <2>7. EndInv(g)'
    BY <2>3 DEF EndInv
  <2>8. HwPos(g)'
    BY <1>4, <2>4 DEF HwPos
  <2>9. ContentInv(g)'
    BY <1>1, <2>2, <2>6 DEF ContentInv
  <2>10. TdsInv(g)'
    BY <1>1, <2>2, <2>5, <2>6 DEF TdsInv
  <2> QED BY <2>7, <2>8, <2>9, <2>10 DEF Ring
<1>8. RingInv'
  BY <1>1, <1>6, <1>7 DEF ViewInv, RingInv
<1>9. QueueInv'
  BY <1>1 DEF ViewInv, QueueInv
<1>10. StrandInv'
  BY <1>1, <1>2, <1>4 DEF ViewInv, StrandInv
<1> QED BY <1>8, <1>9, <1>10 DEF ViewInv

\* What CloseFragment does to the schedule.
LEMMA CloseSchedule ==
  ASSUME DriverInv, CloseFragment
  PROVE  /\ DOMAIN tds = 1 .. Len(tds) /\ Len(tds) \in Nat
         /\ \A k \in DOMAIN tds : tds[k].index \in 0 .. Link /\ tds[k].id \in Nat
         /\ left > 0 => tds' = tds
         /\ ~(left > 0) => /\ Len(tds') = Len(tds) + 1 /\ DOMAIN tds' = 1 .. Len(tds) + 1
                           /\ \A k \in DOMAIN tds : tds'[k] = tds[k]
                           /\ tds'[Len(tds) + 1].index = slot /\ tds'[Len(tds) + 1].id = written
<1> DEFINE TD == [index : Slots, id : 1 .. MaxTRBs, flushed : BOOLEAN]
           td == [index |-> slot, id |-> written, flushed |-> FALSE]
<1>1. tds \in Seq(TD)
  BY DEF DriverInv, TypeOK
<1>2. \A k \in DOMAIN tds : tds[k].index \in 0 .. Link /\ tds[k].id \in Nat
  BY ScheduleShrinks, Sizes DEF DriverInv
<1>3. td \in TD /\ td.index = slot /\ td.id = written
  <2>1. slot \in Slots /\ written \in 1 .. MaxTRBs
    BY Sizes DEF CloseFragment, DriverInv, TypeOK, LayInv
  <2> QED BY <2>1
<1>4. (left > 0 => tds' = tds) /\ (~(left > 0) => tds' = Append(tds, td))
  BY DEF CloseFragment, LastTrbIndex
<1> HIDE DEF TD, td
<1>5. DOMAIN tds = 1 .. Len(tds) /\ Len(tds) \in Nat
  BY <1>1
<1>6. ~(left > 0) => /\ Len(tds') = Len(tds) + 1 /\ DOMAIN tds' = 1 .. Len(tds) + 1
                     /\ \A k \in 1 .. Len(tds) : tds'[k] = tds[k]
                     /\ tds'[Len(tds) + 1] = td
  BY <1>1, <1>3, <1>4, AppendProperties
<1> QED BY <1>2, <1>3, <1>4, <1>5, <1>6

\* The closed TRBs take in those of the fragment, up to Front again: where it begins to be laid
\* out again, which is the start of the ring when the fragment ended the ring's turn.
LEMMA CloseRing ==
  ASSUME DriverInv, QueueInv, CloseFragment, ~suspect, NEW f \in 0 .. Link, Ring(f)
  PROVE  \E g \in 0 .. Link : Ring(g)'
<1>1. /\ dpc = "close" /\ closed' = written /\ first' = None
      /\ trbs' = [trbs EXCEPT ![first].cycle = 1 - @]
      /\ UNCHANGED <<enqueueIndex, dequeueIndex, cycleState, slot, written, hwIndex, hwCycle, ran>>
  BY DEF CloseFragment
<1>2. Numbers
  BY Places DEF DriverInv
<1>3. /\ first # None /\ (enqueueIndex = 0 \/ first < enqueueIndex)
      /\ Outside /\ Length >= 1 /\ slot = first + Length - 1 /\ Filled = Length /\ written = closed + Length
  BY <1>1 DEF DriverInv, LayInv, OpenInv, Filled
<1>n. /\ closed' = closed + Length /\ first' = None
      /\ enqueueIndex' = enqueueIndex /\ dequeueIndex' = dequeueIndex /\ cycleState' = cycleState
      /\ hwIndex' = hwIndex /\ hwCycle' = hwCycle /\ ran' = ran
  BY <1>1, <1>3
<1>4. EndInv(f) /\ HwPos(f) /\ ContentInv(f) /\ TdsInv(f)
  BY DEF Ring
<1>5. first \in 0 .. Link /\ trbs \in [0 .. Link -> TRB] /\ Front = first /\ first + Length <= Link
  <2>1. Front = first /\ trbs \in [0 .. Link -> TRB]
    BY <1>3 DEF Front, DriverInv, TypeOK
  <2>2. first \in 0 .. Link /\ first + Length <= Link
    BY <1>2, <1>3, Sizes DEF Length, Numbers
  <2> QED BY <2>1, <2>2
<1>6. \A i \in 0 .. Link : /\ trbs'[i].kind = trbs[i].kind /\ trbs'[i].id = trbs[i].id
                           /\ (trbs'[i].last <=> trbs[i].last)
  <2> SUFFICES ASSUME NEW i \in 0 .. Link
               PROVE /\ trbs'[i].kind = trbs[i].kind /\ trbs'[i].id = trbs[i].id
                     /\ (trbs'[i].last <=> trbs[i].last)
    OBVIOUS
  <2>1. CASE i = first
    <3>1. trbs'[i] = [trbs[i] EXCEPT !.cycle = 1 - @] /\ trbs[i] \in TRB
      BY <1>1, <1>5, <2>1
    <3> QED BY <3>1 DEF TRB
  <2>2. CASE i # first
    <3>1. trbs'[i] = trbs[i]
      BY <1>1, <1>5, <2>2
    <3> QED BY <3>1
  <2> QED BY <2>1, <2>2
<1> DEFINE New(i) == first <= i /\ i < first + Length
<1>7. \E g \in 0 .. Link :
        /\ EndInv(g)' /\ HwPos(g)'
        /\ \A i \in 0 .. Link :
             /\ Busy(g, i)' <=> Busy(f, i) \/ New(i)
             /\ Busy(f, i) => ~New(i) /\ IdAt(g, i)' = IdAt(f, i)
             /\ New(i) => IdAt(g, i)' = closed + 1 + (i - first)
  <2>1. CASE Wrapped
    <3>1. /\ ~Wrapped' /\ Front' = 0 /\ ~Around /\ Around' /\ FrontTurn = 1 - cycleState
          /\ FrontTurn' = cycleState /\ Length = Link - first /\ 0 < dequeueIndex /\ dequeueIndex <= first
      <4>1. ~Wrapped' /\ Front' = 0 /\ 0 < dequeueIndex /\ dequeueIndex <= first /\ Length = Link - first
        BY <1>n, <1>3, <2>1 DEF Wrapped, Front, Outside, Length
      <4>2. ~Around /\ Around'
        BY <1>n, <2>1, <4>1 DEF Around, Wrapped
      <4> QED BY <1>n, <2>1, <4>1, <4>2 DEF FrontTurn
    <3>2. PICK g \in 0 .. Link : g = Link
      BY Sizes
    <3>3. EndInv(g)'
      <4>1. dequeueIndex' <= g /\ trbs'[g].kind = "link" /\ g = Link
        BY <1>n, <1>2, <1>6, <3>2 DEF Numbers, DriverInv, LayInv
      <4> QED BY <4>1 DEF EndInv
    <3>4. HwPos(g)'
      <4>1. dequeueIndex <= hwIndex /\ hwIndex <= first /\ hwCycle = FrontTurn /\ ran = closed - (first - hwIndex)
        BY <1>2, <1>4, <1>5, <3>1 DEF HwPos, Numbers
      <4>2. /\ dequeueIndex' <= hwIndex' /\ hwIndex' <= g /\ hwCycle' = 1 - FrontTurn'
            /\ ran' = closed' - Front' - (g - hwIndex')
        BY <1>n, <1>2, <3>1, <3>2, <4>1 DEF Numbers
      <4> QED BY <3>1, <4>2 DEF HwPos
    <3>5. ASSUME NEW i \in 0 .. Link
          PROVE  /\ Busy(g, i)' <=> Busy(f, i) \/ New(i)
                 /\ Busy(f, i) => ~New(i) /\ IdAt(g, i)' = IdAt(f, i)
                 /\ New(i) => IdAt(g, i)' = closed + 1 + (i - first)
      <4>1. /\ Busy(f, i) <=> (dequeueIndex <= i /\ i < first)
            /\ Busy(g, i)' <=> ((dequeueIndex' <= i /\ i < g) \/ i < 0)
            /\ IdAt(f, i) = closed - (first - 1 - i)
            /\ IdAt(g, i)' = IF dequeueIndex' <= i THEN closed' - 0 - (g - 1 - i) ELSE closed' - (0 - 1 - i)
        BY <1>5, <3>1 DEF Busy, IdAt
      <4> QED BY <1>n, <1>2, <3>1, <3>2, <4>1 DEF Numbers
    <3> QED BY <3>3, <3>4, <3>5
  <2>2. CASE ~Wrapped
    <3>1. /\ ~Wrapped' /\ Front' = enqueueIndex /\ (Around' <=> Around) /\ FrontTurn' = FrontTurn
          /\ Length = enqueueIndex - first /\ (dequeueIndex <= first \/ enqueueIndex < dequeueIndex)
          /\ first < enqueueIndex
      <4>1. /\ ~Wrapped' /\ Front' = enqueueIndex /\ Length = enqueueIndex - first
            /\ (dequeueIndex <= first \/ enqueueIndex < dequeueIndex) /\ first < enqueueIndex
        BY <1>n, <1>3, <2>2 DEF Wrapped, Front, Outside, Length
      <4>2. Around' <=> Around
        BY <1>n, <2>2, <4>1 DEF Around
      <4> QED BY <1>n, <2>2, <4>1, <4>2 DEF FrontTurn
    <3>3. EndInv(f)'
      BY <1>n, <1>4, <1>6, <3>1 DEF EndInv
    <3>4. HwPos(f)'
      <4>1. CASE Around
        BY <1>n, <1>2, <1>4, <1>5, <3>1, <4>1 DEF HwPos, Numbers
      <4>2. CASE ~Around
        BY <1>n, <1>2, <1>4, <1>5, <3>1, <4>2 DEF HwPos, Numbers
      <4> QED BY <4>1, <4>2
    <3>5. ASSUME NEW i \in 0 .. Link
          PROVE  /\ Busy(f, i)' <=> Busy(f, i) \/ New(i)
                 /\ Busy(f, i) => ~New(i) /\ IdAt(f, i)' = IdAt(f, i)
                 /\ New(i) => IdAt(f, i)' = closed + 1 + (i - first)
      <4>1. CASE Around
        <5>1. /\ Busy(f, i) <=> ((dequeueIndex <= i /\ i < f) \/ i < first)
              /\ Busy(f, i)' <=> ((dequeueIndex' <= i /\ i < f) \/ i < enqueueIndex)
              /\ IdAt(f, i) = IF dequeueIndex <= i THEN closed - first - (f - 1 - i) ELSE closed - (first - 1 - i)
              /\ IdAt(f, i)' = IF dequeueIndex' <= i THEN closed' - enqueueIndex - (f - 1 - i) ELSE closed' - (enqueueIndex - 1 - i)
          BY <1>5, <3>1, <4>1 DEF Busy, IdAt
        <5>2. enqueueIndex < dequeueIndex
          BY <4>1 DEF Around
        <5> QED BY <1>n, <1>2, <3>1, <5>1, <5>2 DEF Numbers
      <4>2. CASE ~Around
        <5>1. /\ Busy(f, i) <=> (dequeueIndex <= i /\ i < first)
              /\ Busy(f, i)' <=> (dequeueIndex' <= i /\ i < enqueueIndex)
              /\ IdAt(f, i) = closed - (first - 1 - i)
              /\ IdAt(f, i)' = closed' - (enqueueIndex - 1 - i)
          BY <1>5, <3>1, <4>2 DEF Busy, IdAt
        <5>2. dequeueIndex <= first
          BY <2>2, <3>1, <4>2 DEF Around
        <5> QED BY <1>n, <1>2, <3>1, <5>1, <5>2 DEF Numbers
      <4> QED BY <4>1, <4>2
    <3> QED BY <3>3, <3>4, <3>5
  <2> QED BY <2>1, <2>2
<1>8. PICK g \in 0 .. Link :
        /\ EndInv(g)' /\ HwPos(g)'
        /\ \A i \in 0 .. Link :
             /\ Busy(g, i)' <=> Busy(f, i) \/ New(i)
             /\ Busy(f, i) => ~New(i) /\ IdAt(g, i)' = IdAt(f, i)
             /\ New(i) => IdAt(g, i)' = closed + 1 + (i - first)
  BY <1>7
<1>9. \A i \in 0 .. Link : Busy(f, i) => IdAt(f, i) \in Int /\ IdAt(f, i) <= closed
  BY <1>4, BusyIds
<1>10. ContentInv(g)'
  <2> SUFFICES ASSUME NEW i \in 0 .. Link, Busy(g, i)'
               PROVE  /\ trbs'[i].kind = "trb" /\ trbs'[i].id = IdAt(g, i)'
                      /\ ran' < IdAt(g, i)' => (trbs'[i].last <=> \E k \in DOMAIN tds' : tds'[k].id = IdAt(g, i)')
    BY DEF ContentInv
  <2>1. CASE Busy(f, i)
    <3>1. IdAt(g, i)' = IdAt(f, i)
      BY <1>8, <2>1
    <3>2. /\ trbs[i].kind = "trb" /\ trbs[i].id = IdAt(f, i)
          /\ ran < IdAt(f, i) => (trbs[i].last <=> \E k \in DOMAIN tds : tds[k].id = IdAt(f, i))
      BY <1>4, <2>1 DEF ContentInv
    <3>3. (\E k \in DOMAIN tds' : tds'[k].id = IdAt(f, i)) <=> \E k \in DOMAIN tds : tds[k].id = IdAt(f, i)
      <4>1. CASE left > 0
        BY <4>1, CloseSchedule
      <4>2. CASE ~(left > 0)
        <5>1. written # IdAt(f, i)
          BY <1>2, <1>3, <1>9, <2>1 DEF Numbers
        <5>2. /\ DOMAIN tds = 1 .. Len(tds) /\ Len(tds) \in Nat /\ DOMAIN tds' = 1 .. Len(tds) + 1
              /\ \A k \in DOMAIN tds : tds'[k] = tds[k]
              /\ tds'[Len(tds) + 1].id = written
          BY <4>2, CloseSchedule
        <5>3. \A k \in DOMAIN tds' : k \in DOMAIN tds \/ k = Len(tds) + 1
          BY <5>2
        <5>4. \A k \in DOMAIN tds : k \in DOMAIN tds'
          BY <5>2
        <5> QED BY <5>1, <5>2, <5>3, <5>4
      <4> QED BY <4>1, <4>2
    <3> QED BY <1>n, <1>6, <3>1, <3>2, <3>3
  <2>2. CASE New(i)
    <3>1. IdAt(g, i)' = closed + 1 + (i - first)
      BY <1>8, <2>2
    <3>2. PICK j \in 0 .. Filled - 1 : i = first + j
      <4>1. i - first \in 0 .. Filled - 1 /\ i = first + (i - first)
        BY <1>2, <1>3, <2>2 DEF Numbers
      <4> QED BY <4>1
    <3>3. /\ trbs[i].kind = "trb" /\ trbs[i].id = closed + 1 + j
          /\ trbs[i].last <=> (left = 0 /\ j = Filled - 1)
      BY <1>1, <1>3, <3>2 DEF DriverInv, OpenInv
    <3>4. IdAt(g, i)' = closed + 1 + j /\ j \in Int /\ 0 <= j
      BY <1>2, <3>1, <3>2 DEF Numbers
    <3>5. (\E k \in DOMAIN tds' : tds'[k].id = closed + 1 + j) <=> (left = 0 /\ j = Filled - 1)
      <4>1. \A k \in DOMAIN tds : tds[k].id # closed + 1 + j
        <5>1. \A k \in DOMAIN tds : tds[k].id <= closed /\ tds[k].id \in Nat
          BY CloseSchedule DEF QueueInv
        <5> QED BY <1>2, <3>4, <5>1 DEF Numbers
      <4>2. CASE left > 0
        <5>1. left # 0
          BY <4>2, <1>2 DEF Numbers
        <5> QED BY <4>1, <4>2, <5>1, CloseSchedule
      <4>3. CASE ~(left > 0)
        <5>1. left = 0 /\ (written = closed + 1 + j <=> j = Filled - 1)
          BY <1>2, <1>3, <3>4, <4>3 DEF Numbers
        <5>2. /\ DOMAIN tds = 1 .. Len(tds) /\ Len(tds) \in Nat /\ DOMAIN tds' = 1 .. Len(tds) + 1
              /\ \A k \in DOMAIN tds : tds'[k] = tds[k]
              /\ tds'[Len(tds) + 1].id = written
          BY <4>3, CloseSchedule
        <5>3. \A k \in DOMAIN tds' : k \in DOMAIN tds \/ k = Len(tds) + 1
          BY <5>2
        <5>4. Len(tds) + 1 \in DOMAIN tds'
          BY <5>2
        <5> QED BY <4>1, <5>1, <5>2, <5>3, <5>4
      <4> QED BY <4>2, <4>3
    <3> QED BY <1>6, <3>3, <3>4, <3>5
  <2> QED BY <1>8, <2>1, <2>2
<1>11. TdsInv(g)'
  <2> SUFFICES ASSUME NEW k \in DOMAIN tds'
               PROVE \E i \in 0 .. Link : i = tds'[k].index /\ Busy(g, i)' /\ tds'[k].id = IdAt(g, i)'
    <3>1. \A k \in DOMAIN tds' : \E i \in 0 .. Link :
            i = tds'[k].index /\ Busy(g, i)' /\ tds'[k].id = IdAt(g, i)'
      OBVIOUS
    <3>2. \A k \in DOMAIN tds' : (Busy(g, tds[k].index) /\ tds[k].id = IdAt(g, tds[k].index))'
      <4> SUFFICES ASSUME NEW k \in DOMAIN tds'
                   PROVE (Busy(g, tds[k].index) /\ tds[k].id = IdAt(g, tds[k].index))'
        OBVIOUS
      <4>1. PICK i \in 0 .. Link : i = tds'[k].index /\ Busy(g, i)' /\ tds'[k].id = IdAt(g, i)'
        BY <3>1
      <4> QED BY <4>1 DEF Busy, IdAt
    <3> QED BY <3>2 DEF TdsInv
  <2>1. CASE k \in DOMAIN tds /\ tds'[k] = tds[k]
    <3>1. tds[k].index \in 0 .. Link /\ Busy(f, tds[k].index) /\ tds[k].id = IdAt(f, tds[k].index)
      BY <1>4, <2>1, CloseSchedule DEF TdsInv
    <3> QED BY <1>8, <2>1, <3>1
  <2>2. CASE ~(left > 0) /\ k = Len(tds) + 1
    <3>1. tds'[k].index = slot /\ tds'[k].id = written
      BY <2>2, CloseSchedule
    <3>2. slot \in 0 .. Link /\ New(slot) /\ closed + 1 + (slot - first) = written
      BY <1>2, <1>3, <1>5, Sizes DEF Numbers
    <3>3. PICK i \in 0 .. Link : i = slot
      BY <3>2
    <3>4. Busy(g, i)' /\ IdAt(g, i)' = written
      BY <1>8, <3>2, <3>3
    <3> QED BY <3>1, <3>3, <3>4
  <2>3. (k \in DOMAIN tds /\ tds'[k] = tds[k]) \/ (~(left > 0) /\ k = Len(tds) + 1)
    <3>1. CASE left > 0
      BY <3>1, CloseSchedule
    <3>2. CASE ~(left > 0)
      <4>1. DOMAIN tds' = 1 .. Len(tds) + 1 /\ DOMAIN tds = 1 .. Len(tds) /\ Len(tds) \in Nat
        BY <3>2, CloseSchedule
      <4>2. k \in DOMAIN tds \/ k = Len(tds) + 1
        BY <4>1
      <4> QED BY <3>2, <4>2, CloseSchedule
    <3> QED BY <3>1, <3>2
  <2> QED BY <2>1, <2>2, <2>3
<1> QED BY <1>8, <1>10, <1>11 DEF Ring

\* CloseFragment appends the fragment to the closed TRBs, where the xHC will get to it.
LEMMA CloseView == DriverInv /\ ViewInv /\ CloseFragment => ViewInv'
<1> SUFFICES ASSUME DriverInv, ViewInv, CloseFragment PROVE ViewInv'
  OBVIOUS
<1>1. /\ dpc = "close" /\ closed' = written /\ first' = None
      /\ events' = events /\ ran' = ran /\ tdStart' = tdStart
      /\ (suspect' <=> suspect) /\ (torn' <=> torn)
      /\ left > 0 => dpc' = "next" /\ tds' = tds /\ (armed' <=> armed)
      /\ ~(left > 0) => dpc' = "idle" /\ armed'
  BY DEF CloseFragment, Doorbell
<1>2. Numbers
  BY Places DEF DriverInv
<1>3. Length >= 1 /\ written = closed + Length /\ tdStart <= closed /\ (left > 0 \/ left = 0)
  BY <1>1, <1>2 DEF DriverInv, LayInv, OpenInv, Filled, Numbers
<1>4. RingInv'
  BY <1>1, CloseRing DEF ViewInv, RingInv
<1>5. /\ DOMAIN tds = 1 .. Len(tds) /\ Len(tds) \in Nat
      /\ \A k \in DOMAIN tds : tds[k].id \in Nat
      /\ left > 0 => tds' = tds
      /\ ~(left > 0) => /\ Len(tds') = Len(tds) + 1 /\ DOMAIN tds' = 1 .. Len(tds) + 1
                        /\ \A k \in DOMAIN tds : tds'[k] = tds[k]
                        /\ tds'[Len(tds) + 1].id = written
  BY CloseSchedule
<1>6. QueueInv'
  <2> SUFFICES ASSUME ~suspect
               PROVE  /\ \A k \in DOMAIN tds' : tds'[k].id <= closed'
                      /\ \A j, k \in DOMAIN tds' : j < k => tds'[j].id < tds'[k].id
                      /\ Len(events') <= Len(tds')
                      /\ \A k \in DOMAIN events' : events'[k] = tds'[k].index
                      /\ \A k \in DOMAIN tds' : tds'[k].id <= ran' <=> k <= Len(events')
    BY <1>1 DEF QueueInv
  <2>1. /\ \A k \in DOMAIN tds : tds[k].id <= closed
        /\ \A j, k \in DOMAIN tds : j < k => tds[j].id < tds[k].id
        /\ Len(events) <= Len(tds)
        /\ \A k \in DOMAIN events : events[k] = tds[k].index
        /\ \A k \in DOMAIN tds : tds[k].id <= ran <=> k <= Len(events)
    BY DEF ViewInv, QueueInv
  <2>2. closed < written
    BY <1>2, <1>3 DEF Numbers
  <2>3. ran <= closed
    BY HwView DEF ViewInv, RingInv
  <2>4. DOMAIN events = 1 .. Len(events) /\ Len(events) \in Nat
    BY DEF DriverInv, TypeOK
  <2>5. CASE left > 0
    <3>1. \A k \in DOMAIN tds : tds[k].id <= written
      BY <1>2, <1>5, <2>1, <2>2 DEF Numbers
    <3> QED BY <1>1, <2>1, <2>5, <3>1
  <2>6. CASE ~(left > 0)
    <3>1. \A k \in DOMAIN tds' : k \in DOMAIN tds \/ k = Len(tds) + 1
      BY <1>5, <2>6
    <3>2. \A k \in DOMAIN tds : tds'[k] = tds[k] /\ k < Len(tds) + 1
      BY <1>5, <2>6
    <3>3. \A k \in DOMAIN tds' : tds'[k].id <= written
      BY SMTT(30), <1>2, <1>5, <2>1, <2>2, <2>6, <3>1, <3>2 DEF Numbers
    <3>4. ASSUME NEW j \in DOMAIN tds', NEW k \in DOMAIN tds', j < k PROVE tds'[j].id < tds'[k].id
      <4>1. j \in DOMAIN tds
        BY <1>5, <2>6, <3>4
      <4>2. CASE k \in DOMAIN tds
        BY <2>1, <3>2, <3>4, <4>1, <4>2
      <4>3. CASE k = Len(tds) + 1
        <5>1. tds'[k].id = written /\ tds[j].id <= closed /\ tds'[j] = tds[j] /\ tds[j].id \in Nat
          BY <1>5, <2>1, <2>6, <3>2, <4>1, <4>3
        <5> QED BY <1>2, <2>2, <5>1 DEF Numbers
      <4> QED BY <3>1, <4>2, <4>3
    <3>5. Len(events) <= Len(tds')
      BY <1>5, <2>1, <2>4, <2>6
    <3>6. \A k \in DOMAIN events : events[k] = tds'[k].index
      <4>1. \A k \in DOMAIN events : k \in DOMAIN tds
        BY <1>5, <2>1, <2>4
      <4> QED BY <2>1, <3>2, <4>1
    <3>7. ASSUME NEW k \in DOMAIN tds' PROVE tds'[k].id <= ran <=> k <= Len(events)
      <4>1. CASE k \in DOMAIN tds
        BY <2>1, <3>2, <4>1
      <4>2. CASE k = Len(tds) + 1
        <5>1. tds'[k].id = written
          BY <1>5, <2>6, <4>2
        <5>2. ~(written <= ran)
          BY <1>2, <2>2, <2>3 DEF Numbers
        <5>3. ~(k <= Len(events))
          BY <1>5, <2>1, <2>4, <4>2
        <5> QED BY <5>1, <5>2, <5>3
      <4> QED BY <3>1, <4>1, <4>2
    <3> QED BY <1>1, <3>3, <3>4, <3>5, <3>6, <3>7
  <2> QED BY <2>5, <2>6
<1>7. StrandInv'
  <2> SUFFICES ASSUME ~suspect, ~torn
               PROVE  /\ ~armed' => IF dpc' = "idle" THEN ran' = closed' ELSE tdStart' <= ran'
                      /\ tds' # <<>> => tds'[Len(tds')].id = IF dpc' = "idle" THEN closed' ELSE tdStart'
                      /\ tds' = <<>> /\ (dpc' = "idle" \/ closed' = tdStart') =>
                           dequeueIndex' = Front' \/ (Front' = 0 /\ MaxTD <= dequeueIndex' - 1)
    BY <1>1 DEF StrandInv
  <2>1. CASE left > 0
    <3>1. closed' # tdStart' /\ dpc' = "next" /\ dpc # "idle"
      BY <1>1, <1>2, <1>3, <2>1 DEF Numbers
    <3>2. /\ ~armed => tdStart <= ran
          /\ tds # <<>> => tds[Len(tds)].id = tdStart
      BY <3>1 DEF ViewInv, StrandInv
    <3> QED BY <1>1, <2>1, <3>1, <3>2
  <2>2. CASE ~(left > 0)
    <3>1. Len(tds') # 0 /\ tds'[Len(tds')].id = written
      BY <1>5, <2>2
    <3>2. tds' # <<>>
      BY <3>1
    <3> QED BY <1>1, <2>2, <3>1, <3>2
  <2> QED BY <2>1, <2>2
<1> QED BY <1>4, <1>6, <1>7 DEF ViewInv

-----------------------------------------------------------------------------
(* TDs are retired.                                                        *)

\* TdsInv of the next state, slot by slot.
LEMMA TdsNext ==
  ASSUME NEW g \in 0 .. Link,
         \A k \in DOMAIN tds' : \E i \in 0 .. Link : i = tds'[k].index /\ Busy(g, i)' /\ tds'[k].id = IdAt(g, i)'
  PROVE  TdsInv(g)'
<1> SUFFICES ASSUME NEW k \in DOMAIN tds'
             PROVE (Busy(g, tds[k].index) /\ tds[k].id = IdAt(g, tds[k].index))'
  BY DEF TdsInv
<1>1. PICK i \in 0 .. Link : i = tds'[k].index /\ Busy(g, i)' /\ tds'[k].id = IdAt(g, i)'
  OBVIOUS
<1> QED BY <1>1 DEF Busy, IdAt

\* What is left of the schedule when its first k TDs are retired.
LEMMA Rest ==
  ASSUME DriverInv, QueueInv, ~suspect, NEW k \in DOMAIN tds, Dropped(k)
  PROVE  /\ DOMAIN tds = 1 .. Len(tds) /\ Len(tds) \in Nat /\ k \in Nat /\ k >= 1 /\ k <= Len(tds)
         /\ Len(tds') = Len(tds) - k /\ DOMAIN tds' = 1 .. Len(tds) - k
         /\ \A j \in DOMAIN tds' :
              /\ k + j \in DOMAIN tds /\ tds'[j].index = tds[k + j].index /\ tds'[j].id = tds[k + j].id
              /\ tds[k].id < tds[k + j].id
         /\ \A j \in DOMAIN tds : tds[j].id \in Nat /\ tds[j].index \in Slots
         /\ \A j \in DOMAIN tds : tds[k].id < tds[j].id =>
              j - k \in DOMAIN tds' /\ tds'[j - k].index = tds[j].index /\ tds'[j - k].id = tds[j].id
<1> DEFINE TD == [index : Slots, id : 1 .. MaxTRBs, flushed : BOOLEAN]
<1>1. tds \in Seq(TD)
  BY DEF DriverInv, TypeOK
<1>2. \A j \in DOMAIN tds : tds[j].id \in Nat /\ tds[j].index \in Slots
  BY ScheduleShrinks, Sizes DEF DriverInv
<1> HIDE DEF TD
<1>3. /\ tds' \in Seq(TD) /\ Len(tds') = Len(tds) - k
      /\ \A i \in 1 .. Len(tds) - k : tds'[i].index = tds[k + i].index /\ tds'[i].id = tds[k + i].id
  BY DEF Dropped, TD
<1>4. DOMAIN tds = 1 .. Len(tds) /\ Len(tds) \in Nat /\ k \in Nat /\ k >= 1 /\ k <= Len(tds)
  BY <1>1
<1>5. DOMAIN tds' = 1 .. Len(tds) - k
  BY <1>3
<1>6. \A i, j \in DOMAIN tds : i < j => tds[i].id < tds[j].id
  BY DEF QueueInv
<1>7. ASSUME NEW j \in DOMAIN tds'
      PROVE  /\ k + j \in DOMAIN tds /\ tds'[j].index = tds[k + j].index /\ tds'[j].id = tds[k + j].id
             /\ tds[k].id < tds[k + j].id
  <2>1. j \in 1 .. Len(tds) - k /\ k + j \in 1 .. Len(tds) /\ k < k + j
    BY <1>4, <1>5
  <2> QED BY <1>3, <1>4, <1>6, <2>1
<1>8. ASSUME NEW j \in DOMAIN tds, tds[k].id < tds[j].id
      PROVE  j - k \in DOMAIN tds' /\ tds'[j - k].index = tds[j].index /\ tds'[j - k].id = tds[j].id
  <2>1. k < j
    <3>1. j \in Int /\ tds[k].id \in Nat /\ tds[j].id \in Nat
      BY <1>2, <1>4
    <3>2. j < k => tds[j].id < tds[k].id
      BY <1>6
    <3> QED BY <1>4, <1>8, <3>1, <3>2
  <2>2. j - k \in 1 .. Len(tds) - k /\ k + (j - k) = j
    BY <1>4, <2>1
  <2> QED BY <1>3, <1>5, <2>2
<1> QED BY <1>2, <1>3, <1>4, <1>5, <1>7, <1>8

\* dequeueIndex moves past the last TRB of the k-th TD: what stays closed is what comes after.
LEMMA Advance ==
  ASSUME DriverInv, QueueInv, ~suspect, dpc = "idle", NEW f \in 0 .. Link, Ring(f), NEW k \in DOMAIN tds,
         Dropped(k), dequeueIndex' = NextDQ(tds[k].index), ran <= ran', ran' \in Nat,
         UNCHANGED <<trbs, enqueueIndex, cycleState, first, closed>>
  PROVE  /\ EndInv(f)' /\ ContentInv(f)' /\ TdsInv(f)'
         /\ Front = enqueueIndex /\ Front' = enqueueIndex /\ FrontTurn = cycleState /\ FrontTurn' = cycleState
         /\ \/ /\ ~Around' /\ dequeueIndex' <= enqueueIndex
               /\ tds[k].id = closed - (enqueueIndex - dequeueIndex')
            \/ /\ Around' /\ dequeueIndex' <= f /\ Around
               /\ tds[k].id = closed - enqueueIndex - (f - dequeueIndex')
<1>1. Numbers /\ f \in Int /\ 0 <= f /\ f <= Link /\ Link \in Int
  BY Places, Sizes DEF DriverInv
<1>e. closed \in Int /\ enqueueIndex \in Int /\ 0 <= enqueueIndex /\ dequeueIndex \in Int
  BY <1>1 DEF Numbers
<1>2. first = None
  BY DEF DriverInv, LayInv
<1>3. ~Wrapped /\ ~Wrapped' /\ Front = enqueueIndex /\ Front' = enqueueIndex
  BY <1>2 DEF Wrapped, Front
<1>4. FrontTurn = cycleState /\ FrontTurn' = cycleState
  BY <1>3 DEF FrontTurn
<1>5. EndInv(f) /\ HwPos(f) /\ ContentInv(f) /\ TdsInv(f)
  BY DEF Ring
<1>6. tds[k].index \in Slots /\ tds[k].id \in Nat
  BY Rest
<1>7. PICK p \in Int : p = tds[k].index /\ 0 <= p /\ p < Link /\ p \in 0 .. Link
  BY <1>6, Sizes
<1>8. PICK m \in Nat : m = tds[k].id
  BY <1>6
<1>9. Busy(f, p) /\ m = IdAt(f, p)
  BY <1>5, <1>7, <1>8 DEF TdsInv
<1>10. /\ Around <=> enqueueIndex < dequeueIndex
       /\ Around' <=> enqueueIndex < dequeueIndex'
       /\ dequeueIndex' = IF p + 1 >= Link THEN 0 ELSE p + 1
       /\ enqueueIndex' = enqueueIndex /\ closed' = closed
  BY <1>3, <1>7 DEF Around, NextDQ
<1>11. /\ Around => dequeueIndex <= f /\ trbs[f].kind = "link" /\ (f = Link \/ f > MaxTD)
       /\ Busy(f, p) <=> IF Around THEN (dequeueIndex <= p /\ p < f) \/ p < enqueueIndex
                         ELSE dequeueIndex <= p /\ p < enqueueIndex
       /\ IdAt(f, p) = IF Around /\ dequeueIndex <= p THEN closed - enqueueIndex - (f - 1 - p)
                       ELSE closed - (enqueueIndex - 1 - p)
  BY <1>3, <1>5 DEF EndInv, Busy, IdAt
<1>12. \/ /\ ~Around' /\ dequeueIndex' <= enqueueIndex /\ dequeueIndex' \in Int
          /\ m = closed - (enqueueIndex - dequeueIndex')
       \/ /\ Around' /\ dequeueIndex' <= f /\ Around /\ dequeueIndex' \in Int
          /\ dequeueIndex <= dequeueIndex'
          /\ m = closed - enqueueIndex - (f - dequeueIndex')
  <2>1. CASE Around
    <3>1. trbs[Link].kind = "link" /\ trbs[p].kind = "trb"
      BY <1>5, <1>7, <1>9 DEF DriverInv, LayInv, ContentInv
    <3>0. enqueueIndex < dequeueIndex /\ dequeueIndex <= f
      BY <1>10, <1>11, <2>1
    <3>2. CASE dequeueIndex <= p /\ p < f
      <4>1. m = closed - enqueueIndex - (f - 1 - p)
        BY <1>9, <1>11, <2>1, <3>2
      <4>2. CASE p + 1 < Link
        <5>1. dequeueIndex' = p + 1
          BY <1>1, <1>7, <1>10, <4>2
        <5>2. enqueueIndex < p + 1 /\ p + 1 <= f /\ dequeueIndex <= p + 1 /\ p + 1 \in Int
              /\ m = closed - enqueueIndex - (f - (p + 1))
          <6>1. enqueueIndex < p + 1 /\ p + 1 <= f /\ dequeueIndex <= p + 1 /\ p + 1 \in Int
            BY <1>1, <1>e, <1>7, <3>0, <3>2
          <6>2. closed - enqueueIndex - (f - 1 - p) = closed - enqueueIndex - (f - (p + 1))
            BY SMTT(30), <1>1, <1>e, <1>7
          <6> QED BY <4>1, <6>1, <6>2
        <5> QED BY <1>10, <2>1, <5>1, <5>2
      <4>3. CASE p + 1 >= Link
        <5>1. dequeueIndex' = 0 /\ p + 1 = Link /\ f = Link
          BY <1>1, <1>7, <1>10, <3>2, <4>3
        <5>2. ~(enqueueIndex < 0) /\ 0 <= enqueueIndex /\ 0 \in Int /\ m = closed - (enqueueIndex - 0)
          BY <1>1, <1>7, <4>1, <5>1 DEF Numbers
        <5> QED BY <1>10, <5>1, <5>2
      <4> QED BY <1>1, <1>7, <4>2, <4>3
    <3>3. CASE p < enqueueIndex
      <4>1. m = closed - (enqueueIndex - 1 - p)
        <5>1. ~(dequeueIndex <= p)
          BY <1>1, <1>7, <3>0, <3>3 DEF Numbers
        <5> QED BY <1>9, <1>11, <5>1
      <4>2. dequeueIndex' = p + 1
        BY <1>1, <1>7, <1>10, <3>3 DEF Numbers
      <4>3. ~(enqueueIndex < p + 1) /\ p + 1 <= enqueueIndex /\ p + 1 \in Int
            /\ m = closed - (enqueueIndex - (p + 1))
        BY SMTT(30), <1>1, <1>7, <3>3, <4>1 DEF Numbers
      <4> QED BY <1>10, <4>2, <4>3
    <3> QED BY <1>9, <1>11, <2>1, <3>2, <3>3
  <2>2. CASE ~Around
    <3>1. dequeueIndex <= p /\ p < enqueueIndex /\ m = closed - (enqueueIndex - 1 - p)
      BY <1>9, <1>11, <2>2
    <3>2. dequeueIndex' = p + 1
      BY SMTT(30), <1>1, <1>7, <1>10, <3>1 DEF Numbers
    <3>3. ~(enqueueIndex < p + 1) /\ p + 1 <= enqueueIndex /\ p + 1 \in Int
          /\ m = closed - (enqueueIndex - (p + 1))
      <4>1. ~(enqueueIndex < p + 1) /\ p + 1 <= enqueueIndex /\ p + 1 \in Int
        BY SMTT(30), <1>e, <1>7, <3>1
      <4>2. closed - (enqueueIndex - 1 - p) = closed - (enqueueIndex - (p + 1))
        <5>1. p \in Int /\ enqueueIndex \in Int
          BY <1>e, <1>7
        <5>2. enqueueIndex - 1 - p = enqueueIndex - (p + 1)
          BY <5>1
        <5> QED BY <5>2
      <4> QED BY <3>1, <4>1, <4>2
    <3> QED BY <1>10, <3>2, <3>3
  <2> QED BY <2>1, <2>2
<1>13. ASSUME NEW i \in 0 .. Link
       PROVE  /\ Busy(f, i)' <=> Busy(f, i) /\ m < IdAt(f, i)
              /\ Busy(f, i)' => IdAt(f, i)' = IdAt(f, i)
  <2>1. /\ Busy(f, i) <=> IF Around THEN (dequeueIndex <= i /\ i < f) \/ i < enqueueIndex
                          ELSE dequeueIndex <= i /\ i < enqueueIndex
        /\ IdAt(f, i) = IF Around /\ dequeueIndex <= i THEN closed - enqueueIndex - (f - 1 - i)
                        ELSE closed - (enqueueIndex - 1 - i)
    BY <1>3 DEF Busy, IdAt
  <2>2. /\ Busy(f, i)' <=> IF Around' THEN (dequeueIndex' <= i /\ i < f) \/ i < enqueueIndex
                           ELSE dequeueIndex' <= i /\ i < enqueueIndex
        /\ IdAt(f, i)' = IF Around' /\ dequeueIndex' <= i THEN closed - enqueueIndex - (f - 1 - i)
                         ELSE closed - (enqueueIndex - 1 - i)
    BY <1>3, <1>10 DEF Busy, IdAt
  <2>3. i \in Int /\ 0 <= i /\ i <= Link
    BY <1>1
  <2>4. CASE Around'
    <3>1. /\ dequeueIndex' <= f /\ Around /\ dequeueIndex <= dequeueIndex' /\ dequeueIndex' \in Int
          /\ m = closed - enqueueIndex - (f - dequeueIndex') /\ enqueueIndex < dequeueIndex
      BY <1>10, <1>12, <2>4
    <3> QED BY <1>1, <1>8, <2>1, <2>2, <2>3, <2>4, <3>1 DEF Numbers
  <2>5. CASE ~Around'
    <3>1. /\ dequeueIndex' <= enqueueIndex /\ dequeueIndex' \in Int
          /\ m = closed - (enqueueIndex - dequeueIndex') /\ 0 <= dequeueIndex'
      BY SMTT(30), <1>1, <1>7, <1>10, <1>12, <2>5 DEF Numbers
    <3>2. CASE Around
      <4>1. enqueueIndex < dequeueIndex
        BY <1>10, <3>2
      <4>2. \/ dequeueIndex' = 0
            \/ dequeueIndex' >= 1
        BY <3>1
      <4>3. /\ Busy(f, i) <=> (dequeueIndex <= i /\ i < f) \/ i < enqueueIndex
            /\ IdAt(f, i) = IF dequeueIndex <= i THEN closed - enqueueIndex - (f - 1 - i)
                            ELSE closed - (enqueueIndex - 1 - i)
            /\ Busy(f, i)' <=> dequeueIndex' <= i /\ i < enqueueIndex
            /\ IdAt(f, i)' = closed - (enqueueIndex - 1 - i)
        BY <2>1, <2>2, <2>5, <3>2
      <4>4. CASE dequeueIndex <= i
        <5>1. ~(i < enqueueIndex) /\ IdAt(f, i) = closed - enqueueIndex - (f - 1 - i)
          BY <1>1, <2>3, <4>1, <4>3, <4>4 DEF Numbers
        <5>2. i < f => ~(m < closed - enqueueIndex - (f - 1 - i))
          <6>1. PICK q \in Int : q = dequeueIndex' /\ 0 <= q /\ q <= enqueueIndex
            BY <3>1
          <6>2. m = closed - (enqueueIndex - q)
            BY <3>1, <6>1
          <6>3. i < f => closed - enqueueIndex - (f - 1 - i) <= closed - (enqueueIndex - q)
            BY <1>1, <1>e, <2>3, <6>1
          <6> QED BY <1>1, <1>e, <2>3, <6>1, <6>2, <6>3
        <5> QED BY <4>3, <5>1, <5>2
      <4>5. CASE ~(dequeueIndex <= i)
        <5>1. IdAt(f, i) = closed - (enqueueIndex - 1 - i)
          BY <4>3, <4>5
        <5>2. i < enqueueIndex => (m < closed - (enqueueIndex - 1 - i) <=> dequeueIndex' <= i)
          <6>1. PICK q \in Int : q = dequeueIndex' /\ 0 <= q /\ q <= enqueueIndex
            BY <3>1
          <6>2. m = closed - (enqueueIndex - q)
            BY <3>1, <6>1
          <6>3. closed - (enqueueIndex - q) < closed - (enqueueIndex - 1 - i) <=> q <= i
            BY <1>e, <2>3, <6>1
          <6> QED BY <6>1, <6>2, <6>3
        <5> QED BY <4>3, <4>5, <5>1, <5>2
      <4> QED BY <4>4, <4>5
    <3>3. CASE ~Around
      <4>1. p = dequeueIndex' - 1 /\ dequeueIndex <= p
        <5>1. dequeueIndex <= p /\ p < enqueueIndex
          BY <1>9, <1>11, <3>3
        <5>2. dequeueIndex' = p + 1
          BY <1>1, <1>7, <1>10, <5>1 DEF Numbers
        <5> QED BY <1>7, <5>1, <5>2
      <4> QED BY SMTT(30), <1>1, <1>8, <2>1, <2>2, <2>3, <2>5, <3>1, <3>3, <4>1 DEF Numbers
    <3> QED BY <3>2, <3>3
  <2> QED BY <2>4, <2>5
<1>14. EndInv(f)'
  <2>1. Around' => dequeueIndex' <= f /\ Around
    BY <1>12
  <2> QED BY <1>11, <2>1 DEF EndInv
<1>15. ContentInv(f)'
  <2> SUFFICES ASSUME NEW i \in 0 .. Link, Busy(f, i)'
               PROVE  /\ trbs'[i].kind = "trb" /\ trbs'[i].id = IdAt(f, i)'
                      /\ ran' < IdAt(f, i)' => (trbs'[i].last <=> \E j \in DOMAIN tds' : tds'[j].id = IdAt(f, i)')
    BY DEF ContentInv
  <2>1. Busy(f, i) /\ m < IdAt(f, i) /\ IdAt(f, i)' = IdAt(f, i) /\ trbs' = trbs
    BY <1>13
  <2>2. /\ trbs[i].kind = "trb" /\ trbs[i].id = IdAt(f, i)
        /\ ran < IdAt(f, i) => (trbs[i].last <=> \E j \in DOMAIN tds : tds[j].id = IdAt(f, i))
    BY <1>5, <2>1 DEF ContentInv
  <2>3. ran' < IdAt(f, i) => ran < IdAt(f, i)
    <3>1. IdAt(f, i) \in Int
      BY <1>5, BusyIds
    <3> QED BY <1>1, <3>1 DEF Numbers
  <2>4. (\E j \in DOMAIN tds' : tds'[j].id = IdAt(f, i)) <=> \E j \in DOMAIN tds : tds[j].id = IdAt(f, i)
    <3>1. \A j \in DOMAIN tds' : k + j \in DOMAIN tds /\ tds'[j].id = tds[k + j].id
      BY Rest
    <3>2. \A j \in DOMAIN tds : m < tds[j].id =>
            j - k \in DOMAIN tds' /\ tds'[j - k].index = tds[j].index /\ tds'[j - k].id = tds[j].id
      BY <1>8, Rest
    <3>3. ASSUME NEW j \in DOMAIN tds', tds'[j].id = IdAt(f, i)
          PROVE  \E n \in DOMAIN tds : tds[n].id = IdAt(f, i)
      BY <3>1, <3>3
    <3>4. ASSUME NEW j \in DOMAIN tds, tds[j].id = IdAt(f, i)
          PROVE  \E n \in DOMAIN tds' : tds'[n].id = IdAt(f, i)
      <4>1. m < tds[j].id
        BY <2>1, <3>4
      <4> QED BY <3>2, <3>4, <4>1
    <3> QED BY <3>3, <3>4
  <2> QED BY <2>1, <2>2, <2>3, <2>4
<1>16. TdsInv(f)'
  <2> SUFFICES ASSUME NEW j \in DOMAIN tds'
               PROVE  \E i \in 0 .. Link : i = tds'[j].index /\ Busy(f, i)' /\ tds'[j].id = IdAt(f, i)'
    BY TdsNext
  <2>1. /\ k + j \in DOMAIN tds /\ tds'[j].index = tds[k + j].index /\ tds'[j].id = tds[k + j].id
        /\ m < tds[k + j].id /\ tds[k + j].index \in Slots
    BY <1>8, Rest
  <2>2. PICK i \in 0 .. Link : i = tds[k + j].index
    <3>1. Slots \subseteq 0 .. Link
      BY Sizes
    <3> QED BY <2>1, <3>1
  <2>3. Busy(f, i) /\ tds[k + j].id = IdAt(f, i)
    BY <1>5, <2>1, <2>2 DEF TdsInv
  <2> QED BY <1>13, <2>1, <2>2, <2>3
<1> QED BY <1>3, <1>4, <1>8, <1>12, <1>14, <1>15, <1>16

\* With the youngest TD gone the next one begins at dequeueIndex, or dequeueIndex is where a
\* moved fragment left its link and the ring is free from its start.
LEMMA AdvanceStrand ==
  ASSUME DriverInv, ViewInv, ~suspect, ~torn, dpc = "idle", NEW f \in 0 .. Link, Ring(f), NEW k \in DOMAIN tds,
         Dropped(k), dequeueIndex' = NextDQ(tds[k].index), ran <= ran', ran' \in Nat,
         UNCHANGED <<trbs, enqueueIndex, cycleState, first, closed>>
  PROVE  /\ tds' # <<>> => tds'[Len(tds')].id = closed
         /\ tds' = <<>> => tds[k].id = closed
         /\ tds' = <<>> => dequeueIndex' = Front' \/ (Front' = 0 /\ MaxTD <= dequeueIndex' - 1)
         /\ (tds' # <<>> <=> k < Len(tds))
<1>1. tds # <<>> => tds[Len(tds)].id = closed
  BY DEF ViewInv, StrandInv
<1>2. QueueInv
  BY DEF ViewInv
<1>3. /\ DOMAIN tds = 1 .. Len(tds) /\ Len(tds) \in Nat /\ k \in Nat /\ k >= 1 /\ k <= Len(tds)
      /\ Len(tds') = Len(tds) - k /\ DOMAIN tds' = 1 .. Len(tds) - k
      /\ \A j \in DOMAIN tds' :
           /\ k + j \in DOMAIN tds /\ tds'[j].index = tds[k + j].index /\ tds'[j].id = tds[k + j].id
  BY <1>2, Rest
<1>4. /\ tds \in Seq([index : Slots, id : 1 .. MaxTRBs, flushed : BOOLEAN])
      /\ tds' \in Seq([index : Slots, id : 1 .. MaxTRBs, flushed : BOOLEAN])
  BY DEF DriverInv, TypeOK, Dropped
<1>5. (tds' = <<>> <=> Len(tds') = 0) /\ tds # <<>>
  <2> DEFINE TD == [index : Slots, id : 1 .. MaxTRBs, flushed : BOOLEAN]
  <2>0. tds \in Seq(TD) /\ tds' \in Seq(TD)
    BY <1>4
  <2> HIDE DEF TD
  <2>1. tds' = <<>> <=> Len(tds') = 0
    BY <2>0, EmptySeq
  <2>2. tds # <<>>
    BY <1>3, <2>0, EmptySeq
  <2> QED BY <2>1, <2>2
<1>6. tds' # <<>> <=> k < Len(tds)
  BY <1>3, <1>5
<1>7. tds' # <<>> => tds'[Len(tds')].id = closed
  <2> SUFFICES ASSUME tds' # <<>> PROVE tds'[Len(tds')].id = closed
    OBVIOUS
  <2>1. Len(tds') \in DOMAIN tds' /\ k + Len(tds') = Len(tds)
    <3> DEFINE n == Len(tds')
               l == Len(tds)
    <3>1. n = l - k /\ l \in Nat /\ k \in Nat /\ k < l /\ DOMAIN tds' = 1 .. l - k
      BY <1>3, <1>6
    <3> HIDE DEF n, l
    <3>2. n \in 1 .. l - k
      BY SMTT(30), <3>1
    <3>3. k + n = l
      BY <3>1
    <3> QED BY <3>1, <3>2, <3>3 DEF n, l
  <2>2. tds'[Len(tds')].id = tds[k + Len(tds')].id
    BY <1>3, <2>1
  <2> QED BY <1>1, <1>5, <2>1, <2>2
<1>8. tds' = <<>> => tds[k].id = closed
  <2>1. ~(k < Len(tds)) => k = Len(tds)
    BY <1>3
  <2> QED BY <1>1, <1>5, <1>6, <2>1
<1>9. tds' = <<>> => dequeueIndex' = Front' \/ (Front' = 0 /\ MaxTD <= dequeueIndex' - 1)
  <2> SUFFICES ASSUME tds' = <<>> PROVE dequeueIndex' = Front' \/ (Front' = 0 /\ MaxTD <= dequeueIndex' - 1)
    OBVIOUS
  <2>1. /\ EndInv(f)' /\ Front' = enqueueIndex
        /\ \/ /\ ~Around' /\ dequeueIndex' <= enqueueIndex
              /\ tds[k].id = closed - (enqueueIndex - dequeueIndex')
           \/ /\ Around' /\ dequeueIndex' <= f /\ Around
              /\ tds[k].id = closed - enqueueIndex - (f - dequeueIndex')
    BY <1>2, Advance
  <2>2. Numbers /\ dequeueIndex' \in Slots
    <3>1. tds[k].index \in Slots
      BY <1>2, Rest
    <3> QED BY <3>1, NextInSlots, Places DEF DriverInv
  <2>3. CASE ~Around'
    <3>1. closed = closed - (enqueueIndex - dequeueIndex')
      BY <1>8, <2>1, <2>3
    <3>2. dequeueIndex' = enqueueIndex
      <4>1. closed \in Int /\ enqueueIndex \in Int /\ dequeueIndex' \in Int
        BY <2>2, Sizes DEF Numbers
      <4> QED BY <3>1, <4>1
    <3> QED BY <2>1, <3>2
  <2>4. CASE Around'
    <3>1. enqueueIndex = 0 /\ dequeueIndex' = f
      BY SMTT(30), <1>8, <2>1, <2>2, <2>4, Sizes DEF Numbers
    <3>2. f = Link \/ f > MaxTD
      BY <2>1, <2>4 DEF EndInv
    <3>3. MaxTD <= dequeueIndex' - 1
      BY <2>2, <3>1, <3>2, Sizes
    <3> QED BY <2>1, <3>1, <3>3
  <2> QED BY <2>3, <2>4
<1> QED BY <1>6, <1>7, <1>8, <1>9

\* The k oldest TDs are skipped with the endpoint stopped, and the xHC is sent past them with the
\* cycle bit that it finds there.
LEMMA SkipView == DriverInv /\ ViewInv /\ SkipTDs => ViewInv'
<1> SUFFICES ASSUME DriverInv, ViewInv, SkipTDs PROVE ViewInv'
  OBVIOUS
<1>1. PICK k \in DOMAIN tds :
        /\ Dropped(k) /\ (armed' <=> k < Len(tds))
        /\ SetTRDQPtr(NextDQ(tds[k].index)) /\ ran' = tds[k].id
  <2>1. PICK k \in Scheduled :
          /\ tds' = SubSeq(tds, k + 1, Len(tds)) /\ (armed' <=> \E j \in Scheduled : k < j)
          /\ SetTRDQPtr(NextDQ(tds[k].index)) /\ ran' = tds[k].id
    BY DEF SkipTDs
  <2>2. k \in DOMAIN tds /\ Dropped(k)
    BY <2>1, RetireDrops DEF Scheduled, DriverInv
  <2>3. (\E j \in Scheduled : k < j) <=> k < Len(tds)
    <3>1. DOMAIN tds = 1 .. Len(tds) /\ Len(tds) \in Nat /\ (tds = <<>> => Len(tds) = 0)
      BY DEF DriverInv, TypeOK
    <3>2. Len(tds) \in Scheduled
      BY <2>2, <3>1 DEF DriverInv, YoungestScheduled, Scheduled
    <3>3. \A j \in Scheduled : j <= Len(tds) /\ j \in Int
      BY <3>1 DEF Scheduled
    <3> QED BY <2>2, <3>1, <3>2, <3>3
  <2> QED BY <2>1, <2>2, <2>3
<1>2. /\ dpc = "idle" /\ dpc' = "idle" /\ (~suspect' => ~suspect /\ events = <<>>)
      /\ UNCHANGED <<trbs, enqueueIndex, cycleState, first, events, closed>>
      /\ (torn' <=> torn)
  BY DEF SkipTDs, layoutVars
<1>3. /\ dequeueIndex' = NextDQ(tds[k].index) /\ hwIndex' = dequeueIndex'
      /\ hwCycle' = IF dequeueIndex' = enqueueIndex THEN cycleState ELSE trbs[dequeueIndex'].cycle
  BY <1>1 DEF SetTRDQPtr, DequeueCycle
<1> SUFFICES ASSUME ~suspect' PROVE ViewInv'
  BY DEF ViewInv, RingInv, QueueInv, StrandInv
<1>4. ~suspect /\ events = <<>> /\ RingInv /\ QueueInv
  BY <1>2 DEF ViewInv
<1>5. /\ DOMAIN tds = 1 .. Len(tds) /\ Len(tds) \in Nat /\ k \in Nat /\ k >= 1 /\ k <= Len(tds)
      /\ Len(tds') = Len(tds) - k /\ DOMAIN tds' = 1 .. Len(tds) - k
      /\ \A j \in DOMAIN tds' :
           /\ k + j \in DOMAIN tds /\ tds'[j].index = tds[k + j].index /\ tds'[j].id = tds[k + j].id
           /\ tds[k].id < tds[k + j].id
      /\ \A j \in DOMAIN tds : tds[j].id \in Nat /\ tds[j].index \in Slots
  BY <1>1, <1>4, Rest
<1>6. Numbers
  BY Places DEF DriverInv
<1>7. ran <= ran' /\ ran' \in Nat
  <2>1. ~(tds[k].id <= ran)
    <3>1. tds[k].id <= ran <=> k <= Len(events)
      BY <1>4 DEF QueueInv
    <3>2. Len(events) = 0
      BY <1>4
    <3> QED BY <1>5, <3>1, <3>2
  <2> QED BY SMTT(30), <1>1, <1>5, <1>6, <2>1 DEF Numbers
<1>8. RingInv'
  <2>1. PICK f \in 0 .. Link : Ring(f)
    BY <1>4 DEF RingInv
  <2>2. /\ EndInv(f)' /\ ContentInv(f)' /\ TdsInv(f)'
        /\ Front = enqueueIndex /\ Front' = enqueueIndex /\ FrontTurn = cycleState /\ FrontTurn' = cycleState
        /\ \/ /\ ~Around' /\ dequeueIndex' <= enqueueIndex
              /\ tds[k].id = closed - (enqueueIndex - dequeueIndex')
           \/ /\ Around' /\ dequeueIndex' <= f /\ Around
              /\ tds[k].id = closed - enqueueIndex - (f - dequeueIndex')
    BY <1>1, <1>2, <1>3, <1>4, <1>7, <2>1, Advance
  <2>3. dequeueIndex' \in Slots
    BY <1>3, <1>5, NextInSlots
  <2>4. PICK q \in 0 .. Link : q = dequeueIndex' /\ q < Link
    BY <2>3, Sizes
  <2>a. first = None /\ first' = None /\ ~Wrapped /\ ~Wrapped' /\ ~Pending(q)
    BY <1>2, <2>4, Sizes DEF DriverInv, LayInv, Wrapped, Pending
  <2>5. trbs[q].cycle = IF q < enqueueIndex THEN cycleState ELSE 1 - cycleState
    <3>1. ~Copied(q)
      BY <1>2 DEF Copied
    <3>2. trbs[q].cycle = Turn(q)
      BY <2>a, <3>1 DEF DriverInv, CycleInv
    <3> QED BY <2>a, <3>2 DEF Turn
  <2>6. CASE ~Around'
    <3>1. q <= enqueueIndex /\ ran' = closed - (enqueueIndex - q)
      BY <1>1, <2>2, <2>4, <2>6
    <3>2. hwCycle' = cycleState
      BY <1>3, <1>6, <2>4, <2>5, <3>1 DEF Numbers
    <3>3. /\ dequeueIndex' <= hwIndex' /\ hwIndex' <= Front' /\ hwCycle' = FrontTurn'
          /\ ran' = closed' - (Front' - hwIndex')
      BY <1>2, <1>3, <2>2, <2>4, <3>1, <3>2, Sizes
    <3>4. HwPos(f)'
      BY <2>6, <3>3 DEF HwPos
    <3> QED BY <2>2, <3>4 DEF RingInv, Ring
  <2>7. CASE Around'
    <3>1. q <= f /\ ran' = closed - enqueueIndex - (f - q) /\ enqueueIndex < q
      BY <1>1, <1>2, <2>2, <2>4, <2>7 DEF Around
    <3>2. hwCycle' = 1 - cycleState
      BY <1>3, <1>6, <2>4, <2>5, <3>1 DEF Numbers
    <3>3. /\ dequeueIndex' <= hwIndex' /\ hwIndex' <= f /\ hwCycle' = 1 - FrontTurn'
          /\ ran' = closed' - Front' - (f - hwIndex')
      BY <1>2, <1>3, <2>2, <2>4, <3>1, <3>2, Sizes
    <3>4. HwPos(f)'
      BY <2>7, <3>3 DEF HwPos
    <3> QED BY <2>2, <3>4 DEF RingInv, Ring
  <2> QED BY <2>6, <2>7
<1>9. QueueInv'
  <2>1. events' = <<>> /\ closed' = closed
    BY <1>2, <1>4
  <2>2. /\ \A j \in DOMAIN tds : tds[j].id <= closed
        /\ \A i, j \in DOMAIN tds : i < j => tds[i].id < tds[j].id
    BY <1>4 DEF QueueInv
  <2>3. \A j \in DOMAIN tds' : tds'[j].id <= closed'
    BY <1>5, <2>1, <2>2
  <2>4. \A i, j \in DOMAIN tds' : i < j => tds'[i].id < tds'[j].id
    <3> SUFFICES ASSUME NEW i \in DOMAIN tds', NEW j \in DOMAIN tds', i < j PROVE tds'[i].id < tds'[j].id
      OBVIOUS
    <3>1. k + i \in DOMAIN tds /\ k + j \in DOMAIN tds /\ k + i < k + j
      BY <1>5
    <3> QED BY <1>5, <2>2, <3>1
  <2>5. Len(events') <= Len(tds') /\ Len(events') = 0 /\ DOMAIN events' = {}
    BY <1>5, <2>1
  <2>6. \A j \in DOMAIN tds' : ~(tds'[j].id <= ran') /\ ~(j <= Len(events'))
    <3> SUFFICES ASSUME NEW j \in DOMAIN tds' PROVE ~(tds'[j].id <= ran') /\ ~(j <= Len(events'))
      OBVIOUS
    <3>1. tds[k].id < tds'[j].id /\ tds[k].id \in Nat /\ tds'[j].id \in Nat /\ j \in Int /\ 1 <= j
      BY <1>5
    <3> QED BY SMTT(30), <1>1, <2>5, <3>1
  <2> QED BY <2>3, <2>4, <2>5, <2>6 DEF QueueInv
<1>10. StrandInv'
  <2> SUFFICES ASSUME ~torn
               PROVE  /\ ~armed' => ran' = closed'
                      /\ tds' # <<>> => tds'[Len(tds')].id = closed'
                      /\ tds' = <<>> => dequeueIndex' = Front' \/ (Front' = 0 /\ MaxTD <= dequeueIndex' - 1)
    BY <1>2 DEF StrandInv
  <2>1. PICK f \in 0 .. Link : Ring(f)
    BY <1>4 DEF RingInv
  <2>2. /\ tds' # <<>> => tds'[Len(tds')].id = closed
        /\ tds' = <<>> => tds[k].id = closed
        /\ tds' = <<>> => dequeueIndex' = Front' \/ (Front' = 0 /\ MaxTD <= dequeueIndex' - 1)
        /\ (tds' # <<>> <=> k < Len(tds))
    BY <1>1, <1>2, <1>3, <1>4, <1>7, <2>1, AdvanceStrand
  <2> QED BY <1>1, <1>2, <2>2
<1> QED BY <1>8, <1>9, <1>10 DEF ViewInv

\* The events on their way are of the oldest TDs, whose last TRBs are closed and not dequeued.
LEMMA OldestEvent ==
  DriverInv /\ ViewInv /\ ~suspect /\ events # <<>> =>
    /\ tds # <<>> /\ 1 \in DOMAIN tds /\ tds[1].index = Head(events) /\ tds[1].id <= ran
    /\ \A k \in DOMAIN tds : tds[k].index = Head(events) => k = 1
    /\ enqueueIndex # dequeueIndex
<1> SUFFICES ASSUME DriverInv, ViewInv, ~suspect, events # <<>>
             PROVE /\ tds # <<>> /\ 1 \in DOMAIN tds /\ tds[1].index = Head(events) /\ tds[1].id <= ran
                   /\ \A k \in DOMAIN tds : tds[k].index = Head(events) => k = 1
                   /\ enqueueIndex # dequeueIndex
  OBVIOUS
<1>1. /\ Len(events) <= Len(tds)
      /\ \A k \in DOMAIN events : events[k] = tds[k].index
      /\ \A k \in DOMAIN tds : tds[k].id <= ran <=> k <= Len(events)
  BY DEF ViewInv, QueueInv
<1> DEFINE TD == [index : Slots, id : 1 .. MaxTRBs, flushed : BOOLEAN]
<1>2. tds \in Seq(TD) /\ events \in Seq(Slots)
  BY DEF DriverInv, TypeOK
<1> HIDE DEF TD
<1>3. Len(events) \in Nat /\ Len(events) # 0 /\ DOMAIN events = 1 .. Len(events) /\ Head(events) = events[1]
  BY <1>2, EmptySeq
<1>4. Len(tds) \in Nat /\ DOMAIN tds = 1 .. Len(tds)
  BY <1>2
<1>5. 1 \in DOMAIN events /\ 1 \in DOMAIN tds /\ 1 <= Len(events) /\ tds # <<>>
  <2>1. 1 <= Len(events) /\ 1 <= Len(tds)
    BY <1>1, <1>3, <1>4
  <2> QED BY <1>2, <1>3, <1>4, <2>1, EmptySeq
<1>6. tds[1].index = Head(events) /\ tds[1].id <= ran
  BY <1>1, <1>3, <1>5
<1>7. PICK f \in 0 .. Link : Ring(f)
  BY DEF ViewInv, RingInv
<1>8. Busy(f, tds[1].index) /\ tds[1].index \in Slots
  BY <1>5, <1>7, ScheduleShrinks DEF Ring, TdsInv, DriverInv
<1>9. enqueueIndex # dequeueIndex
  <2>1. Numbers /\ tds[1].index \in Int
    BY <1>8, Places, Sizes DEF DriverInv
  <2>2. CASE Around
    BY <2>1, <2>2 DEF Around, Numbers
  <2>3. CASE ~Around /\ Wrapped
    BY <2>1, <2>3 DEF Wrapped, DriverInv, OpenInv, Outside, Numbers
  <2>4. CASE ~Around /\ ~Wrapped
    BY <1>8, <2>1, <2>4 DEF Busy, Numbers
  <2> QED BY <2>2, <2>3, <2>4
<1>10. ASSUME NEW k \in DOMAIN tds, tds[k].index = Head(events) PROVE k = 1
  <2>1. tds[k].id = tds[1].id
    BY <1>5, <1>6, <1>7, <1>10 DEF Ring, TdsInv
  <2>2. tds[k].id \in Nat
    BY ScheduleShrinks, Sizes DEF DriverInv
  <2>3. ~(1 < k)
    BY <1>5, <2>1, <2>2 DEF ViewInv, QueueInv
  <2> QED BY <1>4, <2>3
<1> QED BY <1>5, <1>6, <1>9, <1>10

\* The arithmetic of the places, by itself.
LEMMA Differences ==
  /\ \A a, b, c, d \in Int : a - (b - c) <= a - (b - d) => c <= d
  /\ \A a, b, c, d, e \in Int : a - e - (b - c) <= a - e - (b - d) => c <= d
  /\ \A a, b, c, d, e \in Int : /\ a - (b - c) <= a - b - (e - d) /\ 0 <= c /\ d <= e
                                 => c = 0 /\ d = e
  /\ \A a, b \in Int : a - (b - b) = a
OBVIOUS

\* An event retires the oldest TD, which the xHC has carried out: it is past what is dequeued.
LEMMA TransferView == DriverInv /\ ViewInv /\ (TransferEvent \/ ShortPacketRunning) => ViewInv'
<1> SUFFICES ASSUME DriverInv, ViewInv, TransferEvent \/ ShortPacketRunning PROVE ViewInv'
  OBVIOUS
<1>1. /\ dpc = "idle" /\ dpc' = "idle" /\ events # <<>> /\ events' = Tail(events)
      /\ UNCHANGED <<trbs, enqueueIndex, cycleState, first, hwIndex, hwCycle, closed, ran>>
      /\ (suspect' <=> suspect) /\ (torn' <=> torn) /\ (armed' <=> armed)
  BY DEF TransferEvent, ShortPacketRunning, layoutVars, histVars
<1> SUFFICES ASSUME ~suspect PROVE ViewInv'
  BY <1>1 DEF ViewInv, RingInv, QueueInv, StrandInv
<1>2. /\ 1 \in DOMAIN tds /\ tds # <<>> /\ tds[1].index = Head(events) /\ tds[1].id <= ran
      /\ \A k \in DOMAIN tds : tds[k].index = Head(events) => k = 1
  BY <1>1, OldestEvent
<1>3. PICK k \in DOMAIN tds : k = 1 /\ Dropped(k) /\ dequeueIndex' = NextDQ(tds[k].index)
  <2>1. dequeueIndex' = NextDQ(tds[1].index)
    BY <1>2 DEF TransferEvent, ShortPacketRunning
  <2>2. CASE TransferEvent /\ \A k \in Scheduled : tds[k].index # Head(events)
    <3>1. tds[1].flushed
      BY <1>2, <2>2 DEF Scheduled
    <3>2. tds' = Tail(tds)
      BY <1>2, <2>2, <3>1 DEF TransferEvent, IsOldestMatch
    <3> QED BY <1>2, <2>1, <3>2, TailDrops DEF DriverInv
  <2>3. CASE TransferEvent /\ ~\A k \in Scheduled : tds[k].index # Head(events)
    <3>1. PICK k \in DOMAIN tds : tds[k].index = Head(events) /\ tds' = SubSeq(tds, k + 1, Len(tds))
      BY <2>3 DEF TransferEvent, IsOldestMatch
    <3> QED BY <1>2, <2>1, <3>1, RetireDrops DEF DriverInv
  <2>4. CASE ShortPacketRunning
    <3>1. PICK k \in DOMAIN tds, m \in DOMAIN tds : tds[k].index = Head(events) /\ tds' = FlushTDs(k, m)
      BY <2>4 DEF ShortPacketRunning, IsOldestMatch
    <3> QED BY <1>2, <2>1, <3>1, FlushDrops DEF DriverInv
  <2> QED BY <2>2, <2>3, <2>4
<1>4. RingInv /\ QueueInv
  BY DEF ViewInv
<1>5. /\ DOMAIN tds = 1 .. Len(tds) /\ Len(tds) \in Nat /\ k >= 1 /\ k <= Len(tds)
      /\ Len(tds') = Len(tds) - k /\ DOMAIN tds' = 1 .. Len(tds) - k
      /\ \A j \in DOMAIN tds' :
           /\ k + j \in DOMAIN tds /\ tds'[j].index = tds[k + j].index /\ tds'[j].id = tds[k + j].id
           /\ tds[k].id < tds[k + j].id
      /\ \A j \in DOMAIN tds : tds[j].id \in Nat /\ tds[j].index \in Slots
  BY <1>3, <1>4, Rest
<1>6. Numbers
  BY Places DEF DriverInv
<1>7. ran <= ran' /\ ran' \in Nat /\ tds[k].id <= ran
  BY <1>1, <1>2, <1>3, <1>6 DEF Numbers
<1>8. RingInv'
  <2>1. PICK f \in 0 .. Link : Ring(f)
    BY <1>4 DEF RingInv
  <2>2. /\ EndInv(f)' /\ ContentInv(f)' /\ TdsInv(f)'
        /\ Front = enqueueIndex /\ Front' = enqueueIndex /\ FrontTurn = cycleState /\ FrontTurn' = cycleState
        /\ \/ /\ ~Around' /\ dequeueIndex' <= enqueueIndex
              /\ tds[k].id = closed - (enqueueIndex - dequeueIndex')
           \/ /\ Around' /\ dequeueIndex' <= f /\ Around
              /\ tds[k].id = closed - enqueueIndex - (f - dequeueIndex')
    BY <1>1, <1>3, <1>4, <1>7, <2>1, Advance
  <2>3. dequeueIndex' \in Slots
    BY <1>3, <1>5, NextInSlots
  <2>4. PICK q \in 0 .. Link : q = dequeueIndex' /\ 0 <= q /\ q < Link /\ q \in Int
    BY <2>3, Sizes
  <2>5. PICK m \in Nat : m = tds[k].id /\ m <= ran
    BY <1>5, <1>7
  <2>6. HwPos(f) /\ EndInv(f) /\ TdsInv(f) /\ ContentInv(f)
    BY <2>1 DEF Ring
  <2>7. /\ closed \in Int /\ ran \in Int /\ enqueueIndex \in Int /\ 0 <= enqueueIndex /\ enqueueIndex < Link
        /\ hwIndex \in Int /\ f \in Int /\ f <= Link /\ Link \in Int /\ dequeueIndex \in Int /\ 0 <= dequeueIndex
        /\ 0 <= hwIndex /\ hwIndex <= Link
    BY <1>6, Sizes DEF Numbers
  <2>8. \/ /\ ~Around /\ dequeueIndex <= hwIndex /\ hwIndex <= enqueueIndex
           /\ hwCycle = cycleState /\ ran = closed - (enqueueIndex - hwIndex)
        \/ /\ ~Around /\ dequeueIndex = 0 /\ hwIndex = Link
           /\ hwCycle = 1 - cycleState /\ ran = closed - enqueueIndex
        \/ /\ Around /\ dequeueIndex <= hwIndex /\ hwIndex <= f
           /\ hwCycle = 1 - cycleState /\ ran = closed - enqueueIndex - (f - hwIndex)
        \/ /\ Around /\ hwIndex <= enqueueIndex
           /\ hwCycle = cycleState /\ ran = closed - (enqueueIndex - hwIndex)
    BY <2>2, <2>6 DEF HwPos
  <2>9. CASE ~Around'
    <3>1. q <= enqueueIndex /\ m = closed - (enqueueIndex - q)
      BY <2>2, <2>4, <2>5, <2>9
    <3>2. \/ /\ q <= hwIndex /\ hwIndex <= enqueueIndex
             /\ hwCycle = cycleState /\ ran = closed - (enqueueIndex - hwIndex)
          \/ /\ q = 0 /\ hwIndex = Link
             /\ hwCycle = 1 - cycleState /\ ran = closed - enqueueIndex
      <4>1. CASE /\ hwIndex <= enqueueIndex
                 /\ hwCycle = cycleState /\ ran = closed - (enqueueIndex - hwIndex)
        <5>1. closed - (enqueueIndex - q) <= closed - (enqueueIndex - hwIndex)
          BY <2>5, <3>1, <4>1
        <5>2. q <= hwIndex
          <6>1. q \in Int /\ hwIndex \in Int /\ enqueueIndex \in Int /\ closed \in Int
            BY <2>4, <2>7
          <6> QED BY <5>1, <6>1, Differences
        <5> QED BY <4>1, <5>2
      <4>2. CASE /\ hwIndex = Link
                 /\ hwCycle = 1 - cycleState /\ ran = closed - enqueueIndex
        <5>1. closed - (enqueueIndex - q) <= closed - enqueueIndex - (f - f)
          <6>1. closed - enqueueIndex - (f - f) = closed - enqueueIndex
            BY <2>7
          <6> QED BY <2>5, <3>1, <4>2, <6>1
        <5>2. q = 0
          <6>1. q \in Int /\ enqueueIndex \in Int /\ closed \in Int /\ f \in Int /\ 0 <= q /\ f <= f
            BY <2>4, <2>7
          <6> QED BY <5>1, <6>1, Differences
        <5> QED BY <4>2, <5>2
      <4>3. CASE /\ Around /\ dequeueIndex <= hwIndex /\ hwIndex <= f
                 /\ hwCycle = 1 - cycleState /\ ran = closed - enqueueIndex - (f - hwIndex)
        <5>1. hwIndex = f /\ q = 0 /\ ran = closed - enqueueIndex
          <6>1. closed - (enqueueIndex - q) <= closed - enqueueIndex - (f - hwIndex)
            BY <2>5, <3>1, <4>3
          <6>2. hwIndex = f /\ q = 0
            <7>1. /\ q \in Int /\ hwIndex \in Int /\ enqueueIndex \in Int /\ closed \in Int /\ f \in Int
                  /\ 0 <= q /\ hwIndex <= f
              BY <2>4, <2>7, <4>3
            <7> QED BY <6>1, <7>1, Differences
          <6>3. closed - enqueueIndex - (f - f) = closed - enqueueIndex
            BY <2>7
          <6> QED BY <4>3, <6>2, <6>3
        <5>2. f = Link
          \* dequeueIndex went back to 0, so the TD ended in the last slot before the link
          <6>1. NextDQ(tds[k].index) = 0 /\ tds[k].index \in Slots
            BY <1>3, <1>5, <2>4, <5>1
          <6>2. tds[k].index + 1 = Link
            BY <6>1, Sizes DEF NextDQ
          <6>3. Busy(f, tds[k].index) /\ dequeueIndex <= f
            BY <2>6, <4>3 DEF TdsInv, EndInv
          <6>4. tds[k].index < f
            <7>1. (dequeueIndex <= tds[k].index /\ tds[k].index < f) \/ tds[k].index < enqueueIndex
              BY <2>2, <4>3, <6>3 DEF Busy
            <7>2. enqueueIndex < dequeueIndex
              BY <4>3 DEF Around
            <7>3. tds[k].index \in Int
              BY <6>1, Sizes
            <7> QED BY <2>7, <6>3, <7>1, <7>2, <7>3
          <6>5. tds[k].index \in Int
            BY <6>1, Sizes
          <6> QED BY <2>7, <6>2, <6>4, <6>5
        <5> QED BY <4>3, <5>1, <5>2
      <4> QED BY <2>8, <4>1, <4>2, <4>3
    <3>3. HwPos(f)'
      BY <1>1, <2>2, <2>4, <2>9, <3>2 DEF HwPos
    <3> QED BY <2>2, <3>3 DEF RingInv, Ring
  <2>10. CASE Around'
    <3>1. Around /\ q <= f /\ m = closed - enqueueIndex - (f - q)
      BY <2>2, <2>4, <2>5, <2>10
    <3>2. \/ /\ q <= hwIndex /\ hwIndex <= f
             /\ hwCycle = 1 - cycleState /\ ran = closed - enqueueIndex - (f - hwIndex)
          \/ /\ hwIndex <= enqueueIndex
             /\ hwCycle = cycleState /\ ran = closed - (enqueueIndex - hwIndex)
      <4>1. CASE /\ dequeueIndex <= hwIndex /\ hwIndex <= f
                 /\ hwCycle = 1 - cycleState /\ ran = closed - enqueueIndex - (f - hwIndex)
        <5>1. closed - enqueueIndex - (f - q) <= closed - enqueueIndex - (f - hwIndex)
          BY <2>5, <3>1, <4>1
        <5>2. q <= hwIndex
          <6>1. q \in Int /\ hwIndex \in Int /\ enqueueIndex \in Int /\ closed \in Int
            BY <2>4, <2>7
          <6> QED BY <2>7, <5>1, <6>1, Differences
        <5> QED BY <4>1, <5>2
      <4> QED BY <2>8, <3>1, <4>1
    <3>3. HwPos(f)'
      BY <1>1, <2>2, <2>4, <2>10, <3>2 DEF HwPos
    <3> QED BY <2>2, <3>3 DEF RingInv, Ring
  <2> QED BY <2>9, <2>10
<1>9. QueueInv'
  <2>1. /\ \A j \in DOMAIN tds : tds[j].id <= closed
        /\ \A i, j \in DOMAIN tds : i < j => tds[i].id < tds[j].id
        /\ Len(events) <= Len(tds)
        /\ \A j \in DOMAIN events : events[j] = tds[j].index
        /\ \A j \in DOMAIN tds : tds[j].id <= ran <=> j <= Len(events)
    BY DEF ViewInv, QueueInv
  <2>2. /\ Len(events) \in Nat /\ DOMAIN events = 1 .. Len(events)
        /\ Len(events') = Len(events) - 1 /\ DOMAIN events' = 1 .. Len(events) - 1
        /\ \A j \in 1 .. Len(events) - 1 : events'[j] = events[j + 1]
    <3>1. events \in Seq(Slots)
      BY DEF DriverInv, TypeOK
    <3> QED BY <1>1, <3>1
  <2>3. Len(tds') = Len(tds) - 1 /\ DOMAIN tds' = 1 .. Len(tds) - 1
    BY <1>3, <1>5
  <2>4. \A j \in DOMAIN tds' :
          /\ j \in Int /\ j + 1 \in DOMAIN tds
          /\ tds'[j].index = tds[j + 1].index /\ tds'[j].id = tds[j + 1].id
    BY <1>3, <1>5, <2>3
  <2>5. \A j \in DOMAIN tds' : tds'[j].id <= closed'
    BY <1>1, <2>1, <2>4
  <2>6. \A i, j \in DOMAIN tds' : i < j => tds'[i].id < tds'[j].id
    <3> SUFFICES ASSUME NEW i \in DOMAIN tds', NEW j \in DOMAIN tds', i < j PROVE tds'[i].id < tds'[j].id
      OBVIOUS
    <3>1. i + 1 \in DOMAIN tds /\ j + 1 \in DOMAIN tds /\ i + 1 < j + 1
      BY <2>4
    <3> QED BY <2>1, <2>4, <3>1
  <2>7. Len(events') <= Len(tds')
    BY <1>5, <2>1, <2>2, <2>3
  <2>8. \A j \in DOMAIN events' : events'[j] = tds'[j].index
    <3> SUFFICES ASSUME NEW j \in DOMAIN events' PROVE events'[j] = tds'[j].index
      OBVIOUS
    <3>1. j \in 1 .. Len(events) - 1 /\ j + 1 \in DOMAIN events /\ j \in DOMAIN tds'
      BY <1>5, <2>1, <2>2, <2>3
    <3> QED BY <2>1, <2>2, <2>4, <3>1
  <2>9. \A j \in DOMAIN tds' : tds'[j].id <= ran' <=> j <= Len(events')
    <3> SUFFICES ASSUME NEW j \in DOMAIN tds' PROVE tds'[j].id <= ran' <=> j <= Len(events')
      OBVIOUS
    <3>1. tds'[j].id <= ran <=> j + 1 <= Len(events)
      BY <2>1, <2>4
    <3>2. j + 1 <= Len(events) <=> j <= Len(events) - 1
      BY <2>2, <2>4
    <3> QED BY <1>1, <2>2, <3>1, <3>2
  <2> QED BY <2>5, <2>6, <2>7, <2>8, <2>9 DEF QueueInv
<1>10. StrandInv'
  <2> SUFFICES ASSUME ~torn
               PROVE  /\ ~armed' => ran' = closed'
                      /\ tds' # <<>> => tds'[Len(tds')].id = closed'
                      /\ tds' = <<>> => dequeueIndex' = Front' \/ (Front' = 0 /\ MaxTD <= dequeueIndex' - 1)
    BY <1>1 DEF StrandInv
  <2>1. PICK f \in 0 .. Link : Ring(f)
    BY <1>4 DEF RingInv
  <2>2. /\ tds' # <<>> => tds'[Len(tds')].id = closed
        /\ tds' = <<>> => dequeueIndex' = Front' \/ (Front' = 0 /\ MaxTD <= dequeueIndex' - 1)
    BY <1>1, <1>3, <1>4, <1>7, <2>1, AdvanceStrand
  <2>3. ~armed => ran = closed
    BY <1>1 DEF ViewInv, StrandInv
  <2> QED BY <1>1, <2>2, <2>3
<1> QED BY <1>8, <1>9, <1>10 DEF ViewInv

\* While the xHC is where the driver thinks it is, no event is of a TD of an empty ring.
LEMMA SpuriousView == DriverInv /\ ViewInv /\ SpuriousEvent => ViewInv'
<1> SUFFICES ASSUME DriverInv, ViewInv, SpuriousEvent PROVE ViewInv'
  OBVIOUS
<1>1. events # <<>> /\ enqueueIndex = dequeueIndex /\ (suspect' <=> suspect)
  BY DEF SpuriousEvent, histVars
<1>2. suspect'
  BY <1>1, OldestEvent
<1> QED BY <1>2 DEF ViewInv, RingInv, QueueInv, StrandInv

\* An empty ring, with the xHC where the next TD begins.
LEMMA FreshView ==
  ASSUME TypeOK', LayInv', dpc' = "idle", tds' = <<>>, events' = <<>>, ran' = closed',
         dequeueIndex' = enqueueIndex', hwIndex' = enqueueIndex', hwCycle' = cycleState'
  PROVE  ViewInv'
<1>1. Numbers' /\ first' = None /\ enqueueIndex' \in Slots
  BY PlacesNext DEF LayInv, TypeOK
<1>2. ~Wrapped' /\ Front' = enqueueIndex' /\ FrontTurn' = cycleState'
  BY <1>1 DEF Wrapped, Front, FrontTurn
<1>3. ~Around'
  BY <1>1, Sizes DEF Around
<1>4. PICK g \in 0 .. Link : TRUE
  BY Sizes
<1>5. EndInv(g)'
  BY <1>3 DEF EndInv
<1>6. HwPos(g)'
  <2>1. ran' = closed' - (enqueueIndex' - enqueueIndex')
    <3>1. closed' \in Int /\ enqueueIndex' \in Int
      BY <1>1 DEF Numbers
    <3>2. closed' - (enqueueIndex' - enqueueIndex') = closed'
      BY <3>1, Differences
    <3> QED BY <3>2
  <2>2. enqueueIndex' <= enqueueIndex'
    BY <1>1 DEF Numbers
  <2> QED BY <1>2, <1>3, <2>1, <2>2 DEF HwPos
<1>7. ContentInv(g)'
  <2>1. \A i \in 0 .. Link : ~Busy(g, i)'
    BY <1>1, <1>2, <1>3, Sizes DEF Busy
  <2> QED BY <2>1 DEF ContentInv
<1>8. TdsInv(g)'
  BY DEF TdsInv
<1>9. RingInv'
  BY <1>5, <1>6, <1>7, <1>8 DEF RingInv, Ring
<1>10. QueueInv'
  BY DEF QueueInv
<1>11. StrandInv'
  BY <1>2 DEF StrandInv
<1> QED BY <1>9, <1>10, <1>11 DEF ViewInv

\* An event of a short packet skips to enqueueIndex: nothing closed is left, unless events are.
LEMMA ShortView == DriverInv /\ ViewInv /\ ShortPacket => ViewInv'
<1> SUFFICES ASSUME DriverInv, ViewInv, ShortPacket PROVE ViewInv'
  OBVIOUS
<1>1. /\ dpc' = "idle" /\ tds' = <<>> /\ ran' = closed' /\ dequeueIndex' = enqueueIndex'
      /\ hwIndex' = enqueueIndex' /\ hwCycle' = cycleState'
      /\ events' = Tail(events) /\ (~suspect' => Tail(events) = <<>>)
  BY DEF ShortPacket, SetTRDQPtr, DequeueCycle, layoutVars
<1>2. TypeOK' /\ LayInv'
  BY RetireTypes DEF DriverInv, Retire
<1>3. CASE suspect'
  BY <1>3 DEF ViewInv, RingInv, QueueInv, StrandInv
<1>4. CASE ~suspect'
  BY <1>1, <1>2, <1>4, FreshView
<1> QED BY <1>3, <1>4

\* After re-initialisation the ring is empty for driver and xHC alike.
LEMMA ReinitView == DriverInv /\ ViewInv /\ (Reinit \/ ReinitFails) => ViewInv'
<1> SUFFICES ASSUME DriverInv, ViewInv, Reinit \/ ReinitFails PROVE ViewInv'
  OBVIOUS
<1>1. CASE suspect'
  BY <1>1 DEF ViewInv, RingInv, QueueInv, StrandInv
<1>2. CASE ~suspect'
  <2>1. Reinit
    BY <1>2 DEF ReinitFails
  <2>2. /\ dpc' = "idle" /\ ran' = closed' /\ dequeueIndex' = enqueueIndex'
        /\ hwIndex' = enqueueIndex' /\ hwCycle' = cycleState'
        /\ events' = events /\ (~suspect' => events = <<>> /\ tds' = <<>>)
    BY <2>1 DEF Reinit, Wipe
  <2>3. TypeOK' /\ LayInv'
    BY <2>1, RetireTypes DEF DriverInv, Retire
  <2> QED BY <1>2, <2>2, <2>3, FreshView
<1> QED BY <1>1, <1>2

-----------------------------------------------------------------------------
(* The xHC moves.                                                          *)

\* What the xHC fetches is the TRB after the one it carried out last.
LEMMA FetchNext ==
  ASSUME DriverInv, NEW f \in 0 .. Link, Ring(f), HwFetch
  PROVE  /\ Busy(f, hwIndex) /\ IdAt(f, hwIndex) = ran + 1 /\ trbs[hwIndex].id = ran + 1
         /\ ran + 1 <= closed /\ ran' = ran + 1 /\ hwIndex' = hwIndex + 1
<1>1. Busy(f, hwIndex) /\ IdAt(f, hwIndex) = ran + 1
  BY HwView DEF HwFetch
<1>2. hwIndex \in 0 .. Link /\ EndInv(f)
  BY DEF DriverInv, TypeOK, Ring
<1>3. trbs[hwIndex].id = IdAt(f, hwIndex)
  BY <1>1, <1>2 DEF Ring, ContentInv
<1>4. ran + 1 <= closed
  BY <1>1, <1>2, BusyIds
<1> QED BY <1>1, <1>3, <1>4 DEF HwFetch

\* The xHC carries out the next closed TRB and posts the event of a TD's last one.
LEMMA FetchView == DriverInv /\ ViewInv /\ HwFetch => ViewInv'
<1> SUFFICES ASSUME DriverInv, ViewInv, HwFetch PROVE ViewInv'
  OBVIOUS
<1>1. /\ UNCHANGED <<trbs, enqueueIndex, dequeueIndex, cycleState, tds, first, dpc, hwCycle, closed, tdStart>>
      /\ (suspect' <=> suspect) /\ (torn' <=> torn) /\ (armed' <=> armed) /\ armed
  BY DEF HwFetch, ringVars, layoutVars
<1> SUFFICES ASSUME ~suspect PROVE ViewInv'
  BY <1>1 DEF ViewInv, RingInv, QueueInv, StrandInv
<1>2. PICK f \in 0 .. Link : Ring(f)
  BY DEF ViewInv, RingInv
<1>3. /\ Busy(f, hwIndex) /\ IdAt(f, hwIndex) = ran + 1
      /\ ran + 1 <= closed /\ ran' = ran + 1 /\ hwIndex' = hwIndex + 1
  BY <1>2, FetchNext
<1>4. Numbers /\ f \in Int /\ Link \in Int
  BY Places, Sizes DEF DriverInv
<1>5. EndInv(f) /\ HwPos(f) /\ ContentInv(f) /\ TdsInv(f)
  BY <1>2 DEF Ring
<1>6. Front' = Front /\ FrontTurn' = FrontTurn /\ (Around' <=> Around)
  BY <1>1 DEF Front, FrontTurn, Around, Wrapped
<1>7. \A i \in 0 .. Link : (Busy(f, i)' <=> Busy(f, i)) /\ IdAt(f, i)' = IdAt(f, i)
  BY <1>1, <1>6 DEF Busy, IdAt
<1>8. Ring(f)'
  <2>1. EndInv(f)'
    BY <1>1, <1>5, <1>6 DEF EndInv
  <2>2. HwPos(f)'
    <3>1. IF Around THEN (dequeueIndex <= hwIndex /\ hwIndex < f) \/ hwIndex < Front
                    ELSE dequeueIndex <= hwIndex /\ hwIndex < Front
      BY <1>3 DEF Busy
    <3>2. Around => Front < dequeueIndex
      BY <1>4 DEF Around, Numbers
    <3>3. CASE Around
      <4>1. CASE /\ dequeueIndex <= hwIndex /\ hwIndex <= f
                 /\ hwCycle = 1 - FrontTurn /\ ran = closed - Front - (f - hwIndex)
        <5>1. /\ dequeueIndex <= hwIndex + 1 /\ hwIndex + 1 <= f
              /\ ran + 1 = closed - Front - (f - (hwIndex + 1))
          BY <1>4, <3>1, <3>2, <3>3, <4>1 DEF Numbers
        <5> QED BY <1>1, <1>3, <1>6, <3>3, <4>1, <5>1 DEF HwPos
      <4>2. CASE /\ hwIndex <= Front
                 /\ hwCycle = FrontTurn /\ ran = closed - (Front - hwIndex)
        <5>1. hwIndex + 1 <= Front /\ ran + 1 = closed - (Front - (hwIndex + 1))
          BY <1>4, <3>1, <3>2, <3>3, <4>2 DEF Numbers
        <5> QED BY <1>1, <1>3, <1>6, <3>3, <4>2, <5>1 DEF HwPos
      <4> QED BY <1>5, <3>3, <4>1, <4>2 DEF HwPos
    <3>4. CASE ~Around
      <4>0. hwIndex < Front /\ Front < Link /\ dequeueIndex <= hwIndex
        BY <1>4, <3>1, <3>4 DEF Numbers
      <4>1. hwCycle = FrontTurn /\ ran = closed - (Front - hwIndex)
        <5>1. hwIndex # Link
          BY <1>4, <4>0 DEF Numbers
        <5> QED BY <1>5, <3>4, <5>1 DEF HwPos
      <4>2. /\ dequeueIndex <= hwIndex + 1 /\ hwIndex + 1 <= Front
            /\ ran + 1 = closed - (Front - (hwIndex + 1))
        BY <1>4, <4>0, <4>1 DEF Numbers
      <4> QED BY <1>1, <1>3, <1>6, <3>4, <4>1, <4>2 DEF HwPos
    <3> QED BY <3>3, <3>4
  <2>3. ContentInv(f)'
    <3>1. \A i \in 0 .. Link : IdAt(f, i) \in Int
      BY <1>5, BusyIds
    <3>2. \A i \in 0 .. Link : ran' < IdAt(f, i) => ran < IdAt(f, i)
      BY <1>3, <1>4, <3>1 DEF Numbers
    <3> QED BY <1>1, <1>5, <1>7, <3>2 DEF ContentInv
  <2>4. TdsInv(f)'
    <3>1. \A k \in DOMAIN tds : tds[k].index \in 0 .. Link
      BY ScheduleShrinks, Sizes DEF DriverInv
    <3> QED BY <1>1, <1>5, <1>7, <3>1 DEF TdsInv
  <2> QED BY <2>1, <2>2, <2>3, <2>4 DEF Ring
<1>9. QueueInv'
  <2>1. /\ \A k \in DOMAIN tds : tds[k].id <= closed
        /\ \A j, k \in DOMAIN tds : j < k => tds[j].id < tds[k].id
        /\ Len(events) <= Len(tds)
        /\ \A k \in DOMAIN events : events[k] = tds[k].index
        /\ \A k \in DOMAIN tds : tds[k].id <= ran <=> k <= Len(events)
    BY DEF ViewInv, QueueInv
  <2>2. /\ DOMAIN tds = 1 .. Len(tds) /\ Len(tds) \in Nat
        /\ DOMAIN events = 1 .. Len(events) /\ Len(events) \in Nat
    BY DEF DriverInv, TypeOK
  <2>3. \A k \in DOMAIN tds : tds[k].id \in Int /\ tds[k].index \in 0 .. Link
    BY ScheduleShrinks, Sizes DEF DriverInv
  <2>4. hwIndex \in 0 .. Link
    BY DEF DriverInv, TypeOK
  <2>5. trbs[hwIndex].last <=> \E k \in DOMAIN tds : tds[k].id = ran + 1
    <3>1. ran < ran + 1
      BY <1>4 DEF Numbers
    <3> QED BY <1>3, <1>5, <2>4, <3>1 DEF ContentInv
  <2>6. CASE trbs[hwIndex].last
    <3>1. PICK k \in DOMAIN tds : tds[k].id = ran + 1
      BY <2>5, <2>6
    <3>2. k = Len(events) + 1
      <4>1. ~(k <= Len(events))
        BY <1>4, <2>1, <3>1 DEF Numbers
      <4>2. SUFFICES ASSUME k > Len(events) + 1 PROVE FALSE
        BY <2>2, <3>1, <4>1
      <4>3. Len(events) + 1 \in DOMAIN tds /\ Len(events) + 1 < k
        BY <2>2, <3>1, <4>2
      <4>4. tds[Len(events) + 1].id < ran + 1 /\ tds[Len(events) + 1].id \in Int
        BY <2>1, <2>3, <3>1, <4>3
      <4>5. tds[Len(events) + 1].id <= ran
        BY <1>4, <4>4 DEF Numbers
      <4>6. Len(events) + 1 <= Len(events)
        BY <2>1, <4>3, <4>5
      <4> QED BY <2>2, <4>6
    <3>3. tds[k].index = hwIndex
      <4>1. tds[k].index \in 0 .. Link /\ Busy(f, tds[k].index) /\ IdAt(f, tds[k].index) = ran + 1
        BY <1>5, <2>3, <3>1 DEF TdsInv
      <4> QED BY <1>3, <1>5, <2>4, <4>1, BusyIds
    <3>4. /\ Len(events') = Len(events) + 1 /\ DOMAIN events' = 1 .. Len(events) + 1
          /\ \A j \in 1 .. Len(events) : events'[j] = events[j]
          /\ events'[Len(events) + 1] = hwIndex
      <4>1. events' = Append(events, hwIndex)
        BY <2>6 DEF HwFetch
      <4>2. events \in Seq(Slots) /\ hwIndex \in Slots
        <5>1. hwIndex # Link
          BY DEF HwFetch, DriverInv, LayInv
        <5> QED BY <2>4, <5>1, Sizes DEF DriverInv, TypeOK
      <4> QED BY <4>1, <4>2, AppendProperties
    <3>5. Len(events') <= Len(tds)
      BY <2>2, <3>1, <3>2, <3>4
    <3>6. \A j \in DOMAIN events' : events'[j] = tds[j].index
      <4> SUFFICES ASSUME NEW j \in DOMAIN events' PROVE events'[j] = tds[j].index
        OBVIOUS
      <4>1. j \in 1 .. Len(events) \/ j = Len(events) + 1
        BY <2>2, <3>4
      <4>2. CASE j \in 1 .. Len(events)
        BY <2>1, <2>2, <3>4, <4>2
      <4>3. CASE j = Len(events) + 1
        BY <3>2, <3>3, <3>4, <4>3
      <4> QED BY <4>1, <4>2, <4>3
    <3>7. ASSUME NEW j \in DOMAIN tds PROVE tds[j].id <= ran' <=> j <= Len(events')
      <4>1. j \in Int /\ k \in Int /\ tds[j].id \in Int /\ tds[k].id \in Int
        BY <2>2, <2>3
      <4>2. CASE j < k
        <5>1. tds[j].id < ran + 1
          BY <2>1, <3>1, <4>2
        <5>2. tds[j].id <= ran + 1 /\ j <= Len(events) + 1
          BY <1>4, <2>2, <3>2, <4>1, <4>2, <5>1 DEF Numbers
        <5> QED BY <1>3, <3>4, <5>2
      <4>3. CASE j = k
        <5>1. tds[j].id <= ran + 1 /\ j <= Len(events) + 1
          BY <1>4, <2>2, <3>1, <3>2, <4>1, <4>3 DEF Numbers
        <5> QED BY <1>3, <3>4, <5>1
      <4>4. CASE k < j
        <5>1. ran + 1 < tds[j].id
          BY <2>1, <3>1, <4>4
        <5>2. ~(tds[j].id <= ran + 1) /\ ~(j <= Len(events) + 1)
          BY <1>4, <2>2, <3>2, <4>1, <4>4, <5>1 DEF Numbers
        <5> QED BY <1>3, <3>4, <5>2
      <4> QED BY <4>1, <4>2, <4>3, <4>4
    <3> QED BY <1>1, <2>1, <3>5, <3>6, <3>7 DEF QueueInv
  <2>7. CASE ~trbs[hwIndex].last
    <3>1. events' = events
      BY <2>7 DEF HwFetch
    <3>2. \A k \in DOMAIN tds : tds[k].id <= ran + 1 <=> tds[k].id <= ran
      <4>1. \A k \in DOMAIN tds : tds[k].id # ran + 1
        BY <2>5, <2>7
      <4> QED BY <1>4, <2>3, <4>1 DEF Numbers
    <3> QED BY <1>1, <1>3, <2>1, <3>1, <3>2 DEF QueueInv
  <2> QED BY <2>6, <2>7
<1>10. StrandInv'
  BY <1>1, <1>6 DEF ViewInv, StrandInv
<1> QED BY <1>8, <1>9, <1>10 DEF ViewInv, RingInv

\* A link takes the xHC from the older turn of the ring to the other.
LEMMA LinkView == DriverInv /\ ViewInv /\ HwLink => ViewInv'
<1> SUFFICES ASSUME DriverInv, ViewInv, HwLink PROVE ViewInv'
  OBVIOUS
<1>1. /\ UNCHANGED <<trbs, enqueueIndex, dequeueIndex, cycleState, tds, first, dpc, closed, tdStart, ran, events>>
      /\ (suspect' <=> suspect) /\ (torn' <=> torn) /\ (armed' <=> armed)
      /\ hwIndex' = 0 /\ hwCycle' = 1 - hwCycle
  BY DEF HwLink, ringVars, layoutVars, histVars
<1> SUFFICES ASSUME ~suspect PROVE ViewInv'
  BY <1>1 DEF ViewInv, RingInv, QueueInv, StrandInv
<1>2. PICK f \in 0 .. Link : Ring(f)
  BY DEF ViewInv, RingInv
<1>3. EndInv(f) /\ HwPos(f) /\ ContentInv(f) /\ TdsInv(f)
  BY <1>2 DEF Ring
<1>4. Numbers /\ FrontTurn \in 0 .. 1
  BY Places DEF DriverInv, FrontTurn, Numbers
<1>5. /\ hwCycle = 1 - FrontTurn /\ ran = closed - Front
      /\ ~Around => dequeueIndex = 0
  <2>1. ~Busy(f, hwIndex) /\ Valid(hwIndex)
    <3>1. hwIndex \in 0 .. Link
      BY DEF DriverInv, TypeOK
    <3> QED BY <1>3, <3>1 DEF ContentInv, HwLink
  <2> QED BY <1>2, <2>1, HwView
<1>6. Front' = Front /\ FrontTurn' = FrontTurn /\ (Around' <=> Around)
  BY <1>1 DEF Front, FrontTurn, Around, Wrapped
<1>7. \A i \in 0 .. Link : (Busy(f, i)' <=> Busy(f, i)) /\ IdAt(f, i)' = IdAt(f, i)
  BY <1>1, <1>6 DEF Busy, IdAt
<1>8. Ring(f)'
  <2>1. EndInv(f)'
    BY <1>1, <1>3, <1>6 DEF EndInv
  <2>2. HwPos(f)'
    <3>1. hwCycle' = FrontTurn /\ 0 <= Front
      BY <1>1, <1>4, <1>5 DEF Numbers
    <3>2. closed - (Front - 0) = closed - Front
      BY <1>4 DEF Numbers
    <3>3. ~Around => dequeueIndex' <= 0
      BY <1>1, <1>5
    <3> QED BY <1>1, <1>5, <1>6, <3>1, <3>2, <3>3 DEF HwPos
  <2>3. ContentInv(f)'
    BY <1>1, <1>3, <1>7 DEF ContentInv
  <2>4. TdsInv(f)'
    <3>1. \A k \in DOMAIN tds : tds[k].index \in 0 .. Link
      BY ScheduleShrinks, Sizes DEF DriverInv
    <3> QED BY <1>1, <1>3, <1>7, <3>1 DEF TdsInv
  <2> QED BY <2>1, <2>2, <2>3, <2>4 DEF Ring
<1>9. QueueInv'
  BY <1>1 DEF ViewInv, QueueInv
<1>10. StrandInv'
  BY <1>1, <1>6 DEF ViewInv, StrandInv
<1> QED BY <1>8, <1>9, <1>10 DEF ViewInv, RingInv

\* The xHC idles with all that is closed carried out.
LEMMA IdleView == DriverInv /\ ViewInv /\ HwIdle => ViewInv'
<1> SUFFICES ASSUME DriverInv, ViewInv, HwIdle PROVE ViewInv'
  OBVIOUS
<1>1. /\ UNCHANGED <<trbs, enqueueIndex, dequeueIndex, cycleState, tds, first, dpc, hwIndex, hwCycle,
                     closed, tdStart, ran, events>>
      /\ (suspect' <=> suspect) /\ (torn' <=> torn)
      /\ ~Valid(hwIndex)
  BY DEF HwIdle, ringVars, layoutVars, histVars
<1>2. Same
  BY <1>1 DEF Same, Front, FrontTurn, Around, Wrapped
<1>3. RingInv' /\ QueueInv'
  BY <1>1, <1>2, SameView DEF ViewInv
<1>4. StrandInv'
  <2> SUFFICES ASSUME ~suspect, ~torn
               PROVE  /\ IF dpc = "idle" THEN ran = closed ELSE tdStart <= ran
                      /\ tds # <<>> => tds[Len(tds)].id = IF dpc = "idle" THEN closed ELSE tdStart
                      /\ tds = <<>> /\ (dpc = "idle" \/ closed = tdStart) =>
                           dequeueIndex = Front \/ (Front = 0 /\ MaxTD <= dequeueIndex - 1)
    BY <1>1, <1>2 DEF StrandInv, Same
  <2>1. ran = closed
    BY <1>1, HwView DEF ViewInv, RingInv
  <2>2. dpc # "idle" => tdStart <= closed
    BY DEF DriverInv, OpenInv
  <2> QED BY <2>1, <2>2 DEF ViewInv, StrandInv
<1> QED BY <1>3, <1>4 DEF ViewInv

\* What is closed, run, scheduled and posted stays one consecutive whole.
LEMMA ViewStep == DriverInv /\ ViewInv /\ [Next]_vars => ViewInv'
<1> SUFFICES ASSUME DriverInv, ViewInv, [Next]_vars PROVE ViewInv'
  OBVIOUS
<1>1. CASE UNCHANGED vars
  <2>1. /\ UNCHANGED <<trbs, enqueueIndex, dequeueIndex, cycleState, tds, first, dpc, hwIndex, hwCycle,
                       closed, tdStart, ran, events>>
        /\ (suspect' <=> suspect) /\ (torn' <=> torn) /\ (armed' <=> armed)
    BY <1>1 DEF vars, ringVars, layoutVars, hwVars, histVars
  <2>2. Same
    BY <2>1 DEF Same, Front, FrontTurn, Around, Wrapped
  <2>3. RingInv' /\ QueueInv'
    BY <2>1, <2>2, SameView DEF ViewInv
  <2>4. StrandInv'
    BY <2>1, <2>2 DEF ViewInv, StrandInv, Same
  <2> QED BY <2>3, <2>4 DEF ViewInv
<1> QED BY <1>1, ScheduleView, TakeNextView, TakeLastView, MoveView, RelinkView, FillView,
           CloseView, GiveUpView, TransferView, SpuriousView, ShortView, SkipView, ReinitView,
           FetchView, LinkView, IdleView DEF Next, Layout, Retire, Xhc

\* A ring just initialised is empty for driver and xHC alike.
LEMMA InitView == Init => ViewInv
<1> SUFFICES ASSUME Init PROVE ViewInv
  OBVIOUS
<1>1. TypeOK /\ LayInv /\ Numbers
  BY InitTypes, Places
<1>2. ~Around /\ Front = 0 /\ FrontTurn = 1 /\ hwIndex = 0 /\ hwCycle = 1 /\ ran = closed /\ closed = 0
  BY DEF Init, Around, Front, FrontTurn, Wrapped
<1>3. RingInv
  <2>1. PICK g \in 0 .. Link : TRUE
    BY Sizes
  <2>2. EndInv(g) /\ HwPos(g)
    BY <1>2 DEF EndInv, HwPos, Init
  <2>3. \A i \in 0 .. Link : ~Busy(g, i)
    BY <1>2, Sizes DEF Busy
  <2>4. ContentInv(g) /\ TdsInv(g)
    BY <2>3 DEF ContentInv, TdsInv, Init
  <2> QED BY <2>2, <2>4 DEF RingInv, Ring
<1>4. QueueInv
  BY DEF Init, QueueInv
<1>5. StrandInv
  BY <1>2 DEF Init, StrandInv
<1> QED BY <1>3, <1>4, <1>5 DEF ViewInv

-----------------------------------------------------------------------------
(* The theorems.                                                           *)

\* The inductive invariant: where the driver's fragment lies and what it holds, with the cycle bit
\* of every slot (DriverInv), and where the xHC is among the closed TRBs, which events are on
\* their way and what is scheduled (ViewInv).
THEOREM RingCorrect == Spec => [](DriverInv /\ ViewInv)
<1>1. Init => DriverInv /\ ViewInv
  BY InitTypes, InitOpen, InitView DEF DriverInv, Init, YoungestScheduled
<1>2. DriverInv /\ ViewInv /\ [Next]_vars => (DriverInv /\ ViewInv)'
  BY TypeStep, OpenStep, YoungestStep, ViewStep DEF DriverInv
<1> QED BY <1>1, <1>2, PTL DEF Spec

\* Where the xHC finds nothing valid it has carried out every closed fragment, wherever the link
\* TRBs are and whatever was put back: no stale cycle bit hides a TRB.
THEOREM AllFound == Spec => []NothingHidden
<1>1. DriverInv /\ ViewInv => NothingHidden
  BY HwView DEF ViewInv, RingInv, NothingHidden
<1> QED BY <1>1, RingCorrect, PTL

\* The xHC carries out the TRBs in the order in which they were laid out, each once, and only those
\* of fragments that CloseFragment made valid.
THEOREM InOrder == Spec => HwInOrder
<1>1. DriverInv /\ ViewInv /\ [Next]_vars
        => [HwFetch /\ ~suspect => trbs[hwIndex].id = ran + 1 /\ ran + 1 <= closed]_vars
  BY FetchNext DEF ViewInv, RingInv
<1> QED BY <1>1, RingCorrect, PTL DEF Spec, HwInOrder

\* A transfer event is of the oldest TD on the ring, carried out, with the ring not empty; if it
\* was flushed while the endpoint ran on, its index is no scheduled TD's. So no TD is dropped as
\* orphaned or as spurious, and no event of a flushed TD is taken for another's.
THEOREM EventFindsItsTD == Spec => EventOfOldestTD
<1>1. DriverInv /\ ViewInv /\ [Next]_vars
        => [events # <<>> /\ events' = Tail(events) /\ ~suspect =>
              /\ tds # <<>> /\ tds[1].index = Head(events) /\ tds[1].id <= ran
              /\ \A k \in Scheduled : tds[k].index = Head(events) => k = 1
              /\ enqueueIndex # dequeueIndex]_vars
  BY OldestEvent DEF Scheduled
<1> QED BY <1>1, RingCorrect, PTL DEF Spec, EventOfOldestTD

\* When the xHC idles and the driver is between two TDs, all that is closed was carried out: the
\* doorbells that ScheduleTDs rings are enough.
THEOREM NoneStranded == Spec => []NothingStranded
<1>1. DriverInv /\ ViewInv => NothingStranded
  BY DEF ViewInv, StrandInv, NothingStranded
<1> QED BY <1>1, RingCorrect, PTL

\* An idle ring takes a TD of any size, wherever its indices came to rest: that NumTRBs is more than
\* twice MaxTD is what makes it so.
THEOREM IdleRingHasRoom == Spec => []RoomWhenIdle
<1>1. DriverInv /\ ViewInv => RoomWhenIdle
  <2> SUFFICES ASSUME DriverInv, ViewInv, Scheduled = {}, dpc = "idle", ~suspect, ~torn PROVE CanTDFragmentFit
    BY DEF RoomWhenIdle
  <2>0. tds = <<>>
    <3>1. tds # <<>> => Len(tds) \in DOMAIN tds
      BY DEF DriverInv, TypeOK
    <3> QED BY <3>1 DEF DriverInv, YoungestScheduled, Scheduled
  <2>1. dequeueIndex = Front \/ (Front = 0 /\ MaxTD <= dequeueIndex - 1)
    BY <2>0 DEF ViewInv, StrandInv
  <2>2. Front = enqueueIndex /\ Numbers
    BY Places DEF DriverInv, LayInv, Front
  <2>3. CASE dequeueIndex = enqueueIndex
    <3>1. MaxTD <= dequeueIndex - 1 \/ MaxTD <= NumTRBs - enqueueIndex - 1
      BY <2>2, <2>3, Sizes DEF Numbers
    <3> QED BY <2>2, <2>3, <3>1, Sizes DEF CanTDFragmentFit, NumFit, Numbers
  <2>4. CASE enqueueIndex = 0 /\ MaxTD <= dequeueIndex - 1
    BY <2>2, <2>4, Sizes DEF CanTDFragmentFit, NumFit, Numbers
  <2> QED BY <2>1, <2>2, <2>3, <2>4
<1> QED BY <1>1, RingCorrect, PTL
=============================================================================

----------------------------- MODULE TransferRing -----------------------------
(***************************************************************************)
(* A transfer ring: the TRBs that _createTransfer lays out with GetNextTRB, *)
(* CloseFragment and PutBackTRB (Transfers.cpp), the xHC that follows them, *)
(* and the transfer events that move dequeueIndex.                          *)
(*                                                                         *)
(* The driver works on the ring with the work-loop gate held, so only the   *)
(* xHC (external) interleaves with it: it may fetch at each store that it   *)
(* can see. Stores to slots that no TRB or link leads to are one step.      *)
(*                                                                         *)
(* A TD is cut in fragments. The TRBs of a fragment are written from the    *)
(* second on with the cycle bit that makes them valid, and the first one is *)
(* made valid last (CloseFragment). A fragment is never split by the link   *)
(* TRB at the end: it is moved to the start of the ring, and its first TRB  *)
(* becomes a link to it, for that turn of the ring.                         *)
(*                                                                         *)
(* A TD that RetireTDs flushes while the endpoint runs on stays on the ring: *)
(* the xHC carries it out, and its event finds no TD on the schedule.        *)
(* (An endpoint that halted is left as it is until the ring is wiped.)       *)
(*                                                                         *)
(* TRBs are numbered 1, 2, ... in the order they are laid out; what a TRB   *)
(* transfers is its number.                                                 *)
(***************************************************************************)
EXTENDS Integers, Sequences, FiniteSets

CONSTANTS NumTRBs,     \* entries of the ring, the link TRB included (256 a page)
          MaxTD,       \* maxNumPages: the most TRBs in a TD (35 in the driver)
          MaxTRBs,     \* bound: TRBs laid out between two re-initialisations
          MaxReinits   \* bound: re-initialisations of the ring in a behaviour

ASSUME MaxTDAssumption   == MaxTD \in Nat \ {0}
\* 256 against 35 in the driver. With fewer the ring could be empty and refuse a TD.
ASSUME NumTRBsAssumption == NumTRBs \in Nat /\ NumTRBs >= 2 * MaxTD + 1 /\ NumTRBs >= 4
ASSUME BoundsAssumption  == MaxTRBs \in Nat /\ MaxReinits \in Nat

VARIABLES
  \* ringStruct
  trbs, enqueueIndex, dequeueIndex, cycleState,
  tds,        \* the endpoint's scheduled TDs, oldest first: lastTrbIndex, number of that TRB;
              \* and (history) those flushed off the schedule, until their events have come
  \* _createTransfer
  dpc,        \* where the driver is in it
  first,      \* pFirstTrbInFragment
  slot,       \* pTrb
  left,       \* TRBs of the TD still to lay out
  written,    \* number of the last TRB laid out
  \* the xHC
  hwIndex, hwCycle,   \* its dequeue pointer and consumer cycle state
  armed,              \* the endpoint is running: a doorbell rang and it has not idled since
  events,             \* transfer events not yet handled: TRB indices, oldest first
  \* history
  closed,     \* number of the last TRB of a closed fragment
  tdStart,    \* value of closed when the TD was begun
  ran,        \* number of the last TRB the xHC has carried out
  torn,       \* a TD was put back after one of its fragments was closed
  suspect,    \* the ring was moved under the xHC: see SetTRDQPtr
  reinits

ringVars   == <<trbs, enqueueIndex, dequeueIndex, cycleState, tds>>
layoutVars == <<dpc, first, slot, left, written>>
hwVars     == <<hwIndex, hwCycle, armed, events>>
histVars   == <<closed, tdStart, ran, torn, suspect, reinits>>
vars       == <<ringVars, layoutVars, hwVars, histVars>>

-----------------------------------------------------------------------------
Link  == NumTRBs - 1
Slots == 0 .. Link - 1
None  == -1             \* null pointer

TRB == [kind: {"trb", "link"}, id: 0 .. MaxTRBs, last: BOOLEAN, cycle: 0 .. 1]
Blank(c) == [kind |-> "trb", id |-> 0, last |-> FALSE, cycle |-> c]
LinkTRB(c) == [kind |-> "link", id |-> 0, last |-> FALSE, cycle |-> c]
EmptyRing == [i \in 0 .. Link |-> IF i = Link THEN LinkTRB(0) ELSE Blank(0)]

\* The index after i: processTransferEvent2, FlushTDs and UpdateTimeouts alike.
NextDQ_NoWrap(i) == IF i + 1 >= NumTRBs THEN 0 ELSE i + 1
NextDQ(i) == IF i + 1 >= Link THEN 0 ELSE i + 1

\* How many TRBs CanTDFragmentFit finds room for.
NumFit_IgnoresSplit ==
  IF enqueueIndex < dequeueIndex THEN dequeueIndex - 1 - enqueueIndex
  ELSE dequeueIndex + NumTRBs - enqueueIndex - 2

NumFit_EndOnly ==
  IF enqueueIndex < dequeueIndex THEN dequeueIndex - 1 - enqueueIndex
  ELSE NumTRBs - enqueueIndex - 2

NumFit ==
  IF enqueueIndex < dequeueIndex THEN dequeueIndex - 1 - enqueueIndex
  ELSE LET toEnd == NumTRBs - enqueueIndex
       IN  IF dequeueIndex = 0 THEN (IF toEnd > 2 THEN toEnd - 2 ELSE 0)
           ELSE IF toEnd - 1 < dequeueIndex - 1 THEN dequeueIndex - 1 ELSE toEnd - 1

CanTDFragmentFit == MaxTD <= NumFit

Init ==
  /\ trbs = EmptyRing /\ enqueueIndex = 0 /\ dequeueIndex = 0 /\ cycleState = 1 /\ tds = <<>>
  /\ dpc = "idle" /\ first = None /\ slot = 0 /\ left = 0 /\ written = 0
  /\ hwIndex = 0 /\ hwCycle = 1 /\ armed = FALSE /\ events = <<>>
  /\ closed = 0 /\ tdStart = 0 /\ ran = 0 /\ torn = FALSE /\ suspect = FALSE /\ reinits = 0

-----------------------------------------------------------------------------
(* ScheduleTDs and _createTransfer.                                        *)

\* A TD is one TRB, or several that move data and one that asks for the event.
TDSizes == 1 .. MaxTD \ {2}

\* ScheduleTDs takes a TD of n TRBs when any TD would fit. (The endpoint's queue of
\* TDs is not kept here: there may always be one more, or none.)
ScheduleTD ==
  /\ dpc = "idle" /\ CanTDFragmentFit
  /\ \E n \in TDSizes : written + n <= MaxTRBs /\ left' = n
  /\ dpc' = "next" /\ first' = None /\ tdStart' = closed
  /\ UNCHANGED <<ringVars, slot, written, hwVars, closed, ran, torn, suspect, reinits>>

AtLast   == enqueueIndex = Link - 1
MustMove == enqueueIndex = 0 /\ first # None

\* GetNextTRB returns null.
QueueFull ==
  \/ AtLast /\ dequeueIndex = 0
  \/ ~AtLast /\ MustMove /\ dequeueIndex < Link - first + 2
  \/ ~AtLast /\ ~MustMove /\ enqueueIndex + 1 = dequeueIndex

\* pTrb and, for the first TRB of a fragment, pFirstTrbInFragment.
Take(i) ==
  /\ slot' = i /\ first' = (IF first = None THEN i ELSE first)
  /\ dpc' = "fill"

TakeNext ==
  /\ dpc = "next" /\ ~QueueFull /\ ~AtLast /\ ~MustMove
  /\ Take(enqueueIndex)
  /\ trbs' = [trbs EXCEPT ![enqueueIndex] = Blank(@.cycle)]
  /\ enqueueIndex' = enqueueIndex + 1
  /\ UNCHANGED <<dequeueIndex, cycleState, tds, left, written, hwVars, histVars>>

\* The last slot: the link TRB becomes valid for this turn of the ring.
LinkCycle_Kept == trbs[Link].cycle
LinkCycle == cycleState

TakeLast ==
  /\ dpc = "next" /\ ~QueueFull /\ AtLast
  /\ Take(enqueueIndex)
  /\ trbs' = [trbs EXCEPT ![Link].cycle = LinkCycle, ![enqueueIndex] = Blank(@.cycle)]
  /\ cycleState' = 1 - cycleState /\ enqueueIndex' = 0
  /\ UNCHANGED <<dequeueIndex, tds, left, written, hwVars, histVars>>

\* The fragment would be split: its TRBs are copied to the start of the ring,
\* their cycle bits flipped ...
Moved_CycleKept(t) == t
Moved(t) == [t EXCEPT !.cycle = 1 - @]

MoveFragment ==
  /\ dpc = "next" /\ ~QueueFull /\ ~AtLast /\ MustMove
  /\ trbs' = [i \in 0 .. Link |->
                IF i < Link - first THEN Moved(trbs[first + i]) ELSE trbs[i]]
  /\ dpc' = "relink"
  /\ UNCHANGED <<enqueueIndex, dequeueIndex, cycleState, tds, first, slot, left, written,
                 hwVars, histVars>>

\* ... and its first TRB becomes a copy of the link TRB, valid at once: "This
\* could lead xHC to immediately parse link TRB". The new TRB goes after the copies.
Relink ==
  /\ dpc = "relink"
  /\ LET next == Link - first IN
     /\ trbs' = [trbs EXCEPT ![first] = trbs[Link], ![next] = Blank(@.cycle)]
     /\ enqueueIndex' = next + 1 /\ slot' = next
  /\ first' = 0 /\ dpc' = "fill"
  /\ UNCHANGED <<dequeueIndex, cycleState, tds, left, written, hwVars, histVars>>

FillCycle_FirstTooSoon(c) == 1 - c
FillCycle(c) == IF slot = first THEN c ELSE 1 - c

\* The TRB's four words. Only the first TRB of a fragment keeps its cycle bit.
\* A fragment is closed at the end of the TD, or earlier when the bytes laid out
\* are a multiple of the burst size, with at least a data and an event TRB to come.
Fill ==
  /\ dpc = "fill"
  /\ trbs' = [trbs EXCEPT ![slot] = [kind |-> "trb", id |-> written + 1, last |-> left = 1,
                                     cycle |-> FillCycle(@.cycle)]]
  /\ written' = written + 1 /\ left' = left - 1
  /\ \/ left = 1 /\ dpc' = "close"
     \/ left > 1 /\ dpc' = "next"
     \/ left > 2 /\ dpc' = "close"
  /\ UNCHANGED <<enqueueIndex, dequeueIndex, cycleState, tds, first, slot, hwVars, histVars>>

LastTrbIndex_OfFirst == first
LastTrbIndex == slot
Doorbell_Forgotten == armed
Doorbell == TRUE

\* CloseFragment, and for the last fragment of the TD the end of ScheduleTDs: the
\* TD is scheduled and the doorbell rings.
CloseFragment ==
  /\ dpc = "close"
  /\ trbs' = [trbs EXCEPT ![first].cycle = 1 - @]
  /\ closed' = written /\ first' = None
  /\ IF left > 0
     THEN dpc' = "next" /\ UNCHANGED <<tds, armed>>
     ELSE /\ dpc' = "idle" /\ armed' = Doorbell
          /\ tds' = Append(tds, [index |-> LastTrbIndex, id |-> written, flushed |-> FALSE])
  /\ UNCHANGED <<enqueueIndex, dequeueIndex, cycleState, slot, left, written,
                 hwIndex, hwCycle, events, tdStart, ran, torn, suspect, reinits>>

\* PutBackTRB walks enqueueIndex back to the first TRB of the fragment, link TRB
\* included, or to dequeueIndex when that comes first, and makes every slot it passes
\* invalid for its turn of the ring. Back(i) is the length of the walk to i.
Back(i)   == (enqueueIndex - i + NumTRBs) % NumTRBs
TurnOf(i) == IF i > enqueueIndex THEN 1 - cycleState ELSE cycleState

PutBackTRB ==
  IF first = None THEN UNCHANGED <<trbs, enqueueIndex, cycleState>>
  ELSE /\ trbs' = [i \in 0 .. Link |->
                     IF Back(i) > 0 /\ Back(i) < Back(first) /\ Back(i) <= Back(dequeueIndex)
                     THEN [trbs[i] EXCEPT !.cycle = 1 - TurnOf(i)]
                     ELSE trbs[i]]
       /\ enqueueIndex' = IF Back(dequeueIndex) < Back(first) THEN dequeueIndex ELSE first
       /\ cycleState' = TurnOf(enqueueIndex')

\* _createTransfer gives up on the TD when there is no TRB left or a segment of its
\* buffer cannot be made (the TRB that asks for the event needs none): ScheduleTDs
\* puts it back in its queue, without a doorbell for the fragments already closed.
GiveUp ==
  /\ \/ dpc = "next" /\ QueueFull
     \/ dpc = "fill" /\ (left > 1 \/ written = tdStart)
  /\ PutBackTRB
  /\ dpc' = "idle" /\ first' = None /\ left' = 0 /\ written' = closed
  /\ torn' = (torn \/ closed > tdStart)
  /\ UNCHANGED <<dequeueIndex, tds, slot, hwVars, closed, tdStart, ran, suspect, reinits>>

-----------------------------------------------------------------------------
(* processTransferEvent2, on the gate. An event that arrives while the     *)
(* driver is inside _createTransfer waits for the gate.                    *)

\* The TDs on the endpoint's schedule.
Scheduled == {k \in DOMAIN tds : ~tds[k].flushed}

\* GetTDFromActiveQueueWithIndex takes the TD whose last TRB the event names off the
\* schedule, with those before it.
IsOldestMatch(k) == /\ k \in Scheduled /\ tds[k].index = Head(events)
                    /\ \A j \in 1 .. k - 1 : j \in Scheduled => tds[j].index # Head(events)

\* The event is for no scheduled TD: dequeueIndex moves all the same.
TransferEvent ==
  /\ dpc = "idle" /\ events # <<>> /\ events' = Tail(events)
  /\ \/ /\ \A k \in Scheduled : tds[k].index # Head(events)
        /\ dequeueIndex' = NextDQ(Head(events))
        /\ tds' = IF tds # <<>> /\ tds[1].flushed /\ tds[1].index = Head(events)
                  THEN Tail(tds) ELSE tds
     \/ \E k \in DOMAIN tds :
          /\ IsOldestMatch(k) /\ enqueueIndex # dequeueIndex
          /\ tds' = SubSeq(tds, k + 1, Len(tds)) /\ dequeueIndex' = NextDQ(Head(events))
  /\ UNCHANGED <<trbs, enqueueIndex, cycleState, layoutVars, hwIndex, hwCycle, armed, histVars>>

\* The event is a short packet, and other requests are scheduled: RetireTDs flushes the
\* TDs of the transaction, those up to m, and lets the endpoint run on ("it's not safe to
\* set TRDQPtr since the xHC may have advanced past the flushed transaction").
FlushTDs(k, m) ==
  [j \in 1 .. Len(tds) - k |->
     IF k + j <= m THEN [tds[k + j] EXCEPT !.flushed = TRUE] ELSE tds[k + j]]

ShortPacketRunning ==
  /\ dpc = "idle" /\ events # <<>> /\ events' = Tail(events)
  /\ \E k, m \in DOMAIN tds :
       /\ IsOldestMatch(k) /\ enqueueIndex # dequeueIndex
       /\ k <= m /\ \E j \in Scheduled : m < j
       /\ tds' = FlushTDs(k, m) /\ dequeueIndex' = NextDQ(Head(events))
  /\ UNCHANGED <<trbs, enqueueIndex, cycleState, layoutVars, hwIndex, hwCycle, armed, histVars>>

\* The event is for a TD, but the ring looks empty: a duplicate of an earlier event.
SpuriousEvent ==
  /\ dpc = "idle" /\ events # <<>> /\ events' = Tail(events)
  /\ \E k \in DOMAIN tds : IsOldestMatch(k) /\ tds' = SubSeq(tds, k + 1, Len(tds))
  /\ enqueueIndex = dequeueIndex
  /\ UNCHANGED <<trbs, enqueueIndex, dequeueIndex, cycleState, layoutVars, hwIndex, hwCycle,
                 armed, histVars>>

-----------------------------------------------------------------------------
(* SetTRDQPtr, with the endpoint stopped. It is a command, and the gate is *)
(* held while it runs, so nothing else happens to the ring meanwhile.      *)

\* The cycle bit the xHC gets with the index.
DequeueCycle_AlwaysTRB(i) == trbs[i].cycle
DequeueCycle(i) == IF i = enqueueIndex THEN cycleState ELSE trbs[i].cycle

SetTRDQPtr(i) ==
  /\ dequeueIndex' = i
  /\ hwIndex' = i /\ hwCycle' = DequeueCycle(i)

\* The event is a short packet, and RetireTDs has flushed the last scheduled TD: it stops
\* the endpoint and empties the ring. Events of flushed TDs may still be on their way.
ShortPacket ==
  /\ dpc = "idle" /\ events # <<>> /\ events' = Tail(events)
  /\ \E k \in DOMAIN tds : IsOldestMatch(k)
  /\ enqueueIndex # dequeueIndex
  /\ tds' = <<>> /\ SetTRDQPtr(enqueueIndex)
  /\ armed' = FALSE /\ ran' = closed
  /\ suspect' = (suspect \/ Tail(events) # <<>>)
  /\ UNCHANGED <<trbs, enqueueIndex, cycleState, layoutVars, closed, tdStart, torn, reinits>>

\* UpdateTimeouts and RetireTDs: the k TDs of the oldest transaction are returned and
\* skipped, and the endpoint restarted when others are scheduled. An event not yet
\* handled may be of one of them.
SkipTDs ==
  /\ dpc = "idle"
  /\ \E k \in Scheduled :
       /\ tds' = SubSeq(tds, k + 1, Len(tds)) /\ armed' = (\E j \in Scheduled : k < j)
       /\ SetTRDQPtr(NextDQ(tds[k].index)) /\ ran' = tds[k].id
  /\ suspect' = (suspect \/ events # <<>>)
  /\ UNCHANGED <<trbs, enqueueIndex, cycleState, layoutVars, events, closed, tdStart, torn, reinits>>

\* ReturnAllTransfersAndReinitRing: the TDs are returned, unless the ring looks empty.
\* The ring is wiped, and the xHC sent to its start ...
Wipe ==
  /\ dpc = "idle" /\ reinits < MaxReinits
  /\ reinits' = reinits + 1
  /\ tds' = IF dequeueIndex # enqueueIndex THEN <<>> ELSE tds
  /\ trbs' = EmptyRing /\ enqueueIndex' = 0 /\ dequeueIndex' = 0 /\ cycleState' = 1
  /\ written' = 0 /\ closed' = 0 /\ tdStart' = 0 /\ ran' = 0 /\ torn' = FALSE
  /\ UNCHANGED <<dpc, first, slot, left, events>>

Reinit ==
  /\ Wipe
  /\ hwIndex' = 0 /\ hwCycle' = 1 /\ armed' = FALSE
  /\ suspect' = (events # <<>> \/ tds' # <<>>)

\* ... unless the Set TR Dequeue command is not issued (the endpoint is in no state
\* for it) or fails: the ring is wiped but the xHC stays where it was.
ReinitFails ==
  /\ Wipe
  /\ suspect' = TRUE
  /\ UNCHANGED <<hwIndex, hwCycle, armed>>

-----------------------------------------------------------------------------
(* The xHC.                                                                *)

Valid(i) == trbs[i].cycle = hwCycle

\* A TRB is carried out; the last one of a TD asks for an event.
HwFetch ==
  /\ armed /\ Valid(hwIndex) /\ trbs[hwIndex].kind = "trb"
  /\ ran' = trbs[hwIndex].id
  /\ hwIndex' = hwIndex + 1
  /\ events' = IF trbs[hwIndex].last THEN Append(events, hwIndex) ELSE events
  /\ UNCHANGED <<ringVars, layoutVars, hwCycle, armed, closed, tdStart, torn, suspect, reinits>>

\* Both links, the one at the end and the one a moved fragment leaves, toggle the cycle.
HwLink ==
  /\ armed /\ Valid(hwIndex) /\ trbs[hwIndex].kind = "link"
  /\ hwIndex' = 0 /\ hwCycle' = 1 - hwCycle
  /\ UNCHANGED <<ringVars, layoutVars, armed, events, histVars>>

\* Nothing valid: idle until the next doorbell.
HwIdle ==
  /\ armed /\ ~Valid(hwIndex)
  /\ armed' = FALSE
  /\ UNCHANGED <<ringVars, layoutVars, hwIndex, hwCycle, events, histVars>>

-----------------------------------------------------------------------------
Layout == \/ TakeNext \/ TakeLast \/ MoveFragment \/ Relink \/ Fill \/ CloseFragment
          \/ GiveUp
Retire == \/ TransferEvent \/ SpuriousEvent \/ ShortPacketRunning \/ ShortPacket \/ SkipTDs
          \/ Reinit \/ ReinitFails
Xhc    == HwFetch \/ HwLink \/ HwIdle

Next == ScheduleTD \/ Layout \/ Retire \/ Xhc

Spec == Init /\ [][Next]_vars

-----------------------------------------------------------------------------
(* Properties. Those of the ring as the xHC sees it leave out a ring that   *)
(* was moved under it with events on their way (suspect).                   *)

\* Every index stays on the ring and dequeueIndex off its link TRB; a TRB is laid out in a
\* slot that GetNextTRB gave.
TypeOK ==
  /\ trbs \in [0 .. Link -> TRB]
  /\ enqueueIndex \in Slots /\ dequeueIndex \in Slots /\ cycleState \in 0 .. 1
  /\ tds \in Seq([index : Slots, id : 1 .. MaxTRBs, flushed : BOOLEAN])
  /\ dpc \in {"idle", "next", "relink", "fill", "close"}
  /\ first \in Slots \cup {None} /\ slot \in Slots
  /\ left \in 0 .. MaxTD /\ written \in 0 .. MaxTRBs
  /\ hwIndex \in 0 .. Link /\ hwCycle \in 0 .. 1 /\ armed \in BOOLEAN
  /\ events \in Seq(Slots)
  /\ closed \in 0 .. MaxTRBs /\ tdStart \in 0 .. MaxTRBs /\ ran \in 0 .. MaxTRBs
  /\ torn \in BOOLEAN /\ suspect \in BOOLEAN /\ reinits \in 0 .. MaxReinits

\* The xHC carries out the TRBs in the order they were laid out, each once, and never one
\* of a fragment that CloseFragment has not made valid as a whole: not while a fragment
\* is moved and its first TRB becomes a link, nor after one was put back.
HwInOrder ==
  [][HwFetch /\ ~suspect => trbs[hwIndex].id = ran + 1 /\ ran + 1 <= closed]_vars

\* Where the xHC finds nothing valid, it has carried out every closed fragment: no stale
\* cycle bit, of a link TRB or of a TRB put back, hides one from it.
NothingHidden == ~suspect /\ ~Valid(hwIndex) => ran = closed

\* CanTDFragmentFit allows for the slots lost when a fragment is moved to the start of
\* the ring: a TD it lets through never finds the ring full halfway.
FitSuffices == dpc = "next" => ~QueueFull

\* A transfer event is of the oldest TD on the ring, which the xHC has carried out, and the ring
\* does not look empty then. If that TD is scheduled no TD is dropped as orphaned, and none
\* loses its own event as a spurious one; if it was flushed, no scheduled TD has its index:
\* "Any events for flushed TDs are safely discarded in processTransferEvent2".
EventOfOldestTD ==
  [][events # <<>> /\ events' = Tail(events) /\ ~suspect =>
       /\ tds # <<>> /\ tds[1].index = Head(events) /\ tds[1].id <= ran
       /\ \A k \in Scheduled : tds[k].index = Head(events) => k = 1
       /\ enqueueIndex # dequeueIndex]_vars

\* A doorbell rings for all that is closed: when the xHC idles and the driver is done,
\* nothing is left on the ring, unless a TD was put back after one of its fragments closed.
NothingStranded == dpc = "idle" /\ ~armed /\ ~suspect /\ ~torn => ran = closed

\* A ring with no TD scheduled and no event outstanding has room for a TD: since only a transfer event
\* or a new request makes ScheduleTDs try again, the endpoint would stop for good.
RoomWhenIdle ==
  Scheduled = {} /\ events = <<>> /\ dpc = "idle" /\ ~suspect /\ ~torn => CanTDFragmentFit

=============================================================================

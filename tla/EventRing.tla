------------------------------ MODULE EventRing ------------------------------
(***************************************************************************)
(* The event ring of an interrupter and its bounce queue (Interrupts.cpp).  *)
(*                                                                         *)
(* Three actors of the driver share them:                                  *)
(*  - the filter: PrimaryInterruptFilter, in interrupt context. It takes    *)
(*    events off the ring, deals with some itself and puts the others on    *)
(*    the bounce queue;                                                    *)
(*  - the work loop: PollEventRing2, called by InterruptHandler until the   *)
(*    bounce queue is empty;                                               *)
(*  - a Stop Endpoint call: WaitForCMD, which looks through the bounce      *)
(*    queue for the event of the stop (PollForCMDCompletions) once its      *)
(*    command has completed or timed out.                                  *)
(* The last two hold the work-loop gate, and the handling of an event by    *)
(* the work loop may itself be what stops an endpoint.                      *)
(* The xHC (external) posts events and interrupts.                          *)
(*                                                                         *)
(* Events are numbered 1, 2, ... in the order the xHC posts them.           *)
(***************************************************************************)
EXTENDS Integers, FiniteSets

CONSTANTS NumXHCEntries,      \* entries of the event ring (252)
          NumBounceEntries,   \* entries of the bounce queue (5120)
          MaxEvents,          \* bound: events posted in a behaviour
          MaxStops,           \* bound: Stop Endpoint calls in a behaviour
          MaxRestarts         \* bound: controller restarts in a behaviour

ASSUME SizesAssumption  == /\ NumXHCEntries \in Nat /\ NumXHCEntries >= 2
                           /\ NumBounceEntries \in Nat /\ NumBounceEntries >= 2
ASSUME BoundsAssumption == MaxEvents \in Nat /\ MaxStops \in Nat /\ MaxRestarts \in Nat

VARIABLES
  \* EventRingStruct
  ring, xHCDequeueIndex, cycleState, erdpNeedsUpdate,
  bounceQueue, bounceDequeueIndex, bounceEnqueueIndex,
  \* the filter
  fpc,        \* where it is
  fEvent,     \* localTrb
  invokeContinuation,
  \* the work loop
  signalled,  \* signalInterrupt was called and InterruptHandler has not begun since
  wpc,        \* where it is in PollEventRing2
  wEvent,     \* localTrb
  \* the Stop Endpoint call
  spc,        \* where it is
  index,      \* PollForCMDCompletions's index
  stops,      \* calls so far
  issuedAt,   \* value of posted when the call began: its completion has a higher number
  answered,   \* the call's command has completed
  \* the xHC
  hwIndex, hwCycle,   \* its enqueue pointer and producer cycle state
  erdp, ehb,          \* the ERDP register: dequeue pointer and Event Handler Busy
  irq,                \* an interrupt is on its way to the filter
  owed,               \* what it has yet to post for the call: "stop", "cmd", "none"
  \* history
  posted,     \* number of the last event posted
  stopEvent,  \* number of the stop event of the call, 0 if not posted
  settled,    \* events dealt with
  lost,       \* events dropped by a full bounce queue or wiped from the ring by a restart
  lastPolled, \* number of the last event the work loop handled
  restarts,
  ignored     \* InterruptHandler was called while the controller was unavailable

ringVars   == <<ring, xHCDequeueIndex, cycleState, erdpNeedsUpdate>>
bounceVars == <<bounceQueue, bounceDequeueIndex, bounceEnqueueIndex>>
filterVars == <<fpc, fEvent, invokeContinuation>>
loopVars   == <<signalled, wpc, wEvent>>
callVars   == <<spc, index, stops, issuedAt, answered>>
hwVars     == <<hwIndex, hwCycle, erdp, ehb, irq, owed>>
histVars   == <<posted, stopEvent, settled, lost, lastPolled, restarts, ignored>>
vars == <<ringVars, bounceVars, filterVars, loopVars, callVars, hwVars, histVars>>

-----------------------------------------------------------------------------
\* What the driver tells apart: completions of a command it knows ("cmd") or not ("bad"),
\* transfer events with a stop code ("stop") or another ("xfer"), port status changes.
Kinds == {"cmd", "bad", "stop", "xfer", "port"}
Event == [id: 1 .. MaxEvents, kind: Kinds]
Cleared == [id |-> 0, kind |-> "none"]      \* ClearTRB: of no type the driver handles

EmptyRing == [i \in 0 .. NumXHCEntries - 1 |-> [event |-> Cleared, cycle |-> 0]]

\* The entry of the bounce queue after i.
NextBounce(i) == IF i + 1 >= NumBounceEntries THEN 0 ELSE i + 1
NextXHC(i) == IF i + 1 >= NumXHCEntries THEN 0 ELSE i + 1

BounceEmpty == bounceDequeueIndex = bounceEnqueueIndex
BounceFull == NextBounce(bounceEnqueueIndex) = bounceDequeueIndex

Init ==
  /\ ring = EmptyRing /\ xHCDequeueIndex = 0 /\ cycleState = 1 /\ erdpNeedsUpdate = FALSE
  /\ bounceQueue = [i \in 0 .. NumBounceEntries - 1 |-> Cleared]
  /\ bounceDequeueIndex = 0 /\ bounceEnqueueIndex = 0
  /\ fpc = "idle" /\ fEvent = Cleared /\ invokeContinuation = FALSE
  /\ signalled = FALSE /\ wpc = "idle" /\ wEvent = Cleared
  /\ spc = "idle" /\ index = 0 /\ stops = 0 /\ issuedAt = 0 /\ answered = FALSE
  /\ hwIndex = 0 /\ hwCycle = 1 /\ erdp = 0 /\ ehb = FALSE /\ irq = FALSE /\ owed = "none"
  /\ posted = 0 /\ stopEvent = 0 /\ settled = {} /\ lost = {} /\ lastPolled = 0
  /\ restarts = 0 /\ ignored = FALSE

-----------------------------------------------------------------------------
(* The filter. Other interrupts of the interrupter wait for it to end.     *)

FilterStart ==
  /\ fpc = "idle" /\ irq /\ irq' = FALSE
  /\ fpc' = "loop" /\ invokeContinuation' = FALSE
  /\ UNCHANGED <<ringVars, bounceVars, fEvent, loopVars, callVars,
                 hwIndex, hwCycle, erdp, ehb, owed, histVars>>

Valid == ring[xHCDequeueIndex].cycle = cycleState

\* FilterEventRing copies the TRB, moves on, and deals with what it can: a command
\* completion wakes the thread that waits for it, a port status change is noted for
\* PollInterrupts. The rest is for the bounce queue.
FilterTake ==
  /\ fpc = "loop" /\ Valid
  /\ xHCDequeueIndex' = NextXHC(xHCDequeueIndex)
  /\ cycleState' = IF xHCDequeueIndex' = 0 THEN 1 - cycleState ELSE cycleState
  /\ erdpNeedsUpdate' = TRUE
  /\ LET e == ring[xHCDequeueIndex].event IN
     \/ /\ e.kind = "cmd" /\ answered' = (answered \/ e.id > issuedAt)
        /\ settled' = settled \cup {e.id}
        /\ UNCHANGED <<fpc, fEvent, invokeContinuation>>
     \/ /\ e.kind = "port" /\ invokeContinuation' = TRUE /\ settled' = settled \cup {e.id}
        /\ UNCHANGED <<fpc, fEvent, answered>>
     \/ /\ e.kind \notin {"cmd", "port"}
        /\ fEvent' = e /\ fpc' = "bounce"
        /\ UNCHANGED <<answered, invokeContinuation, settled>>
  /\ UNCHANGED <<ring, bounceVars, loopVars, spc, index, stops, issuedAt, hwVars,
                 posted, stopEvent, lost, lastPolled, restarts, ignored>>

\* With the queue full the event is dropped and the loop ends.
FilterDrop ==
  /\ fpc = "bounce" /\ BounceFull
  /\ lost' = lost \cup {fEvent.id} /\ fEvent' = Cleared /\ fpc' = "post"
  /\ UNCHANGED <<ringVars, bounceVars, invokeContinuation, loopVars, callVars, hwVars,
                 posted, stopEvent, settled, lastPolled, restarts, ignored>>

\* The entry is stored first, and becomes the consumers' with bounceEnqueueIndex.
FilterStore ==
  /\ fpc = "bounce" /\ ~BounceFull
  /\ bounceQueue' = [bounceQueue EXCEPT ![bounceEnqueueIndex] = fEvent]
  /\ fEvent' = Cleared /\ fpc' = "publish"
  /\ UNCHANGED <<ringVars, bounceDequeueIndex, bounceEnqueueIndex, invokeContinuation, loopVars,
                 callVars, hwVars, histVars>>

Continue_Never == invokeContinuation
Continue == TRUE

FilterPublish ==
  /\ fpc = "publish"
  /\ bounceEnqueueIndex' = NextBounce(bounceEnqueueIndex)
  /\ invokeContinuation' = Continue /\ fpc' = "loop"
  /\ UNCHANGED <<ringVars, bounceQueue, bounceDequeueIndex, fEvent, loopVars, callVars,
                 hwVars, histVars>>

FilterLoopEnds ==
  /\ fpc = "loop" /\ ~Valid
  /\ fpc' = "post"
  /\ UNCHANGED <<ringVars, bounceVars, fEvent, invokeContinuation, loopVars, callVars, hwVars,
                 histVars>>

\* postFilterEventRing: ERDP is written when the filter took an event, and "if EHB is
\* on" even when not; the write clears EHB. Then InterruptHandler is signalled.
EHBWritten_Kept == ehb
EHBWritten == FALSE

FilterEnd ==
  /\ fpc = "post"
  /\ IF erdpNeedsUpdate \/ ehb
     THEN erdp' = xHCDequeueIndex /\ ehb' = EHBWritten /\ erdpNeedsUpdate' = FALSE
     ELSE UNCHANGED <<erdp, ehb, erdpNeedsUpdate>>
  /\ signalled' = (signalled \/ invokeContinuation)
  /\ fpc' = "idle" /\ invokeContinuation' = FALSE
  /\ UNCHANGED <<ring, xHCDequeueIndex, cycleState, bounceVars, fEvent, wpc, wEvent, callVars,
                 hwIndex, hwCycle, irq, owed, histVars>>

-----------------------------------------------------------------------------
(* The work loop. Its steps have the gate; the call it makes from          *)
(* "handled" has it too.                                                   *)

InterruptHandler ==
  /\ signalled /\ wpc = "idle" /\ spc = "idle"
  /\ signalled' = FALSE /\ wpc' = "poll"
  /\ UNCHANGED <<ringVars, bounceVars, filterVars, wEvent, callVars, hwVars, histVars>>

\* The entry is copied and cleared ...
PollTake ==
  /\ wpc = "poll" /\ ~BounceEmpty
  /\ wEvent' = bounceQueue[bounceDequeueIndex]
  /\ bounceQueue' = [bounceQueue EXCEPT ![bounceDequeueIndex] = Cleared]
  /\ wpc' = "advance"
  /\ UNCHANGED <<ringVars, bounceDequeueIndex, bounceEnqueueIndex, filterVars, signalled,
                 callVars, hwVars, histVars>>

\* ... given back to the filter, and the event handled, unless PollForCMDCompletions
\* has cleared it.
PollAdvance ==
  /\ wpc = "advance"
  /\ bounceDequeueIndex' = NextBounce(bounceDequeueIndex)
  /\ wpc' = "handled" /\ wEvent' = Cleared
  /\ IF wEvent.id = 0 THEN UNCHANGED <<settled, lastPolled>>
     ELSE settled' = settled \cup {wEvent.id} /\ lastPolled' = wEvent.id
  /\ UNCHANGED <<ringVars, bounceQueue, bounceEnqueueIndex, filterVars, signalled, callVars,
                 hwVars, posted, stopEvent, lost, restarts, ignored>>

PollAgain ==
  /\ wpc = "handled" /\ spc = "idle"
  /\ wpc' = "poll"
  /\ UNCHANGED <<ringVars, bounceVars, filterVars, signalled, wEvent, callVars, hwVars, histVars>>

PollDone ==
  /\ wpc = "poll" /\ BounceEmpty
  /\ wpc' = "idle"
  /\ UNCHANGED <<ringVars, bounceVars, filterVars, signalled, wEvent, callVars, hwVars, histVars>>

-----------------------------------------------------------------------------
(* A Stop Endpoint command: StopEndpoint, WaitForCMD.                      *)

OnGate_Ignored == TRUE
OnGate == wpc \in {"idle", "handled"}

StopEndpoint ==
  /\ spc = "idle" /\ OnGate /\ stops < MaxStops /\ owed = "none"
  /\ stops' = stops + 1
  /\ spc' = "wait" /\ issuedAt' = posted /\ answered' = FALSE /\ stopEvent' = 0
  /\ owed' \in {"stop", "cmd"}        \* an endpoint that is not running posts no stop event
  /\ UNCHANGED <<ringVars, bounceVars, filterVars, loopVars, index, hwIndex, hwCycle, erdp, ehb,
                 irq, posted, settled, lost, lastPolled, restarts, ignored>>

\* WaitForChangeEvent returns, the command completed or 100 ms passed.
WaitEnds ==
  /\ spc = "wait"
  /\ spc' = IF answered THEN "scan" ELSE "scanLate"
  /\ index' = bounceDequeueIndex
  /\ UNCHANGED <<ringVars, bounceVars, filterVars, loopVars, stops, issuedAt, answered, hwVars, histVars>>

Scanning == spc \in {"scan", "scanLate"}

Scooped_Kept(e) == e
Scooped(e) == Cleared

\* PollForCMDCompletions: the stop events and command completions on the bounce
\* queue are cleared where they are, and acted on.
ScanEntry ==
  /\ Scanning /\ index # bounceEnqueueIndex
  /\ IF bounceQueue[index].kind \in {"stop", "bad"}
     THEN /\ settled' = settled \cup {bounceQueue[index].id}
          /\ bounceQueue' = [bounceQueue EXCEPT ![index] = Scooped(@)]
     ELSE UNCHANGED <<settled, bounceQueue>>
  /\ index' = NextBounce(index)
  /\ UNCHANGED <<ringVars, bounceDequeueIndex, bounceEnqueueIndex, filterVars, loopVars,
                 spc, stops, issuedAt, answered, hwVars, posted, stopEvent, lost, lastPolled, restarts, ignored>>

ScanEnds ==
  /\ Scanning /\ index = bounceEnqueueIndex
  /\ spc' = "idle" /\ index' = 0
  /\ UNCHANGED <<ringVars, bounceVars, filterVars, loopVars, stops, issuedAt, answered, hwVars, histVars>>

-----------------------------------------------------------------------------
(* InitEventRing on a restart: the filter is drained, the gate held. The   *)
(* bounce queue stays as it is.                                            *)

\* How many entries i is after start on a ring of so many entries.
Ahead(i, start, entries) == IF i >= start THEN i - start ELSE i - start + entries

OnRing == {ring[i].event.id : i \in {j \in 0 .. NumXHCEntries - 1 :
             Ahead(j, xHCDequeueIndex, NumXHCEntries) < Ahead(hwIndex, xHCDequeueIndex, NumXHCEntries)}}

InitEventRing ==
  /\ fpc = "idle" /\ wpc = "idle" /\ spc = "idle" /\ restarts < MaxRestarts
  /\ restarts' = restarts + 1
  /\ ring' = EmptyRing /\ xHCDequeueIndex' = 0 /\ cycleState' = 1 /\ erdpNeedsUpdate' = FALSE
  /\ hwIndex' = 0 /\ hwCycle' = 1 /\ erdp' = 0 /\ ehb' = FALSE /\ irq' = FALSE /\ owed' = "none"
  /\ lost' = lost \cup OnRing
  \* InterruptHandler does nothing if it was called before the restart was over.
  /\ signalled' \in {signalled, FALSE}
  /\ ignored' = (ignored \/ signalled' # signalled)
  /\ UNCHANGED <<bounceVars, filterVars, wpc, wEvent, callVars, posted, stopEvent, settled, lastPolled>>

-----------------------------------------------------------------------------
(* The xHC.                                                                *)

\* An event is posted when there is an entry free, by the dequeue pointer it was told.
HwPost(kind) ==
  /\ posted < MaxEvents /\ NextXHC(hwIndex) # erdp
  /\ posted' = posted + 1
  /\ ring' = [ring EXCEPT ![hwIndex] = [event |-> [id |-> posted + 1, kind |-> kind],
                                        cycle |-> hwCycle]]
  /\ hwIndex' = NextXHC(hwIndex)
  /\ hwCycle' = IF hwIndex' = 0 THEN 1 - hwCycle ELSE hwCycle
  /\ UNCHANGED <<xHCDequeueIndex, cycleState, erdpNeedsUpdate, bounceVars, filterVars, loopVars,
                 callVars, erdp, ehb, irq, settled, lost, lastPolled, restarts, ignored>>

HwEvent == \E kind \in {"bad", "xfer", "port"} : HwPost(kind) /\ UNCHANGED <<owed, stopEvent>>

\* The event of a stop comes before the completion of the command.
HwStop     == owed = "stop" /\ HwPost("stop") /\ owed' = "cmd" /\ stopEvent' = posted + 1
HwComplete == owed = "cmd" /\ HwPost("cmd") /\ owed' = "none" /\ UNCHANGED stopEvent

\* It interrupts when the ring is not empty, and not again before EHB is cleared.
HwInterrupt ==
  /\ ~ehb /\ hwIndex # erdp
  /\ ehb' = TRUE /\ irq' = TRUE
  /\ UNCHANGED <<ringVars, bounceVars, filterVars, loopVars, callVars, hwIndex, hwCycle, erdp,
                 owed, histVars>>

-----------------------------------------------------------------------------
Filter == FilterStart \/ FilterTake \/ FilterDrop \/ FilterStore \/ FilterPublish
          \/ FilterLoopEnds \/ FilterEnd
Loop   == InterruptHandler \/ PollTake \/ PollAdvance \/ PollAgain \/ PollDone
Call   == WaitEnds \/ ScanEntry \/ ScanEnds
Xhc    == HwEvent \/ HwStop \/ HwComplete \/ HwInterrupt

Next == Filter \/ Loop \/ StopEndpoint \/ Call \/ InitEventRing \/ Xhc

Spec == Init /\ [][Next]_vars

\* Interrupts are delivered, the threads run and time out, and the xHC interrupts
\* for what it has posted.
FairSpec == /\ Spec
            /\ WF_vars(Filter) /\ WF_vars(Loop) /\ WF_vars(Call) /\ WF_vars(HwInterrupt)

-----------------------------------------------------------------------------
\* The work loop handles the events left to it in the order the xHC posted them, and none
\* that a scan of the queue has dealt with.
PolledInOrder == [][lastPolled' # lastPolled => lastPolled' > lastPolled /\ lastPolled' \notin settled]_vars

\* "Scoop up stop TRBs": when the Stop Endpoint command has completed, the scan finds the
\* stop event, which came before it, and the work loop has not taken it first, unless the
\* event was lost to a full queue.
StopScooped ==
  [][spc = "scan" /\ spc' = "idle" /\ stopEvent # 0 =>
       stopEvent \in lost \/ (stopEvent \in settled /\ lastPolled < stopEvent)]_vars

\* Events never wait on the bounce queue for a work loop that was not told: when filter and
\* work loop are at rest there is a signal for what is left.
NoLostContinuation ==
  fpc = "idle" /\ wpc = "idle" /\ ~signalled /\ ~ignored => BounceEmpty

\* Every event posted is dealt with in the end, unless it is counted as lost: the
\* xHC never stops interrupting and no event is stuck on either queue.
EventsSettle ==
  \A e \in 1 .. MaxEvents : posted >= e ~> e \in settled \cup lost \/ ignored

=============================================================================

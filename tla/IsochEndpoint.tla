----------------------------- MODULE IsochEndpoint -----------------------------
(***************************************************************************)
(* An isochronous endpoint (Isoch.cpp), its TDs on their way from the       *)
(* request to its completion:                                              *)
(*   toDoList -> tdSlots -> the filter's chain -> doneQueue -> returned     *)
(* with deferredQueue for those that were too late to be scheduled.         *)
(*                                                                         *)
(* Two sides of the driver share it. The filter, in interrupt context, takes *)
(* TDs out of tdSlots one at a time and chains them. The operations of the  *)
(* other side hold the work-loop gate: new requests, the retiring of the    *)
(* chain and the underrun event in PollEventRing2, an abort; each ends in    *)
(* AddIsocFramesToSchedule, whose steps interleave with the filter's. The    *)
(* scheduling lock is therefore never contended. The xHC (external) carries  *)
(* out TDs and posts events.                                               *)
(*                                                                         *)
(* TDs are numbered in the order of their frames. A continuous stream has   *)
(* neither gaps nor late TDs: its behaviours are among these.              *)
(***************************************************************************)
EXTENDS Integers, FiniteSets, SequencesExt

CONSTANTS NumSlots,      \* kNumTDSlots (128)
          MaxTDs,        \* bound: TDs in a behaviour
          MaxPerRequest, \* bound: TDs of a request
          MaxAborts,     \* bound: aborts in a behaviour
          MaxOdd         \* bound: what seldom happens: services missed, second events, gaps,
                         \* allocations that fail, TDs that are late or not laid out

ASSUME NumSlotsAssumption == NumSlots \in Nat /\ NumSlots >= 3
ASSUME BoundsAssumption   == /\ {MaxTDs, MaxPerRequest, MaxAborts, MaxOdd} \subseteq Nat
                             /\ MaxPerRequest >= 1

VARIABLES
  \* GenericUSBXHCIIsochEP
  toDoList, doneQueue, deferredQueue,
  tdSlots, inSlot, outSlot,
  scheduledTDs, scheduledFrameNumber, tdsScheduled, schedulingDelayed,
  savedDoneQueueHead,             \* the chain from the head on, newest first
  producerCount, consumerCount,
  \* the TDs
  frame, interruptThisTD, status,
  \* the filter
  fpc, fEvent, copyEvent, testSlot, stopSlot, pCachedHead, cachedProducer,
  \* the side that has the gate
  gpc, currFrame, pIsochTd,
  stopping,       \* QuiesceEndpoint: the endpoint is stopped, to be aborted
  returnThread,   \* thread_call_enter1(_returnIsochDoneQueueThread)
  bounce,         \* events copied to the bounce queue
  \* the xHC
  hwRunning, hwRing, events,
  \* history
  ran, returned, upset, aborts, odd

listVars  == <<toDoList, doneQueue, deferredQueue>>
slotVars  == <<tdSlots, inSlot, outSlot, scheduledTDs>>
schedVars == <<scheduledFrameNumber, tdsScheduled, schedulingDelayed>>
chainVars == <<savedDoneQueueHead, producerCount, consumerCount>>
tdVars    == <<frame, interruptThisTD, status>>
filterVars == <<fpc, fEvent, copyEvent, testSlot, stopSlot, pCachedHead, cachedProducer>>
gateVars  == <<gpc, currFrame, pIsochTd, stopping, returnThread>>
hwVars    == <<hwRunning, hwRing>>
histVars  == <<ran, returned, upset, aborts, odd>>
vars == <<listVars, slotVars, schedVars, chainVars, tdVars, filterVars, gateVars, bounce,
          hwVars, events, histVars>>

-----------------------------------------------------------------------------
TDs   == 1 .. MaxTDs
Free  == 0                   \* of tdSlots: no TD
Unset == NumSlots + 1        \* the 129 of inSlot and outSlot
\* "done" is a success, short packet or transaction error; last is false when it is for
\* a transfer of the TD before its last. "off" is a missed service, a stop.
Event(k, td, last) == [kind |-> k, td |-> td, last |-> last]
NoEvent == Event("none", 0, FALSE)

\* No operation holds the gate. An abort keeps it while it waits for commands (WaitForCMD).
GateFree == gpc = "idle" /\ ~stopping

NextSlot(s) == (s + 1) % NumSlots
Used(s) == s <= NumSlots - 1

Init ==
  /\ toDoList = <<>> /\ doneQueue = <<>> /\ deferredQueue = <<>>
  /\ tdSlots = [s \in 0 .. NumSlots - 1 |-> Free] /\ inSlot = Unset /\ outSlot = Unset
  /\ scheduledTDs = 0 /\ scheduledFrameNumber = 0
  /\ tdsScheduled = FALSE /\ schedulingDelayed = FALSE
  /\ savedDoneQueueHead = <<>> /\ producerCount = 0 /\ consumerCount = 0
  /\ frame = <<>> /\ interruptThisTD = <<>> /\ status = <<>>
  /\ fpc = "idle" /\ fEvent = NoEvent /\ copyEvent = TRUE /\ testSlot = 0 /\ stopSlot = 0
  /\ pCachedHead = <<>> /\ cachedProducer = 0
  /\ gpc = "idle" /\ currFrame = 0 /\ pIsochTd = Free /\ stopping = FALSE /\ returnThread = FALSE /\ bounce = <<>>
  /\ hwRunning = FALSE /\ hwRing = <<>> /\ events = <<>>
  /\ ran = {} /\ returned = <<>> /\ upset = {} /\ aborts = 0 /\ odd = 0

Odd == odd < MaxOdd /\ odd' = odd + 1
Upset(what) == upset' = upset \cup {what}

-----------------------------------------------------------------------------
(* Queues. PutTDonDoneQueue and ReturnIsochDoneQueue are the USB family's.    *)

\* The deferred TDs of earlier frames, from the head on, go first.
PutTDonDoneQueue(q, td) ==
  LET n == CHOOSE n \in 0 .. Len(q.def) :
             /\ \A j \in 1 .. n : frame[q.def[j]] < frame[td]
             /\ n < Len(q.def) => frame[q.def[n + 1]] >= frame[td]
  IN  [done |-> Append(q.done \o SubSeq(q.def, 1, n), td), def |-> SubSeq(q.def, n + 1, Len(q.def))]

\* All of tds, one after the other.
PutAll(q, tds) ==
  LET put[n \in 0 .. Len(tds)] == IF n = 0 THEN q ELSE PutTDonDoneQueue(put[n - 1], tds[n])
  IN  put[Len(tds)]

Queues == [done |-> doneQueue, def |-> deferredQueue]

\* The deferred go with the last of the scheduled TDs.
ReturnIsochDoneQueue(q, consumed) ==
  LET left == IF scheduledTDs = 0 /\ consumed = producerCount /\ fpc = "idle" THEN q.def ELSE <<>>
  IN  /\ returned' = returned \o q.done \o left
      /\ doneQueue' = <<>>
      /\ deferredQueue' = IF left = <<>> THEN q.def ELSE <<>>

\* UpdateFrameList writes the status of the frames that have none: without an event they were
\* not sent, and an event that is for no frame of the TD lets them have succeeded.
UpdateFrameList(td, own) == [status EXCEPT ![td] = IF own THEN "ok" ELSE "assumed"]
NotSent(tds) == [td \in DOMAIN status |-> IF td \in tds /\ status[td] = "none" THEN "notSent" ELSE status[td]]

-----------------------------------------------------------------------------
(* UIMCreateIsochTransfer: a request of n TDs, of which the last interrupts  *)
(* and completes it. Its first frame may be later than the next available.  *)

FirstFrame == IF frame = <<>> THEN 1 ELSE frame[Len(frame)] + 1

\* Without memory for the next TD the request is refused, after n TDs that stay.
UIMCreateIsochTransfer ==
  /\ GateFree
  /\ \E n \in 1 .. MaxPerRequest, gap \in BOOLEAN, refused \in BOOLEAN :
       /\ Len(frame) + n <= MaxTDs
       /\ frame' = frame \o [j \in 1 .. n |-> FirstFrame + (IF gap THEN 1 ELSE 0) + j - 1]
       /\ interruptThisTD' = interruptThisTD \o [j \in 1 .. n |-> j = n /\ ~refused]
       /\ status' = status \o [j \in 1 .. n |-> "none"]
       /\ toDoList' = toDoList \o [j \in 1 .. n |-> Len(frame) + j]
       /\ gpc' = IF refused THEN "idle" ELSE "add"
       /\ IF refused THEN Upset("orphan") ELSE UNCHANGED upset
       /\ IF gap \/ refused THEN Odd ELSE UNCHANGED odd
  /\ UNCHANGED <<doneQueue, deferredQueue, slotVars, schedVars, chainVars, filterVars, currFrame, pIsochTd,
                 stopping, returnThread, bounce, hwVars, events, ran, returned, aborts>>

-----------------------------------------------------------------------------
(* AddIsocFramesToSchedule.                                                *)

AddNothing ==
  /\ gpc = "add" /\ (toDoList = <<>> \/ schedulingDelayed)
  /\ gpc' = "idle"
  /\ UNCHANGED <<listVars, slotVars, schedVars, chainVars, tdVars, filterVars, currFrame, pIsochTd, stopping,
                 returnThread, bounce, hwVars, events, histVars>>

\* TDs the filter has taken out of the slots are not yet on the done queue.
Behind == producerCount # consumerCount \/ fpc = "scan"

Waiting_Never == FALSE
Waiting == scheduledTDs > 0

\* A TD whose frame is too near is not sent. While earlier ones are scheduled it is
\* deferred. When it was the last, a thread is asked to return the done queue.
\* The register access can be lost (GetFrameNumber returns 0).
AddLate ==
  /\ gpc = "add" /\ toDoList # <<>> /\ ~schedulingDelayed /\ Odd
  /\ LET td == Head(toDoList)
         q  == PutTDonDoneQueue(Queues, td)
     IN  /\ status' = NotSent({td})
         /\ toDoList' = Tail(toDoList)
         /\ IF Waiting
            THEN deferredQueue' = Append(deferredQueue, td) /\ UNCHANGED doneQueue
            ELSE doneQueue' = q.done /\ deferredQueue' = q.def
         /\ \E lostRegisterAccess \in BOOLEAN :
              /\ upset' = upset \cup (IF scheduledTDs = 0 /\ Behind THEN {"overtaken"} ELSE {})
                                \cup (IF lostRegisterAccess THEN {"halted"} ELSE {})
              /\ IF toDoList' = <<>> THEN gpc' = "idle" /\ returnThread' = TRUE
                 ELSE gpc' = (IF lostRegisterAccess THEN "start" ELSE "add") /\ UNCHANGED returnThread
  /\ UNCHANGED <<slotVars, schedVars, chainVars, frame, interruptThisTD, filterVars, currFrame, pIsochTd,
                 stopping, bounce, hwVars, events, ran, returned, aborts>>

AddBegin ==
  /\ gpc = "add" /\ toDoList # <<>> /\ ~schedulingDelayed
  /\ LET s == IF Used(inSlot) THEN inSlot ELSE 0
     IN  inSlot' = s /\ gpc' = IF s = outSlot THEN "start" ELSE "slots"
  /\ currFrame' = frame[Head(toDoList)]
  /\ UNCHANGED <<listVars, tdSlots, outSlot, scheduledTDs, schedVars, chainVars, tdVars, filterVars,
                 pIsochTd, stopping, returnThread, bounce, hwVars, events, histVars>>

Gap == scheduledFrameNumber # 0 /\ tdsScheduled /\ scheduledFrameNumber + 1 < currFrame

SlotsFull == NextSlot(inSlot) = outSlot \/ tdSlots[inSlot] # Free

\* A frame is left out: the TDs wait for the ring to run dry.
AddDelayed ==
  /\ gpc = "slots" /\ Gap
  /\ schedulingDelayed' = TRUE /\ gpc' = "start"
  /\ UNCHANGED <<listVars, slotVars, scheduledFrameNumber, tdsScheduled, chainVars, tdVars, filterVars,
                 currFrame, pIsochTd, stopping, returnThread, bounce, hwVars, events, histVars>>

\* No slot is free, or the ring has no room. It is 100 frames long, so that some TD on it
\* interrupts; or the last has done so, and dequeueIndex waits for its event to be polled.
NoSlot == inSlot = outSlot \/ SlotsFull
Interrupts == \E k \in DOMAIN hwRing : interruptThisTD[hwRing[k]]

AddNoRoom ==
  /\ gpc = "slots" /\ ~Gap
  /\ \/ (NoSlot \/ Interrupts) /\ UNCHANGED upset
     \/ ~NoSlot /\ ~Interrupts /\ bounce # <<>> /\ Upset("roomUnseen")
  /\ gpc' = "start"
  /\ UNCHANGED <<listVars, slotVars, schedVars, chainVars, tdVars, filterVars, currFrame, pIsochTd,
                 stopping, returnThread, bounce, hwVars, events, ran, returned, aborts, odd>>

\* AddIsocFramesToSchedule_stage2: the TD is in its slot ...
AddToSlot ==
  /\ gpc = "slots" /\ ~Gap /\ inSlot # outSlot /\ ~SlotsFull
  /\ LET td == Head(toDoList)
     IN  /\ tdSlots' = [tdSlots EXCEPT ![inSlot] = td]
         /\ scheduledFrameNumber' = frame[td] /\ pIsochTd' = td
  /\ toDoList' = Tail(toDoList)
  /\ outSlot' = IF Used(outSlot) THEN outSlot ELSE 0
  /\ inSlot' = NextSlot(inSlot)
  /\ scheduledTDs' = scheduledTDs + 1
  /\ currFrame' = currFrame + 1
  /\ gpc' = "lay"
  /\ UNCHANGED <<doneQueue, deferredQueue, tdsScheduled, schedulingDelayed, chainVars, tdVars,
                 filterVars, stopping, returnThread, bounce, hwVars, events, histVars>>

\* ... before it is on the ring. That _createTransfer failed is only counted.
AddToRing ==
  /\ gpc = "lay"
  /\ \/ /\ hwRing' = Append(hwRing, pIsochTd)
        /\ UNCHANGED <<upset, odd>>
     \/ UNCHANGED hwRing /\ Odd /\ Upset("notLaid")
  /\ gpc' = IF toDoList = <<>> THEN "start" ELSE "slots"
  /\ pIsochTd' = Free
  /\ UNCHANGED <<listVars, slotVars, schedVars, chainVars, tdVars, filterVars, currFrame, stopping,
                 returnThread, bounce, hwRunning, events, ran, returned, aborts>>

\* The doorbell, then the filter's permission to look at the slots.
AddStart ==
  /\ gpc = "start"
  /\ hwRunning' = TRUE /\ gpc' = "mark" /\ currFrame' = 0
  /\ UNCHANGED <<listVars, slotVars, schedVars, chainVars, tdVars, filterVars, pIsochTd, stopping,
                 returnThread, bounce, hwRing, events, histVars>>

AddMark ==
  /\ gpc = "mark"
  /\ tdsScheduled' = TRUE /\ gpc' = "idle"
  /\ UNCHANGED <<listVars, slotVars, scheduledFrameNumber, schedulingDelayed, chainVars, tdVars,
                 filterVars, currFrame, pIsochTd, stopping, returnThread, bounce, hwVars, events, histVars>>

-----------------------------------------------------------------------------
(* PollEventRing2. It retires what the filter has chained, then takes an    *)
(* event from the bounce queue.                                            *)

Reversed(tds) == Reverse(tds)
Chained == Reversed(SubSeq(savedDoneQueueHead, 1, producerCount - consumerCount))

\* RetireIsocTransactions, with ReturnIsochDoneQueue.
RetireIsocTransactions ==
  /\ GateFree /\ producerCount # consumerCount
  /\ ReturnIsochDoneQueue(PutAll(Queues, Chained), producerCount)
  /\ consumerCount' = producerCount
  /\ gpc' = "add"
  /\ UNCHANGED <<toDoList, slotVars, schedVars, savedDoneQueueHead, producerCount, tdVars, filterVars,
                 currFrame, pIsochTd, stopping, returnThread, bounce, hwVars, events, ran, upset, aborts, odd>>

activeTDs == Len(frame) - Len(returned)

\* An underrun event: an endpoint with no TDs starts again at slot 0, and one whose TDs
\* were delayed schedules them now.
Rescheduled_Kept == schedulingDelayed
Rescheduled == FALSE

PollBounced ==
  /\ GateFree /\ producerCount = consumerCount /\ bounce # <<>>
  /\ bounce' = Tail(bounce)
  /\ IF Head(bounce) = "underrun"
     THEN /\ IF activeTDs = 0 THEN inSlot' = Unset /\ outSlot' = Unset ELSE UNCHANGED <<inSlot, outSlot>>
          /\ schedulingDelayed' = Rescheduled
          /\ gpc' = IF schedulingDelayed THEN "add" ELSE "idle"
          /\ upset' = IF activeTDs = 0 /\ fpc = "scan" THEN upset \cup {"restarted"} ELSE upset
     ELSE UNCHANGED <<inSlot, outSlot, schedulingDelayed, gpc, upset>>
  /\ UNCHANGED <<listVars, tdSlots, scheduledTDs, scheduledFrameNumber, tdsScheduled, chainVars, tdVars,
                 filterVars, currFrame, pIsochTd, stopping, returnThread, hwVars, events, ran, returned, aborts, odd>>

ReturnThread ==
  /\ returnThread /\ GateFree
  /\ returnThread' = FALSE
  /\ ReturnIsochDoneQueue(Queues, consumerCount)
  /\ UNCHANGED <<toDoList, slotVars, schedVars, chainVars, tdVars, filterVars, gpc, currFrame, pIsochTd,
                 stopping, bounce, hwVars, events, ran, upset, aborts, odd>>

-----------------------------------------------------------------------------
(* An abort: QuiesceEndpoint stops the endpoint, and                        *)
(* ReturnAllTransfersAndReinitRing returns all TDs.                        *)

Abort ==
  /\ GateFree /\ aborts < MaxAborts
  /\ aborts' = aborts + 1 /\ stopping' = TRUE
  /\ hwRunning' = FALSE
  /\ events' = IF hwRunning THEN Append(events, Event("off", 0, FALSE)) ELSE events
  /\ UNCHANGED <<listVars, slotVars, schedVars, chainVars, tdVars, filterVars, gpc, currFrame, pIsochTd,
                 returnThread, bounce, hwRing, ran, returned, upset, odd>>

\* The TDs from outSlot to inSlot, which is not included.
Window ==
  LET n == IF Used(inSlot) /\ Used(outSlot) THEN (inSlot - outSlot) % NumSlots ELSE 0
      tds[k \in 0 .. n] ==
        IF k = 0 THEN <<>>
        ELSE LET td == tdSlots[(outSlot + k - 1) % NumSlots]
             IN  IF td = Free THEN tds[k - 1] ELSE Append(tds[k - 1], td)
  IN  tds[n]

\* AbortIsochEP, once the filter has seen the endpoint stop, or 120 ms later: the TDs
\* chained, those in slots, those to do.
AbortIsochEP ==
  /\ stopping /\ events = <<>> /\ fpc = "idle"
  /\ LET unsent == Window \o toDoList
         q == PutAll(Queues, Chained \o unsent)
     IN  /\ status' = NotSent(ToSet(unsent))
         /\ returned' = returned \o q.done \o q.def /\ doneQueue' = <<>> /\ deferredQueue' = <<>>
  /\ consumerCount' = producerCount
  /\ tdSlots' = [s \in DOMAIN tdSlots |-> IF tdSlots[s] \in ToSet(Window) THEN Free ELSE tdSlots[s]]
  /\ scheduledTDs' = scheduledTDs - Len(Window)
  /\ inSlot' = Unset /\ outSlot' = Unset /\ toDoList' = <<>>
  /\ tdsScheduled' = FALSE /\ stopping' = FALSE
  /\ hwRing' = <<>> /\ hwRunning' = FALSE
  /\ IF schedulingDelayed THEN Upset("delayed") ELSE UNCHANGED upset
  /\ UNCHANGED <<scheduledFrameNumber, schedulingDelayed, savedDoneQueueHead, producerCount, frame,
                 interruptThisTD, filterVars, gpc, currFrame, pIsochTd, returnThread, bounce, events, ran,
                 aborts, odd>>

-----------------------------------------------------------------------------
(* The filter: processTransferEvent.                                       *)

Bounce(e) == bounce' = Append(bounce, e.kind)

\* Events of an endpoint without scheduled TDs, or that stop it, are the work loop's.
FilterPass ==
  /\ fpc = "idle" /\ events # <<>>
  /\ LET e == Head(events)
     IN  /\ ~tdsScheduled \/ e.kind # "done" \/ ~Used(outSlot)
         /\ Bounce(e)
         /\ tdsScheduled' = (tdsScheduled /\ e.kind = "done")
         /\ IF e.kind # "done" /\ scheduledTDs > 0 THEN Upset("deaf") ELSE UNCHANGED upset
  /\ events' = Tail(events)
  /\ UNCHANGED <<listVars, slotVars, scheduledFrameNumber, schedulingDelayed, chainVars, tdVars, filterVars,
                 gateVars, hwVars, ran, returned, aborts, odd>>

\* Otherwise it looks through the slots filled so far.
FilterBegin ==
  /\ fpc = "idle" /\ events # <<>> /\ tdsScheduled /\ Head(events).kind = "done" /\ Used(outSlot)
  /\ fpc' = "scan" /\ fEvent' = Head(events) /\ events' = Tail(events) /\ copyEvent' = TRUE
  /\ testSlot' = outSlot /\ stopSlot' = inSlot % NumSlots
  /\ pCachedHead' = savedDoneQueueHead /\ cachedProducer' = producerCount
  /\ UNCHANGED <<listVars, slotVars, schedVars, chainVars, tdVars, gateVars, bounce, hwVars, histVars>>

FilterSkip ==
  /\ fpc = "scan" /\ testSlot # stopSlot
  /\ tdSlots[testSlot] = Free \/ ~tdsScheduled
  /\ testSlot' = NextSlot(testSlot)
  /\ UNCHANGED <<listVars, slotVars, schedVars, chainVars, tdVars, fpc, fEvent, copyEvent, stopSlot,
                 pCachedHead, cachedProducer, gateVars, bounce, hwVars, events, histVars>>

Passed_All(own) == TRUE
Passed(own) == ~own

\* A TD the event is not for, but which comes before its TD, is taken to have succeeded.
FilterTest ==
  /\ fpc = "scan" /\ testSlot # stopSlot
  /\ tdSlots[testSlot] # Free /\ tdsScheduled
  /\ LET td  == tdSlots[testSlot]
         own == td = fEvent.td
     IN  /\ IF ~own \/ fEvent.last
            THEN /\ tdSlots' = [tdSlots EXCEPT ![testSlot] = Free]
                 /\ pCachedHead' = <<td>> \o pCachedHead
                 /\ cachedProducer' = cachedProducer + 1
                 /\ scheduledTDs' = scheduledTDs - 1 /\ outSlot' = testSlot
                 /\ status' = UpdateFrameList(td, own)
                 /\ UNCHANGED copyEvent
            ELSE /\ copyEvent' = FALSE
                 /\ UNCHANGED <<tdSlots, pCachedHead, cachedProducer, scheduledTDs, outSlot, status>>
         /\ IF Passed(own) THEN testSlot' = NextSlot(testSlot) ELSE testSlot' = stopSlot
  /\ UNCHANGED <<listVars, inSlot, schedVars, chainVars, frame, interruptThisTD, fpc, fEvent, stopSlot,
                 gateVars, bounce, hwVars, events, histVars>>

\* The chain and its count change together, under wdhLock.
Published_Late == producerCount
Published == cachedProducer

FilterPublish ==
  /\ fpc = "scan" /\ testSlot = stopSlot
  /\ savedDoneQueueHead' = pCachedHead /\ producerCount' = Published
  /\ IF copyEvent THEN Bounce(fEvent) ELSE UNCHANGED bounce
  /\ fpc' = "idle" /\ fEvent' = NoEvent /\ copyEvent' = TRUE /\ testSlot' = 0 /\ stopSlot' = 0
  /\ pCachedHead' = <<>> /\ cachedProducer' = 0
  /\ UNCHANGED <<listVars, slotVars, schedVars, consumerCount, tdVars, gateVars, hwVars, events,
                 histVars>>

-----------------------------------------------------------------------------
(* The xHC.                                                                *)

Post(es) == events' = events \o es

\* Frames are _istKeepAwayFrames ahead when their TDs are scheduled.
HwRuns == hwRunning /\ hwRing # <<>> /\ gpc # "mark"

\* A TD is carried out. It interrupts when it was told to, or on a short packet or error,
\* after which "xHC issues spurious success transfer event" (Interrupts.cpp:765).
HwTransfer ==
  /\ HwRuns
  /\ ran' = ran \cup {Head(hwRing)} /\ hwRing' = Tail(hwRing)
  /\ LET e == Event("done", Head(hwRing), TRUE)
     IN  \/ Post(<<e>>) /\ UNCHANGED <<odd, upset>>
         \/ ~interruptThisTD[Head(hwRing)] /\ Post(<<>>) /\ UNCHANGED <<odd, upset>>
         \/ Post(<<e, e>>) /\ Odd /\ Upset("second")
  /\ UNCHANGED <<listVars, slotVars, schedVars, chainVars, tdVars, filterVars, gateVars, bounce,
                 hwRunning, returned, aborts>>

\* A short packet or error in a transfer of a TD before its last.
HwPart ==
  /\ HwRuns /\ Odd
  /\ Post(<<Event("done", Head(hwRing), FALSE)>>)
  /\ UNCHANGED <<listVars, slotVars, schedVars, chainVars, tdVars, filterVars, gateVars, bounce,
                 hwVars, ran, returned, upset, aborts>>

\* A missed service: the TD's frame has passed.
HwMiss ==
  /\ HwRuns /\ Odd
  /\ hwRing' = Tail(hwRing)
  /\ Post(<<Event("off", 0, FALSE)>>) /\ Upset("missed")
  /\ UNCHANGED <<listVars, slotVars, schedVars, chainVars, tdVars, filterVars, gateVars, bounce,
                 hwRunning, ran, returned, aborts>>

\* Nothing left on the ring: the endpoint is off until the next doorbell.
HwUnderrun ==
  /\ hwRunning /\ hwRing = <<>>
  /\ hwRunning' = FALSE /\ Post(<<Event("underrun", 0, FALSE)>>)
  /\ UNCHANGED <<listVars, slotVars, schedVars, chainVars, tdVars, filterVars, gateVars, bounce,
                 hwRing, histVars>>

-----------------------------------------------------------------------------
AddIsocFramesToSchedule == AddNothing \/ AddLate \/ AddBegin \/ AddDelayed \/ AddNoRoom \/ AddToSlot
                           \/ AddToRing \/ AddStart \/ AddMark
PollEventRing2 == RetireIsocTransactions \/ PollBounced
Filter == FilterPass \/ FilterBegin \/ FilterSkip \/ FilterTest \/ FilterPublish
Xhc    == HwTransfer \/ HwUnderrun

Next == UIMCreateIsochTransfer \/ AddIsocFramesToSchedule \/ PollEventRing2 \/ ReturnThread
        \/ Abort \/ AbortIsochEP \/ Filter \/ Xhc \/ HwPart \/ HwMiss

Spec == Init /\ [][Next]_vars

-----------------------------------------------------------------------------
\* Every TD of a request is in one place: to do, in a slot, in the hands of the filter or on its
\* chain and not yet counted as consumed, done, deferred or returned. TDs in slots are counted
\* by scheduledTDs and lie between outSlot and inSlot, where the filter and the abort look.
\* Unless the slots were restarted under the filter: an underrun event polled when all TDs have been
\* returned resets inSlot and outSlot, also while the filter is still going through them for a second
\* event (Interrupts.cpp:720-724), which moves outSlot and drops the count for TDs added meanwhile.
InSlots == {s \in DOMAIN tdSlots : tdSlots[s] # Free}
Taken   == IF fpc = "scan" THEN SubSeq(pCachedHead, 1, cachedProducer - producerCount) ELSE <<>>
NoTDLost == "restarted" \notin upset =>
  /\ LET places == toDoList \o Taken \o SubSeq(savedDoneQueueHead, 1, producerCount - consumerCount)
                   \o doneQueue \o deferredQueue \o returned
         slots == {tdSlots[s] : s \in InSlots}
     IN  /\ Len(places) + Cardinality(InSlots) = Len(frame)
         /\ ToSet(places) \cup slots = DOMAIN frame
  /\ scheduledTDs = Cardinality(InSlots)
  /\ Len(Window) = scheduledTDs

\* A TD is reported as done only when the xHC has carried it out: the events the filter goes by
\* are for the last TD it takes. That needs an xHC that posts one event for a TD and misses none,
\* and TDs that are all laid out.
SuccessIsDone ==
  upset \cap {"second", "missed", "notLaid"} = {} =>
    \A td \in DOMAIN status : status[td] \in {"ok", "assumed"} => td \in ran

\* TDs are returned in the order of their frames, deferred ones included, unless a late TD
\* found nothing scheduled while the filter held TDs that were not yet retired, or the slots were
\* restarted under the filter.
ReturnedInOrder ==
  upset \cap {"overtaken", "restarted"} = {} =>
    \A j, k \in DOMAIN returned : j < k => frame[returned[j]] < frame[returned[k]]

\* A gap in the frames, a full set of slots, a late TD and an abort are got over: when interrupts,
\* work loop and xHC have nothing left to do every TD has been returned. Not if a second event
\* upset the slots, the filter was told to stop looking with TDs in slots, an abort left
\* schedulingDelayed set, a request was cut short, the ring was full of TDs whose events were
\* still to be polled, or the controller halted.
AtRest ==
  /\ GateFree /\ fpc = "idle" /\ producerCount = consumerCount /\ ~returnThread
  /\ events = <<>> /\ bounce = <<>> /\ ~hwRunning
NoTDForgotten ==
  AtRest /\ upset \cap {"second", "deaf", "delayed", "orphan", "roomUnseen", "halted"} = {} =>
    ToSet(returned) = DOMAIN frame

=============================================================================

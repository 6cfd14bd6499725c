----------------------------- MODULE AsyncEndpoint -----------------------------
(***************************************************************************)
(* An asynchronous endpoint (Async.cpp): requests cut into TDs, the TDs     *)
(* waiting in a queue for room on the ring, those scheduled on it, and what *)
(* takes them off: transfer events, time-outs and aborts.                   *)
(*                                                                         *)
(* The driver's operations have the work-loop gate from beginning to end,   *)
(* so each is one step; the xHC (external) carries out TDs between them,    *)
(* and its events wait on the event ring or the bounce queue for the gate.  *)
(* PollInterrupts handles what is on the bounce queue in one go, without    *)
(* letting the gate go; that only matters after a wait for a command.       *)
(* `aborting`, `returnInProgress` and the done queue are only in use within *)
(* a step.                                                                  *)
(*                                                                         *)
(* The ring is that of TransferRing with one slot for each TD. Positions    *)
(* count the TDs laid out since the ring was initialised; what the driver   *)
(* and the xHC see of a position is its index, the position % NumTRBs.      *)
(***************************************************************************)
EXTENDS Integers, Sequences, FiniteSetsExt, Functions

CONSTANTS NumTRBs,       \* slots of the ring, one of which is kept free
          MaxTDs,        \* bound: TDs of a request
          MaxRequests,   \* bound: requests in a behaviour
          MaxFailures    \* bound: events lost, TDs not laid out, and allocations that fail

ASSUME NumTRBsAssumption == NumTRBs \in Nat /\ NumTRBs >= 2
ASSUME BoundsAssumption  == {MaxTDs, MaxRequests, MaxFailures} \subseteq Nat /\ MaxTDs >= 1

VARIABLES
  \* XHCIAsyncEndpoint
  queued, scheduled,   \* TDs, oldest first
  \* ringStruct
  enqueue,             \* position of the next TD to lay out
  dequeueIndex, lastSeenDequeueIndex,
  \* the xHC
  epState, hw,         \* endpoint state; position of the next TD to carry out
  laid,                \* the TDs on the ring, by position
  events,              \* transfer events the driver has not handled, oldest first
  bounced,             \* how many of them PollInterrupts, holding the gate, has on the bounce queue
  \* history
  requests,            \* number of the last request
  refused,             \* requests CreateTDs returned an error for
  returned,            \* requests completed, in that order, with their status
  ran,                 \* TDs the xHC has carried out
  flushed,             \* TDs flushed while the endpoint was running
  mixed,               \* an event has outlived the use of its index: see SuccessIsDone
  kept,                \* the queue was left alone: see QueueNotForgotten
  failures

listVars == <<queued, scheduled>>
ringVars == <<enqueue, dequeueIndex, lastSeenDequeueIndex>>
hwVars   == <<epState, hw, laid, events, bounced>>
histVars == <<requests, refused, returned, ran, flushed, mixed, kept, failures>>
vars     == <<listVars, ringVars, hwVars, histVars>>

-----------------------------------------------------------------------------
\* finalTDInTransaction is part of the TD; pos is its lastTrbIndex.
TD(c, n, final) == [cmd |-> c, n |-> n, final |-> final, pos |-> -1]
Index(p) == p % NumTRBs
NextIndex(i) == (i + 1) % NumTRBs
Id(td) == <<td.cmd, td.n>>

From(q, k) == SubSeq(q, k, Len(q))
Leading(q, c) == Max({k \in 0 .. Len(q) : \A j \in 1 .. k : q[j].cmd = c})
FreeSlots_All(dq, e) == ((dq - Index(e) - 1) % NumTRBs) + 1
FreeSlots(dq, e) == (dq - Index(e) - 1) % NumTRBs

\* The position an index stands for in Set TR Dequeue: with the cycle bit of the TRB
\* there it is the one of the present turn of the ring.
PositionOf(i) == CHOOSE p \in enqueue - NumTRBs + 1 .. enqueue : Index(p) = Index(i)

Init ==
  /\ queued = <<>> /\ scheduled = <<>>
  /\ enqueue = 0 /\ dequeueIndex = 0 /\ lastSeenDequeueIndex = 0
  /\ epState = "running" /\ hw = 0 /\ laid = <<>> /\ events = <<>> /\ bounced = 0
  /\ requests = 0 /\ refused = {} /\ returned = <<>> /\ ran = {} /\ flushed = {}
  /\ mixed = FALSE /\ kept = FALSE /\ failures = 0

\* A failure that the code allows for: allowed MaxFailures times.
Fails == failures < MaxFailures /\ failures' = failures + 1

\* PollInterrupts is not in its loop.
GateFree == bounced = 0
NextOfBounced == bounced' = IF bounced = 0 THEN 0 ELSE bounced - 1

-----------------------------------------------------------------------------
(* Parts of the operations.                                                *)

\* Complete, for the TDs of the done queue: the request of each final TD is returned.
Completions(done, rc) ==
  LET upTo[k \in 0 .. Len(done)] ==
        IF k = 0 THEN <<>>
        ELSE IF done[k].final THEN Append(upTo[k - 1], [cmd |-> done[k].cmd, rc |-> rc])
        ELSE upTo[k - 1]
  IN  upTo[Len(done)]

PutBack_AtTail(q, k) == IF q = <<>> THEN q ELSE Append(From(q, k + 2), q[k + 1])
PutBack(q, k) == From(q, k + 1)

\* ScheduleTDs from lists sch and que: TDs go on the ring while there is room, each with
\* a doorbell, up to one that _createTransfer cannot lay out, which is put back.
ScheduleTDs(sch, que, dq, state) ==
  LET room == Min({Len(que), FreeSlots(dq, enqueue)}) IN
  \E k \in 0 .. room :
    /\ \/ k = room /\ queued' = From(que, k + 1) /\ UNCHANGED failures /\ kept' = FALSE
       \/ k < room /\ queued' = PutBack(que, k) /\ Fails /\ kept' = TRUE
    /\ LET new == [j \in 1 .. k |-> [que[j] EXCEPT !.pos = enqueue + j - 1]]
       IN  scheduled' = sch \o new /\ laid' = laid \o new
    /\ enqueue' = enqueue + k
    /\ mixed' = (mixed \/ \E j \in DOMAIN events, p \in enqueue .. enqueue + k - 1 :
                            events[j].index = Index(p))
    /\ epState' = IF k > 0 /\ state = "stopped" THEN "running" ELSE state

\* Nothing is scheduled by this operation.
LeaveQueue(sch, que) ==
  /\ scheduled' = sch /\ queued' = que
  /\ UNCHANGED <<enqueue, laid, epState, mixed, failures>>

-----------------------------------------------------------------------------
(* Requests.                                                               *)

\* CreateTDs: the first k of the n TDs of request c.
Cut(c, n, k) == [j \in 1 .. k |-> TD(c, j, j = n)]

\* CreateTransfer: CreateTDs and ScheduleTDs. A stalled endpoint takes no request. When there
\* is no memory for a TD the request is refused, but the TDs before it stay on the queue.
CreateTransfer ==
  /\ GateFree /\ requests < MaxRequests /\ epState # "halted"
  /\ requests' = requests + 1
  /\ \E n \in 1 .. MaxTDs :
     \/ /\ ScheduleTDs(scheduled, queued \o Cut(requests + 1, n, n), dequeueIndex, epState)
        /\ UNCHANGED refused
     \/ \E k \in 0 .. n - 1 :
        /\ failures < MaxFailures
        /\ refused' = refused \cup {requests + 1}
        /\ ScheduleTDs(scheduled, queued \o Cut(requests + 1, n, k), dequeueIndex, epState)
  /\ UNCHANGED <<dequeueIndex, lastSeenDequeueIndex, hw, events, bounced, returned, ran, flushed>>

-----------------------------------------------------------------------------
(* RetireTDs, for a TD taken off the schedule, with sch the rest of it, dq *)
(* and h the dequeue pointers of driver and xHC, and the endpoint in state *)
(* state. The orphans are done already.                                    *)

\* Without a flush the TD is done and others take its room.
RetireOne_LeavesQueue(td, sch, dq, h, orphans, rc) ==
  /\ returned' = returned \o Completions(orphans, "success") \o Completions(<<td>>, rc)
  /\ dequeueIndex' = dq /\ hw' = h
  /\ LeaveQueue(sch, queued) /\ NextOfBounced /\ UNCHANGED <<flushed, kept>>

RetireOne(td, sch, dq, h, orphans, rc) ==
  /\ returned' = returned \o Completions(orphans, "success") \o Completions(<<td>>, rc)
  /\ dequeueIndex' = dq /\ hw' = h
  /\ ScheduleTDs(sch, queued, dq, epState)
  /\ NextOfBounced /\ UNCHANGED flushed

\* With a flush (FlushTDs, MoveTDsFromReadyQToDoneQ) so are the other TDs of its request.
FlushLength(c) == Leading(queued, c)

RetireAll(td, sch, dq, h, state, orphans, rc) ==
  LET k    == Leading(sch, td.cmd)
      m    == FlushLength(td.cmd)
      rest == From(sch, k + 1)
      que  == From(queued, m + 1)
      done == <<td>> \o SubSeq(sch, 1, k) \o SubSeq(queued, 1, m)
      last == IF k > 0 THEN NextIndex(Index(sch[k].pos)) ELSE dq
  IN
  /\ returned' = returned \o Completions(orphans, "success") \o Completions(done, rc)
  /\ \* "not safe to set TRDQPtr since the xHC may have advanced": it is let run
     \/ /\ state = "running" /\ rest # <<>>
        /\ dequeueIndex' = dq /\ hw' = h
        /\ ScheduleTDs(rest, que, dq, state) /\ NextOfBounced
        /\ flushed' = flushed \cup {Id(sch[j]) : j \in 1 .. k}
     \* nothing left: the endpoint is stopped and its ring emptied. The interrupt that brings
     \* the completion of Stop Endpoint has bounced the events before it, which are next
     \/ /\ state = "running" /\ rest = <<>>
        /\ dequeueIndex' = Index(enqueue) /\ hw' = enqueue
        /\ ScheduleTDs(<<>>, que, Index(enqueue), "stopped") /\ bounced' = Len(events) - 1
        /\ flushed' = flushed \cup {Id(sch[j]) : j \in 1 .. k}
     \* "let upstack take care of this EPState"
     \/ /\ state = "halted"
        /\ dequeueIndex' = dq /\ hw' = h
        /\ LeaveQueue(rest, que) /\ kept' = TRUE /\ NextOfBounced /\ UNCHANGED flushed
     \* "likely coming from UpdateTimeouts": the TDs are skipped
     \/ /\ state = "stopped"
        /\ dequeueIndex' = last /\ hw' = IF k > 0 THEN PositionOf(last) ELSE h
        /\ ScheduleTDs(rest, que, last, IF rest # <<>> THEN "running" ELSE state)
        /\ NextOfBounced /\ UNCHANGED flushed

-----------------------------------------------------------------------------
(* processTransferEvent2.                                                  *)

Flushes(code, td) == code # "success" /\ ~td.final

Matches_Oldest == IF scheduled = <<>> THEN {} ELSE {1}
Matches == {k \in DOMAIN scheduled : Index(scheduled[k].pos) = Head(events).index}

\* No scheduled TD ends there: dequeueIndex moves all the same.
StrayEvent ==
  /\ events # <<>> /\ Matches = {}
  /\ events' = Tail(events) /\ NextOfBounced /\ dequeueIndex' = NextIndex(Head(events).index)
  /\ mixed' = (mixed \/ (scheduled = <<>> /\ dequeueIndex' # Index(enqueue)))
  /\ UNCHANGED <<listVars, enqueue, lastSeenDequeueIndex, epState, hw, laid,
                 requests, refused, returned, ran, flushed, kept, failures>>

\* GetTDFromActiveQueueWithIndex: the TDs before it are orphans, done with success.
TransferEvent ==
  /\ events # <<>> /\ Matches # {}
  /\ events' = Tail(events)
  /\ LET e       == Head(events)
         k       == Min(Matches)
         td      == scheduled[k]
         orphans == SubSeq(scheduled, 1, k - 1)
         sch     == From(scheduled, k + 1)
         next    == NextIndex(e.index)
     IN IF Index(enqueue) = dequeueIndex
        THEN \* "spurious success transfer event with duplicate addr": the TD is dropped
             /\ scheduled' = sch /\ returned' = returned \o Completions(orphans, "success")
             /\ NextOfBounced
             /\ UNCHANGED <<queued, dequeueIndex, enqueue, laid, epState, hw, flushed, mixed, kept,
                            failures>>
        ELSE IF Flushes(e.code, td)
             THEN RetireAll(td, sch, next, hw, epState, orphans, e.code)
             ELSE RetireOne(td, sch, next, hw, orphans, e.code)
  /\ UNCHANGED <<lastSeenDequeueIndex, requests, refused, ran>>

\* The bounce queue was full: the event is lost.
LoseEvent ==
  /\ events # <<>> /\ events' = Tail(events) /\ NextOfBounced /\ Fails
  /\ UNCHANGED <<listVars, ringVars, epState, hw, laid, requests, refused, returned, ran, flushed,
                 mixed, kept>>

-----------------------------------------------------------------------------
(* checkEPForTimeOuts and UpdateTimeouts.                                  *)

\* The ring has moved since the last look, or is empty.
LookAtRing_Forgets ==
  /\ GateFree /\ lastSeenDequeueIndex # dequeueIndex /\ UNCHANGED vars

LookAtRing ==
  /\ GateFree /\ lastSeenDequeueIndex # dequeueIndex
  /\ lastSeenDequeueIndex' = dequeueIndex
  /\ UNCHANGED <<listVars, enqueue, dequeueIndex, hwVars, histVars>>

\* The oldest TD has timed out. The endpoint is stopped, reset if it was halted, and sent
\* on behind the TD; then the request is flushed.
UpdateTimeouts ==
  /\ GateFree
  /\ lastSeenDequeueIndex = dequeueIndex /\ Index(enqueue) # dequeueIndex /\ scheduled # <<>>
  /\ LET td   == Head(scheduled)
         next == NextIndex(Index(td.pos))
     IN  RetireAll(td, Tail(scheduled), next, PositionOf(next), "stopped", <<>>, "timeout")
  /\ UNCHANGED <<lastSeenDequeueIndex, events, requests, refused, ran>>

-----------------------------------------------------------------------------
(* UIMAbortEndpoint, UIMClearEndpointStall: the endpoint is quiesced, and  *)
(* ReturnAllTransfersAndReinitRing.                                        *)

\* Abort: every scheduled TD, and what the queue holds of the last one's request.
AbortedQueue == IF scheduled = <<>> THEN 0 ELSE Leading(queued, scheduled[Len(scheduled)].cmd)

\* A ring that looks empty is not aborted.
ReturnAllTransfers ==
  IF dequeueIndex # Index(enqueue)
  THEN /\ scheduled' = <<>> /\ queued' = From(queued, AbortedQueue + 1)
       /\ returned' = returned \o Completions(scheduled \o SubSeq(queued, 1, AbortedQueue),
                                              "aborted")
  ELSE UNCHANGED <<listVars, returned>>

ReinitTransferRing ==
  /\ enqueue' = 0 /\ dequeueIndex' = 0 /\ lastSeenDequeueIndex' = 0
  /\ hw' = 0 /\ laid' = <<>>
  /\ mixed' = (mixed \/ events # <<>>)

AbortEndpoint ==
  /\ GateFree
  /\ ReturnAllTransfers /\ ReinitTransferRing
  /\ epState' = "stopped" /\ kept' = TRUE
  /\ UNCHANGED <<events, bounced, requests, refused, ran, flushed, failures>>

-----------------------------------------------------------------------------
(* The xHC carries out the next TD: as asked, short, or with an error that *)
(* halts the endpoint. Where the driver has laid out a TD over the one it  *)
(* would carry out, the cycle bit is not its own, and it waits.            *)

HwTransfer ==
  /\ epState = "running" /\ hw < enqueue /\ enqueue <= hw + NumTRBs
  /\ \E code \in {"success", "short", "error"} :
       /\ events' = Append(events, [index |-> Index(hw), code |-> code, id |-> Id(laid[hw + 1])])
       /\ epState' = IF code = "error" THEN "halted" ELSE epState
  /\ ran' = ran \cup {Id(laid[hw + 1])}
  /\ hw' = hw + 1
  /\ UNCHANGED <<listVars, ringVars, laid, bounced, requests, refused, returned, flushed, mixed, kept,
                 failures>>

-----------------------------------------------------------------------------
Handle == StrayEvent \/ TransferEvent

Next == CreateTransfer \/ Handle \/ LoseEvent \/ LookAtRing \/ UpdateTimeouts
        \/ AbortEndpoint \/ HwTransfer

Spec == Init /\ [][Next]_vars

\* The work loop handles events, and the family asks for time-outs again and again. Of the
\* xHC and the device nothing is assumed.
FairSpec == Spec /\ WF_vars(Handle) /\ WF_vars(LookAtRing) /\ WF_vars(UpdateTimeouts)

-----------------------------------------------------------------------------
Pending(c) == c \in 1 .. requests \ refused /\ \A k \in DOMAIN returned : returned[k].cmd # c

\* Requests are returned in the order they were made, each at most once, whatever is lost,
\* late, flushed or aborted: what the orphans, FlushTDs and PutTDAtHead must keep up.
ReturnedInOrder ==
  \A i, j \in DOMAIN returned : i < j => returned[i].cmd < returned[j].cmd

\* A request is only returned with success when the xHC has carried out every one of its TDs,
\* those taken for orphans included, and late events of TDs flushed or timed out change nothing
\* in that: the match by lastTrbIndex in GetTDFromActiveQueueWithIndex. (Not claimed once an
\* event has outlived the use of its index: mixed.)
SuccessIsDone ==
  ~mixed => \A k \in DOMAIN returned :
    returned[k].rc = "success" =>
      \A j \in DOMAIN laid : laid[j].cmd = returned[k].cmd => Id(laid[j]) \in ran

\* A request that was accepted and is not returned has its last TD on the queue or scheduled,
\* where an event, a time-out or an abort will find it: no path through the lists, nor the early
\* return of processTransferEvent2 on an empty ring, drops it.
NoRequestLost ==
  \A c \in 1 .. MaxRequests : Pending(c) =>
    \E td \in Range(queued) \cup Range(scheduled) : td.cmd = c /\ td.final

\* When nothing is scheduled the queue is empty too, since only the end of a TD makes
\* ScheduleTDs try again; unless an abort or an error that halted the endpoint, or a TD that
\* could not be laid out, left it to the next request.
QueueNotForgotten == ~kept /\ ~mixed /\ scheduled = <<>> => queued = <<>>

\* Every request is returned, by event or by time-out, though events are lost and the device
\* may never answer; or it waits in the queue for the next request.
EveryRequestReturns ==
  \A c \in 1 .. MaxRequests :
    Pending(c) ~> ~Pending(c) \/ (scheduled = <<>> /\ kept) \/ mixed

\* "Any events for flushed TDs are safely discarded in processTransferEvent2" (Async.cpp:309).
FlushedEventsDiscarded ==
  [][TransferEvent => Head(events).id \notin flushed]_vars

=============================================================================

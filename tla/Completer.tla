------------------------------ MODULE Completer ------------------------------
(***************************************************************************)
(* Completer.cpp: the completions that XHCIAsyncEndpoint::Complete wants    *)
(* called, on a linked list, and the items it keeps for reuse on another;   *)
(* and the event source that flushes it (GenericUSBXHCIEventSource.cpp).    *)
(*                                                                         *)
(* Everything runs with the work-loop gate held, except that a completion   *)
(* routine, called by InternalFlush, may add items itself, or give the gate *)
(* up so that others do. Items are blocks of memory: a block that was freed *)
(* may be allocated again.                                                  *)
(***************************************************************************)
EXTENDS Integers, Sequences, FiniteSets

CONSTANTS Items,               \* the blocks IOMalloc may return
          MAX_FREE_RETENTION,  \* 16
          MaxAdds              \* bound: items added in a behaviour

ASSUME ItemsAssumption  == 0 \notin Items /\ IsFiniteSet(Items)
ASSUME BoundsAssumption == MAX_FREE_RETENTION \in Nat /\ MaxAdds \in Nat

VARIABLES
  activeHead, activeTail, freeHead, freeTail, freeCount, flushing,
  next,       \* pItem->next: what the block holds, meaningful or not
  payload,    \* pItem->completion: its number, 0 in a block that was never used
  allocated,  \* blocks allocated and not freed
  \* the flush
  pc,         \* where it is: "idle", in the completion routine ("call"), or "loop"
  item,       \* pItem
  retained,   \* it went to the free list, else it will be freed
  \* the event source
  enabled,    \* enable() was called and checkForWork has not run since
  handler,    \* the work-loop thread is in InterruptHandler; checkForWork comes next
  inactive,   \* isInactive(): the controller is going away
  \* history
  added, called

listVars   == <<activeHead, activeTail, freeHead, freeTail, freeCount, next, payload, allocated>>
flushVars  == <<flushing, pc, item, retained>>
sourceVars == <<enabled, handler, inactive>>
histVars   == <<added, called>>
vars       == <<listVars, flushVars, sourceVars, histVars>>

-----------------------------------------------------------------------------
Null == 0

Init ==
  /\ activeHead = Null /\ activeTail = Null /\ freeHead = Null /\ freeTail = Null
  /\ freeCount = 0 /\ flushing = FALSE
  /\ next = [i \in Items |-> Null] /\ payload = [i \in Items |-> 0] /\ allocated = {}
  /\ pc = "idle" /\ item = Null /\ retained = FALSE
  /\ enabled = FALSE /\ handler = FALSE /\ inactive = FALSE
  /\ added = 0 /\ called = 0

-----------------------------------------------------------------------------
(* AddItem.                                                                *)

\* It is called on the gate, or from the completion routine being called.
MayAdd == pc \in {"idle", "call"} /\ added < MaxAdds /\ added' = added + 1

\* The item goes to the end of the active list. Its next pointer is not written.
Enlist_AtHead(i) ==
  /\ payload' = [payload EXCEPT ![i] = added + 1]
  /\ next' = [next EXCEPT ![i] = activeHead]
  /\ activeHead' = i
  /\ activeTail' = IF activeTail # Null THEN activeTail ELSE i

Enlist(i) ==
  /\ payload' = [payload EXCEPT ![i] = added + 1]
  /\ IF activeTail # Null
     THEN next' = [next EXCEPT ![activeTail] = i] /\ UNCHANGED activeHead
     ELSE activeHead' = i /\ UNCHANGED next
  /\ activeTail' = i

\* ScheduleEventSource, but "if flushing, we're already executing inside
\* InternalFlush, so no need to reschedule". On the work-loop thread checkForWork
\* "will execute even w/o reschedule".
MustSchedule_WhileFlushing == flushing
MustSchedule == ~flushing /\ ~handler
Schedule == enabled' = (enabled \/ MustSchedule)

TakeFree ==
  IF freeHead = freeTail
  THEN freeHead' = Null /\ freeTail' = Null
  ELSE freeHead' = next[freeHead] /\ UNCHANGED freeTail

AddReused ==
  /\ MayAdd /\ freeHead # Null
  /\ TakeFree /\ freeCount' = freeCount - 1
  /\ Enlist(freeHead) /\ Schedule
  /\ UNCHANGED <<allocated, flushVars, handler, inactive, called>>

AddAllocated ==
  /\ MayAdd /\ freeHead = Null
  /\ \E i \in Items \ allocated : allocated' = allocated \cup {i} /\ Enlist(i)
  /\ Schedule
  /\ UNCHANGED <<freeHead, freeTail, freeCount, flushVars, handler, inactive, called>>

\* IOMalloc fails: allowImmediate (Async.cpp passes true) calls the completion at once.
AddImmediate ==
  /\ MayAdd /\ freeHead = Null
  /\ called' = added + 1
  /\ UNCHANGED <<listVars, flushVars, sourceVars>>

-----------------------------------------------------------------------------
(* The event source and InternalFlush.                                     *)

\* The work-loop thread handles an interrupt, then runs checkForWork.
InterruptHandler ==
  /\ pc = "idle" /\ ~handler /\ handler' = TRUE
  /\ UNCHANGED <<listVars, flushVars, enabled, inactive, histVars>>

CheckForWork ==
  /\ pc = "idle" /\ (enabled \/ handler)
  /\ enabled' = FALSE /\ handler' = FALSE
  /\ IF ~inactive /\ activeHead # Null
     THEN flushing' = TRUE /\ item' = activeHead /\ pc' = "loop" /\ UNCHANGED retained
     ELSE UNCHANGED flushVars
  /\ UNCHANGED <<listVars, inactive, histVars>>

\* The order that lets a completion routine take the item for a new completion
\* when it is on the free list, since its contents have been read by then.
TailLeft_Kept == activeTail
TailLeft == Null

Retains == freeCount < MAX_FREE_RETENTION

FlushOne ==
  /\ pc = "loop"
  /\ IF item = activeTail
     THEN activeHead' = Null /\ activeTail' = TailLeft
     ELSE activeHead' = next[item] /\ UNCHANGED activeTail
  /\ retained' = Retains
  /\ IF retained'
     THEN /\ IF freeTail # Null
             THEN next' = [next EXCEPT ![freeTail] = item] /\ UNCHANGED freeHead
             ELSE freeHead' = item /\ UNCHANGED next
          /\ freeTail' = item /\ freeCount' = freeCount + 1
     ELSE UNCHANGED <<next, freeHead, freeTail, freeCount>>
  /\ called' = payload[item]
  /\ pc' = "call"
  /\ UNCHANGED <<payload, allocated, flushing, item, sourceVars, added>>

\* The completion routine returns; the loop goes on with what is there by now.
Freed == IF retained THEN {} ELSE {item}

Called ==
  /\ pc = "call"
  /\ allocated' = allocated \ Freed
  /\ item' = activeHead /\ retained' = FALSE
  /\ IF activeHead # Null THEN pc' = "loop" /\ UNCHANGED flushing
     ELSE pc' = "idle" /\ flushing' = FALSE
  /\ UNCHANGED <<activeHead, activeTail, freeHead, freeTail, freeCount, next, payload,
                 sourceVars, histVars>>

-----------------------------------------------------------------------------
(* The end of the controller.                                              *)

Terminate ==
  /\ ~inactive /\ inactive' = TRUE
  /\ UNCHANGED <<listVars, flushVars, enabled, handler, histVars>>

\* UIMFinalize: both lists are freed.
Finalize ==
  /\ inactive /\ pc = "idle" /\ allocated # {}
  /\ activeHead' = Null /\ activeTail' = Null /\ freeHead' = Null /\ freeTail' = Null
  /\ freeCount' = 0 /\ flushing' = FALSE
  /\ allocated' = {}
  /\ UNCHANGED <<next, payload, pc, item, retained, sourceVars, histVars>>

-----------------------------------------------------------------------------
Add   == AddReused \/ AddAllocated \/ AddImmediate
Flush == CheckForWork \/ FlushOne \/ Called

Next == Add \/ InterruptHandler \/ Flush \/ Terminate \/ Finalize

Spec == Init /\ [][Next]_vars

\* The work-loop thread runs the event source, and completion routines return.
FairSpec == Spec /\ WF_vars(Flush)

-----------------------------------------------------------------------------
\* The n-th block from head by next pointers; the list ends at tail.
Walk(head, tail) ==
  LET at[n \in 1 .. Cardinality(Items)] ==
        IF n = 1 THEN head
        ELSE IF at[n - 1] \in {Null, tail} THEN Null ELSE next[at[n - 1]]
  IN  [n \in 1 .. Cardinality({m \in DOMAIN at : at[m] # Null}) |-> at[n]]

ActiveList == Walk(activeHead, activeTail)
FreeList   == Walk(freeHead, freeTail)
BlocksOf(list) == {list[k] : k \in DOMAIN list}

\* The allocated blocks are on exactly one list each, or in the hands of the flush: none is
\* leaked, none is used after it is freed, and none of those to be called is up for reuse,
\* with stale next pointers left in reused blocks and routines that add while they are called.
ListsPartition ==
  LET held == IF pc = "call" /\ ~retained THEN {item} ELSE {} IN
  /\ allocated = BlocksOf(ActiveList) \cup BlocksOf(FreeList) \cup held
  /\ Cardinality(allocated) = Len(ActiveList) + Len(FreeList) + Cardinality(held)
  /\ Len(FreeList) = freeCount

\* Completions are called in order, each once: the lists implement CompletionQueue.
Queue == INSTANCE CompletionQueue
           WITH pending <- [k \in DOMAIN ActiveList |-> payload[ActiveList[k]]]
ImplementsQueue == Queue!Spec

\* A completion that was added is called, unless the controller goes away: whoever adds to
\* an idle Completer gets it flushed, and whoever adds during a flush can count on it.
Flushed == \A c \in 1 .. MaxAdds : added >= c ~> inactive \/ activeHead = Null \/ payload[activeHead] > c

=============================================================================

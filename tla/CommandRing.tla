----------------------------- MODULE CommandRing -----------------------------
(***************************************************************************)
(* The xHC command ring of Command.cpp.                                    *)
(*                                                                         *)
(* Three actors share the ring:                                            *)
(*  - the client: a thread that holds the work-loop gate, runs WaitForCMD  *)
(*    (and, on the way to sleep, CommandStop) and blocks without giving    *)
(*    the gate up, so there is never more than one;                        *)
(*  - the interrupt: PrimaryInterruptFilter on some other CPU, which hands *)
(*    command completion events to DoCMDCompletion;                        *)
(*  - the xHC (external): it runs commands, posts events, stops on demand. *)
(*                                                                         *)
(* Commands are numbered 1, 2, ... in the order EnqueCMD accepts them. The *)
(* callback parameter &ret of command c is the number c; 0 is the null     *)
(* pointer. The call that issued c is over when pc is "idle" again: from   *)
(* then on c is a dangling pointer.                                        *)
(***************************************************************************)
EXTENDS Integers, Sequences

CONSTANTS NumTRBs,    \* entries of the ring, the link TRB included (256 in the driver)
          MaxCmds,    \* bound: commands issued in a behaviour
          MaxResets   \* bound: re-initialisations of the ring in a behaviour

ASSUME NumTRBsAssumption   == NumTRBs \in Nat /\ NumTRBs >= 3
ASSUME MaxCmdsAssumption   == MaxCmds \in Nat
ASSUME MaxResetsAssumption == MaxResets \in Nat

VARIABLES
  \* _commandRing
  trbs,            \* ptr[]: the command and the cycle bit of each TRB
  callbacks,       \* callbacks[]: func (set or null) and param
  enqueueIndex, dequeueIndex, cycleState, stopPending,
  \* the client thread
  pc,              \* where it is in WaitForCMD / CommandAbort / CommandStop
  waitAt,          \* where it is in WaitForChangeEvent
  asserted,        \* it sits on the kernel's wait queue for its event
  cmd,             \* number of the last command issued
  prevIndex,       \* WaitForCMD's prevIndex
  ret,             \* WaitForCMD's ret
  \* the interrupt filter in DoCMDCompletion
  hpc, hEvent,     \* where it is, the event it handles
  hFunc, hParam,   \* its copy of the callback
  \* the xHC
  hwIndex, hwCycle,   \* its dequeue pointer and consumer cycle state
  hwRunning,          \* CRCR.CRR
  hwStop,             \* a stop or abort was requested (CRCR.CS, CRCR.CA)
  events,             \* command completion events on the event ring, oldest first
  gone,               \* the registers read as all ones (m_invalid_regspace)
  \* history
  executed,        \* number of the last command the xHC has completed
  resets,          \* re-initialisations so far
  stale            \* an event was left on the event ring across a sleep

ringVars   == <<trbs, callbacks, enqueueIndex, dequeueIndex, cycleState, stopPending>>
clientVars == <<pc, waitAt, asserted, cmd, prevIndex, ret>>
handlerVars == <<hpc, hEvent, hFunc, hParam>>
hwVars     == <<hwIndex, hwCycle, hwRunning, hwStop, events, gone>>
histVars   == <<executed, resets, stale>>
vars       == <<ringVars, clientVars, handlerVars, hwVars, histVars>>

-----------------------------------------------------------------------------
Slots == 0 .. NumTRBs - 2        \* where commands go
Link  == NumTRBs - 1             \* index of the link TRB

Pending == 0      \* ret = -1; any other value stands for a result, success or error,
                  \* and is the number of the command whose completion carried it
NoCallback == [func |-> FALSE, param |-> 0]
Completion(i, c) == [kind |-> "completion", index |-> i, cmd |-> c]
Stopped(i)       == [kind |-> "stopped", index |-> i, cmd |-> 0]
NoEvent          == [kind |-> "none", index |-> 0, cmd |-> 0]
Event == [kind: {"completion"}, index: Slots, cmd: 0 .. MaxCmds]
         \cup [kind: {"stopped"}, index: 0 .. Link, cmd: {0}]

PcStates == {"idle", "enqueue", "waitRet", "abort", "waitAbort", "recheck",
             "wipeFunc", "wipeParam", "waitStop", "asleep"}
Waiting  == {"waitRet", "waitAbort", "waitStop"}
InCall   == {"enqueue", "waitRet", "abort", "waitAbort", "recheck", "wipeFunc", "wipeParam"}

\* The index after i, as EnqueCMD and as DoCMDCompletion compute it.
NextEnqueue_OverLink(i) == IF i < NumTRBs - 1 THEN i + 1 ELSE 0
NextEnqueue(i) == IF i < NumTRBs - 2 THEN i + 1 ELSE 0
NextDequeue(i) == IF i + 1 >= NumTRBs - 1 THEN 0 ELSE i + 1

RingFull_Never == FALSE
RingFull == NextEnqueue(enqueueIndex) = dequeueIndex

\* The contents InitCMDRing gives the ring.
EmptyTRBs == [i \in 0 .. Link |-> [cmd |-> 0, cycle |-> 0]]
EmptyCallbacks == [i \in Slots |-> NoCallback]

Init ==
  /\ trbs = EmptyTRBs /\ callbacks = EmptyCallbacks
  /\ enqueueIndex = 0 /\ dequeueIndex = 0 /\ cycleState = 1 /\ stopPending = FALSE
  /\ pc = "idle" /\ waitAt = "none" /\ asserted = FALSE
  /\ cmd = 0 /\ prevIndex = 0 /\ ret = Pending
  /\ hpc = "idle" /\ hEvent = NoEvent /\ hFunc = FALSE /\ hParam = 0
  /\ hwIndex = 0 /\ hwCycle = 1 /\ hwRunning = FALSE /\ hwStop = FALSE
  /\ events = <<>> /\ gone = FALSE
  /\ executed = 0 /\ resets = 0 /\ stale = FALSE

-----------------------------------------------------------------------------
(* The client: EnqueCMD, called first thing by WaitForCMD.                 *)

\* WaitForCMD up to EnqueCMD's registration of the callback. A full ring makes
\* WaitForCMD return -1 with nothing changed, and so does a vanished controller.
Enqueue ==
  /\ pc = "idle" /\ ~gone /\ cmd < MaxCmds
  /\ ~RingFull
  /\ cmd' = cmd + 1 /\ ret' = Pending /\ prevIndex' = enqueueIndex
  /\ callbacks' = [callbacks EXCEPT ![enqueueIndex] = [func |-> TRUE, param |-> cmd + 1]]
  /\ pc' = "enqueue"
  /\ UNCHANGED <<trbs, enqueueIndex, dequeueIndex, cycleState, stopPending,
                 waitAt, asserted, handlerVars, hwVars, histVars>>

\* The cycle bit of the link TRB when the ring wraps.
LinkCycle_Kept == trbs[Link].cycle
LinkCycle == cycleState

\* The fourth word with the cycle bit, then the link TRB when the ring wraps,
\* enqueueIndex and the doorbell. DoCMDCompletion reads none of these and
\* EnqueCMD is done reading dequeueIndex, so they make one step.
Publish ==
  /\ pc = "enqueue"
  /\ LET next    == NextEnqueue(enqueueIndex)
         written == [trbs EXCEPT ![enqueueIndex] = [cmd |-> cmd, cycle |-> cycleState]]
     IN  IF next = 0
         THEN /\ trbs' = [written EXCEPT ![Link].cycle = LinkCycle]
              /\ cycleState' = 1 - cycleState
              /\ enqueueIndex' = 0
         ELSE /\ trbs' = written
              /\ cycleState' = cycleState
              /\ enqueueIndex' = next
  /\ hwRunning' = (hwRunning \/ ~gone)
  /\ pc' = "waitRet" /\ waitAt' = "assert"
  /\ UNCHANGED <<callbacks, dequeueIndex, stopPending, asserted, cmd, prevIndex, ret,
                 handlerVars, hwIndex, hwCycle, hwStop, events, gone, histVars>>

-----------------------------------------------------------------------------
(* WaitForChangeEvent: &ret is watched in "waitRet", &stopPending in       *)
(* "waitAbort" and "waitStop".                                             *)

EventChanged == IF pc = "waitRet" THEN ret # Pending ELSE ~stopPending

\* What the caller of WaitForChangeEvent does next.
AfterWait ==
  /\ waitAt' = "none"
  /\ pc' = CASE pc = "waitRet"   -> IF ret # Pending THEN "idle" ELSE "abort"
             [] pc = "waitAbort" -> "recheck"
             [] pc = "waitStop"  -> "asleep"
  /\ stopPending' = IF pc = "waitRet" THEN stopPending ELSE FALSE

\* assert_wait_deadline: on the wait queue from here on.
AssertWait ==
  /\ waitAt = "assert"
  /\ asserted' = TRUE /\ waitAt' = "recheck"
  /\ UNCHANGED <<ringVars, pc, cmd, prevIndex, ret, handlerVars, hwVars, histVars>>

\* The event is looked at once more before blocking.
ChangedBefore_NotLooked == FALSE
ChangedBefore == EventChanged

Recheck ==
  /\ waitAt = "recheck"
  /\ \/ ChangedBefore /\ asserted' = FALSE /\ AfterWait
     \/ ~ChangedBefore /\ waitAt' = "block" /\ UNCHANGED <<pc, stopPending, asserted>>
  /\ UNCHANGED <<trbs, callbacks, enqueueIndex, dequeueIndex, cycleState, cmd, prevIndex, ret,
                 handlerVars, hwVars, histVars>>

\* thread_block returns: awakened, and the event has changed or the loop goes round.
Awakened ==
  /\ waitAt = "block" /\ ~asserted
  /\ \/ EventChanged /\ AfterWait
     \/ ~EventChanged /\ waitAt' = "assert" /\ UNCHANGED <<pc, stopPending>>
  /\ UNCHANGED <<trbs, callbacks, enqueueIndex, dequeueIndex, cycleState, asserted,
                 cmd, prevIndex, ret, handlerVars, hwVars, histVars>>

\* thread_block returns after 100 ms.
TimedOut_Never == FALSE /\ UNCHANGED vars

TimedOut ==
  /\ waitAt = "block" /\ asserted
  /\ asserted' = FALSE /\ AfterWait
  /\ UNCHANGED <<trbs, callbacks, enqueueIndex, dequeueIndex, cycleState,
                 cmd, prevIndex, ret, handlerVars, hwVars, histVars>>

-----------------------------------------------------------------------------
(* WaitForCMD after the time-out, and CommandStop on the way to sleep.     *)

\* CommandAbort and CommandStop: nothing to do when the ring is not running.
RequestStop(waiting, done) ==
  \/ /\ hwRunning /\ ~gone
     /\ stopPending' = TRUE /\ hwStop' = TRUE
     /\ pc' = waiting /\ waitAt' = "assert"
  \/ /\ ~hwRunning \/ gone
     /\ pc' = done
     /\ UNCHANGED <<stopPending, hwStop, waitAt>>

CommandAbort ==
  /\ pc = "abort"
  /\ RequestStop("waitAbort", "recheck")
  /\ UNCHANGED <<trbs, callbacks, enqueueIndex, dequeueIndex, cycleState, asserted, cmd,
                 prevIndex, ret, handlerVars, hwIndex, hwCycle, hwRunning, events, gone, histVars>>

\* ControllerSleep.
CommandStop ==
  /\ pc = "idle" /\ resets < MaxResets
  /\ RequestStop("waitStop", "asleep")
  /\ UNCHANGED <<trbs, callbacks, enqueueIndex, dequeueIndex, cycleState, asserted, cmd,
                 prevIndex, ret, handlerVars, hwIndex, hwCycle, hwRunning, events, gone, histVars>>

MustWipe_Never == FALSE
MustWipe == ret = Pending

\* "If command was still not completed, wipe its callback": func first, then param.
LastLook ==
  /\ pc = "recheck"
  /\ pc' = IF MustWipe THEN "wipeFunc" ELSE "idle"
  /\ UNCHANGED <<ringVars, waitAt, asserted, cmd, prevIndex, ret, handlerVars, hwVars, histVars>>

WipeFunc ==
  /\ pc = "wipeFunc"
  /\ callbacks' = [callbacks EXCEPT ![prevIndex].func = FALSE]
  /\ pc' = "wipeParam"
  /\ UNCHANGED <<trbs, enqueueIndex, dequeueIndex, cycleState, stopPending, waitAt, asserted,
                 cmd, prevIndex, ret, handlerVars, hwVars, histVars>>

WipeParam ==
  /\ pc = "wipeParam"
  /\ callbacks' = [callbacks EXCEPT ![prevIndex].param = 0]
  /\ pc' = "idle"
  /\ UNCHANGED <<trbs, enqueueIndex, dequeueIndex, cycleState, stopPending, waitAt, asserted,
                 cmd, prevIndex, ret, handlerVars, hwVars, histVars>>

-----------------------------------------------------------------------------
(* Re-initialisation. Interrupts are off and drained: the filter is idle.  *)

WipedTRBs_Kept == trbs
WipedTRBs == EmptyTRBs

InitCMDRing ==
  /\ trbs' = WipedTRBs /\ callbacks' = EmptyCallbacks
  /\ enqueueIndex' = 0 /\ dequeueIndex' = 0 /\ cycleState' = 1 /\ stopPending' = FALSE
  /\ hwIndex' = 0 /\ hwCycle' = 1

HaltedAndReset ==
  /\ hpc = "idle" /\ ~gone /\ resets < MaxResets
  /\ resets' = resets + 1 /\ executed' = cmd
  /\ hwRunning' = FALSE /\ hwStop' = FALSE
  /\ InitCMDRing
  /\ pc' = "idle"
  /\ UNCHANGED <<waitAt, asserted, cmd, prevIndex, ret, handlerVars, gone>>

\* RestartControllerFromReset, also taken when the state restore fails:
\* InitEventRing clears the event ring.
Restart ==
  /\ pc \in {"idle", "asleep"}
  /\ HaltedAndReset
  /\ events' = <<>> /\ UNCHANGED stale

\* RestoreControllerStateFromSleep: the event ring keeps its contents.
Resume ==
  /\ pc = "asleep"
  /\ HaltedAndReset
  /\ stale' = (stale \/ events # <<>>)
  /\ UNCHANGED events

-----------------------------------------------------------------------------
(* The interrupt filter in DoCMDCompletion. Interrupts are off while       *)
(* asleep, and the filter does nothing once the registers are gone.        *)

TakeEvent ==
  /\ hpc = "idle" /\ pc # "asleep" /\ ~gone /\ events # <<>>
  /\ events' = Tail(events)

Idle == hpc' = "idle" /\ hEvent' = NoEvent /\ hFunc' = FALSE /\ hParam' = 0

\* A completion: copy.func is read ...
TakeCompletion ==
  /\ TakeEvent
  /\ Head(events).kind = "completion"
  /\ hEvent' = Head(events) /\ hFunc' = callbacks[Head(events).index].func
  /\ hpc' = "copyParam"
  /\ UNCHANGED <<ringVars, clientVars, hParam, hwIndex, hwCycle, hwRunning, hwStop, gone, histVars>>

\* ... and then copy.param.
CopyParam ==
  /\ hpc = "copyParam"
  /\ hParam' = callbacks[hEvent.index].param
  /\ hpc' = "clear"
  /\ UNCHANGED <<ringVars, clientVars, hEvent, hFunc, hwVars, histVars>>

\* The entry is cleared and dequeueIndex advances; a null func ends it here.
ClearEntry ==
  /\ hpc = "clear"
  /\ callbacks' = [callbacks EXCEPT ![hEvent.index] = NoCallback]
  /\ dequeueIndex' = NextDequeue(hEvent.index)
  /\ IF hFunc THEN hpc' = "call" /\ UNCHANGED <<hEvent, hFunc, hParam>> ELSE Idle
  /\ UNCHANGED <<trbs, enqueueIndex, cycleState, stopPending, clientVars, hwVars, histVars>>

\* CompleteSlotCommand: *param = ret. When param is not the current &ret the
\* store lands outside every live call (see RetNeverOverrun).
StoreRet ==
  /\ hpc = "call"
  /\ ret' = IF hParam = cmd /\ pc \in InCall THEN hEvent.cmd ELSE ret
  /\ hpc' = "wakeRet"
  /\ UNCHANGED <<ringVars, pc, waitAt, asserted, cmd, prevIndex, hEvent, hFunc, hParam,
                 hwVars, histVars>>

\* thread_wakeup_prim(param).
WakeRet ==
  /\ hpc = "wakeRet"
  /\ asserted' = (asserted /\ ~(pc = "waitRet" /\ hParam = cmd))
  /\ Idle
  /\ UNCHANGED <<ringVars, pc, waitAt, cmd, prevIndex, ret, hwVars, histVars>>

\* Command Ring Stopped, with a pointer into the ring.
TakeStopped ==
  /\ TakeEvent
  /\ Head(events).kind = "stopped" /\ Head(events).index # Link
  /\ dequeueIndex' = Head(events).index /\ stopPending' = FALSE
  /\ hEvent' = Head(events) /\ hpc' = "wakeStop"
  /\ UNCHANGED <<trbs, callbacks, enqueueIndex, cycleState, clientVars, hFunc, hParam,
                 hwIndex, hwCycle, hwRunning, hwStop, gone, histVars>>

WakeStop ==
  /\ hpc = "wakeStop"
  /\ asserted' = (asserted /\ pc \notin {"waitAbort", "waitStop"})
  /\ Idle
  /\ UNCHANGED <<ringVars, pc, waitAt, cmd, prevIndex, ret, hwVars, histVars>>

\* Command Ring Stopped while the xHC points at the link TRB: "bad pointer in
\* CCE", the event has no effect (it is bounced to the work loop and refused again).
RefuseStopped ==
  /\ TakeEvent
  /\ Head(events).kind = "stopped" /\ Head(events).index = Link
  /\ UNCHANGED <<ringVars, clientVars, handlerVars, hwIndex, hwCycle, hwRunning, hwStop,
                 gone, histVars>>

-----------------------------------------------------------------------------
(* The xHC, as the driver relies on it.                                    *)

Valid(i) == trbs[i].cycle = hwCycle

\* A command completes, with success or an error (aborted included), possibly
\* after a stop was requested.
HwExecute ==
  /\ hwRunning /\ ~gone /\ hwIndex # Link /\ Valid(hwIndex)
  /\ events' = Append(events, Completion(hwIndex, trbs[hwIndex].cmd))
  /\ executed' = trbs[hwIndex].cmd
  /\ hwIndex' = hwIndex + 1
  /\ UNCHANGED <<ringVars, clientVars, handlerVars, hwCycle, hwRunning, hwStop, gone, resets, stale>>

HwFollowLink ==
  /\ hwRunning /\ ~gone /\ hwIndex = Link /\ Valid(Link)
  /\ hwIndex' = 0 /\ hwCycle' = 1 - hwCycle
  /\ UNCHANGED <<ringVars, clientVars, handlerVars, hwRunning, hwStop, events, gone, histVars>>

HwStopRing ==
  /\ hwStop /\ ~gone
  /\ hwStop' = FALSE /\ hwRunning' = FALSE
  /\ events' = Append(events, Stopped(hwIndex))
  /\ UNCHANGED <<ringVars, clientVars, handlerVars, hwIndex, hwCycle, gone, histVars>>

\* The controller drops off the bus.
Vanish ==
  /\ ~gone /\ gone' = TRUE
  /\ UNCHANGED <<ringVars, clientVars, handlerVars, hwIndex, hwCycle, hwRunning, hwStop,
                 events, histVars>>

-----------------------------------------------------------------------------
Wait    == AssertWait \/ Recheck \/ Awakened \/ TimedOut
Client  == Publish \/ Wait \/ CommandAbort \/ LastLook \/ WipeFunc \/ WipeParam
Power   == CommandStop \/ Restart \/ Resume
Handler == \/ TakeCompletion \/ CopyParam \/ ClearEntry \/ StoreRet \/ WakeRet
           \/ TakeStopped \/ WakeStop \/ RefuseStopped
Xhc     == HwExecute \/ HwFollowLink \/ HwStopRing \/ Vanish

Next == Enqueue \/ Client \/ Power \/ Handler \/ Xhc

Spec == Init /\ [][Next]_vars

\* A thread that has begun a call keeps running, time-outs included. Nothing
\* is assumed of the xHC or of interrupts.
FairSpec == Spec /\ WF_vars(Client)

-----------------------------------------------------------------------------
RingType ==
  /\ trbs \in [0 .. Link -> [cmd: 0 .. MaxCmds, cycle: 0 .. 1]]
  /\ callbacks \in [Slots -> [func: BOOLEAN, param: 0 .. MaxCmds]]
  /\ enqueueIndex \in Slots /\ dequeueIndex \in Slots
  /\ cycleState \in 0 .. 1 /\ stopPending \in BOOLEAN
ClientType ==
  /\ pc \in PcStates /\ waitAt \in {"none", "assert", "recheck", "block"}
  /\ asserted \in BOOLEAN /\ (waitAt # "none" => pc \in Waiting)
  /\ cmd \in 0 .. MaxCmds /\ prevIndex \in Slots /\ ret \in 0 .. MaxCmds
HandlerType ==
  /\ hpc \in {"idle", "copyParam", "clear", "call", "wakeRet", "wakeStop"}
  /\ hEvent \in Event \cup {NoEvent} /\ hFunc \in BOOLEAN /\ hParam \in 0 .. MaxCmds
  /\ hpc \in {"copyParam", "clear"} => hEvent.index \in Slots
HwType ==
  /\ hwIndex \in 0 .. Link /\ hwCycle \in 0 .. 1
  /\ hwRunning \in BOOLEAN /\ hwStop \in BOOLEAN
  /\ events \in Seq(Event) /\ gone \in BOOLEAN
HistType ==
  /\ executed \in 0 .. MaxCmds /\ resets \in 0 .. MaxResets /\ stale \in BOOLEAN

\* Types and bounds: the indices stay on command slots, so callbacks[] is only
\* indexed inside its bounds, by the client and by the interrupt.
TypeOK == RingType /\ ClientType /\ HandlerType /\ HwType /\ HistType

\* When a call is over, time-out, abort and wipe included, no entry of the
\* callback table points at its &ret any more; while it lasts only the entry it
\* registered does. Later completions for its TRB must find nothing to call.
NoDanglingCallback ==
  \A i \in Slots :
    callbacks[i].param # 0 =>
      pc \in InCall /\ i = prevIndex /\ callbacks[i].param = cmd

\* NoDanglingCallback with what makes it inductive: which entry the copy the
\* interrupt holds came from, and that a result is only there once it is cleared.
CallbackInv ==
  /\ NoDanglingCallback
  /\ pc \in InCall => cmd # 0
  /\ hParam <= cmd
  /\ hpc \in {"idle", "copyParam"} => hParam = 0
  /\ pc \in InCall /\ hParam = cmd /\ hpc = "clear" => hEvent.index = prevIndex
  /\ pc \in InCall /\ hParam = cmd /\ hpc \in {"call", "wakeRet"} => callbacks[prevIndex].param = 0
  /\ pc \in InCall /\ ret # Pending => callbacks[prevIndex].param = 0

\* A call never takes the result of another command for its own, whatever
\* commands timed out before it are still on the ring and complete late.
\* (Not claimed once an event of an earlier incarnation of the ring was left
\* on the event ring across a sleep: InitCMDRing reuses the indices.)
ResultIsOwn == ~stale /\ ret # Pending => ret = cmd

\* The xHC runs every command once and in the order of issue: EnqueCMD never
\* overwrites a TRB the xHC has yet to run, and no old TRB becomes valid again
\* when the cycle state turns over.
HwRunsOnceInOrder ==
  [][HwExecute /\ ~stale => trbs[hwIndex].cmd = executed + 1]_vars

\* No published command is out of the sight of the xHC: where it finds no
\* valid TRB, link included, everything issued has been run.
NothingHidden == ~stale /\ pc # "enqueue" /\ ~Valid(hwIndex) => executed = cmd

\* WaitForChangeEvent never sleeps through the event: when it is blocked on the
\* wait queue and the event has happened, the wake-up is still to come.
NoLostWakeup ==
  waitAt = "block" /\ asserted /\ EventChanged => hpc \in {"wakeRet", "wakeStop"}

\* WaitForCMD returns, even when the xHC never answers or never stops.
CallReturns == pc \in InCall ~> pc \notin InCall

\* "wipe its callback, so &ret does not get overrun" (Command.cpp:136): the
\* completion routine only stores through the &ret of the call in progress.
RetNeverOverrun == [][StoreRet => hParam = cmd /\ pc \in InCall]_vars

=============================================================================

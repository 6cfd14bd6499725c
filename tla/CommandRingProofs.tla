-------------------------- MODULE CommandRingProofs --------------------------
(***************************************************************************)
(* Theorems about CommandRing, for every ring size and every bound: type     *)
(* correctness, no call leaves its &ret in the callback table, a wake-up is  *)
(* never lost, the xHC runs each command once and in order, none is hidden   *)
(* from it, and the result of a call is that of its own command.             *)
(***************************************************************************)
EXTENDS CommandRing, TLAPS

USE NumTRBsAssumption, MaxCmdsAssumption, MaxResetsAssumption

\* The index EnqueCMD moves to is a command slot, never the link TRB.
LEMMA NextEnqueueInSlots == \A i \in Slots : NextEnqueue(i) \in Slots
BY DEF Slots, NextEnqueue

\* The index DoCMDCompletion moves to is a command slot as well.
LEMMA NextDequeueInSlots == \A i \in Slots : NextDequeue(i) \in Slots
BY DEF Slots, NextDequeue

\* What taking the oldest event off the event ring leaves, and what adding one gives.
LEMMA EventQueue ==
  /\ <<>> \in Seq(Event)
  /\ \A q \in Seq(Event) :
       /\ q # <<>> => Head(q) \in Event /\ Tail(q) \in Seq(Event)
       /\ \A e \in Event : Append(q, e) \in Seq(Event)
OBVIOUS

\* The events the xHC posts are well formed.
LEMMA EventTypes ==
  /\ \A i \in Slots, c \in 0 .. MaxCmds : Completion(i, c) \in Event
  /\ \A i \in 0 .. Link : Stopped(i) \in Event
BY DEF Completion, Stopped, Event

TRBTable      == [0 .. Link -> [cmd: 0 .. MaxCmds, cycle: 0 .. 1]]
CallbackTable == [Slots -> [func: BOOLEAN, param: 0 .. MaxCmds]]

\* The ring keeps its type under the stores of EnqueCMD.
LEMMA TRBStores ==
  ASSUME NEW f \in TRBTable, NEW i \in 0 .. Link, NEW c \in 0 .. MaxCmds, NEW y \in 0 .. 1
  PROVE  /\ [f EXCEPT ![i] = [cmd |-> c, cycle |-> y]] \in TRBTable
         /\ [f EXCEPT ![i].cycle = y] \in TRBTable
BY DEF TRBTable

\* The wipe of WaitForCMD and the clearing by DoCMDCompletion keep the callback table one.
LEMMA CallbackStores ==
  ASSUME NEW f \in CallbackTable, NEW i \in Slots
  PROVE  /\ [f EXCEPT ![i].func = FALSE] \in CallbackTable
         /\ [f EXCEPT ![i].param = 0] \in CallbackTable
         /\ [f EXCEPT ![i] = NoCallback] \in CallbackTable
<1>1. NoCallback \in [func: BOOLEAN, param: 0 .. MaxCmds]
  BY DEF NoCallback
<1>2. [f EXCEPT ![i] = NoCallback] \in CallbackTable
  BY <1>1 DEF CallbackTable
<1>3. [f EXCEPT ![i].func = FALSE] \in CallbackTable
  BY DEF CallbackTable
<1>4. [f EXCEPT ![i].param = 0] \in CallbackTable
  BY DEF CallbackTable
<1> QED BY <1>2, <1>3, <1>4

\* What InitCMDRing writes.
LEMMA EmptyTables ==
  /\ EmptyTRBs \in TRBTable /\ EmptyCallbacks \in CallbackTable
  /\ 0 \in Slots /\ 0 \in 0 .. Link /\ Link \in 0 .. Link /\ Slots \subseteq 0 .. Link
<1>1. NoCallback \in [func: BOOLEAN, param: 0 .. MaxCmds]
  BY DEF NoCallback
<1>2. EmptyCallbacks \in CallbackTable
  BY <1>1 DEF EmptyCallbacks, CallbackTable
<1>3. EmptyTRBs \in TRBTable
  BY DEF EmptyTRBs, TRBTable
<1> QED BY <1>2, <1>3 DEF Slots, Link

\* Types hold of every reachable state: in particular the indices never leave
\* the command slots and the callback table is only indexed inside its bounds.
THEOREM TypeCorrect == Spec => []TypeOK
<1>1. Init => TypeOK
  <2> SUFFICES ASSUME Init PROVE TypeOK
    OBVIOUS
  <2>1. trbs \in TRBTable /\ callbacks \in CallbackTable
    BY EmptyTables DEF Init
  <2>2. enqueueIndex \in Slots /\ dequeueIndex \in Slots /\ prevIndex \in Slots
        /\ hwIndex \in 0 .. Link
    BY EmptyTables DEF Init
  <2>3. cycleState \in 0 .. 1 /\ hwCycle \in 0 .. 1 /\ cmd \in 0 .. MaxCmds
        /\ ret \in 0 .. MaxCmds /\ hParam \in 0 .. MaxCmds /\ executed \in 0 .. MaxCmds
        /\ resets \in 0 .. MaxResets
    BY DEF Init, Pending
  <2>4. stopPending \in BOOLEAN /\ asserted \in BOOLEAN /\ hFunc \in BOOLEAN
        /\ hwRunning \in BOOLEAN /\ hwStop \in BOOLEAN /\ gone \in BOOLEAN /\ stale \in BOOLEAN
    BY Zenon DEF Init
  <2>5. pc = "idle" /\ waitAt = "none" /\ hpc = "idle" /\ hEvent = NoEvent /\ events = <<>>
    BY DEF Init
  <2>6. RingType /\ HistType
    BY <2>1, <2>2, <2>3, <2>4 DEF RingType, HistType, TRBTable, CallbackTable
  <2>7. ClientType /\ HandlerType /\ HwType
    BY <2>2, <2>3, <2>4, <2>5 DEF ClientType, HandlerType, HwType, PcStates
  <2> QED BY <2>6, <2>7 DEF TypeOK
<1>2. TypeOK /\ [Next]_vars => TypeOK'
  <2> SUFFICES ASSUME TypeOK, [Next]_vars PROVE TypeOK'
    OBVIOUS
  <2> USE DEF TypeOK
  <2>a. UNCHANGED ringVars => RingType'
    BY DEF ringVars, RingType
  <2>b. UNCHANGED clientVars => ClientType'
    BY DEF clientVars, ClientType
  <2>c. UNCHANGED handlerVars => HandlerType'
    BY DEF handlerVars, HandlerType
  <2>d. UNCHANGED hwVars => HwType'
    BY DEF hwVars, HwType
  <2>e. UNCHANGED histVars => HistType'
    BY DEF histVars, HistType
  <2>f. Idle => HandlerType'
    <3>1. Idle => hpc' = "idle" /\ hEvent' = NoEvent
      BY DEF Idle
    <3>2. Idle => hFunc' \in BOOLEAN
      BY DEF Idle
    <3>3. Idle => hParam' \in 0 .. MaxCmds
      BY DEF Idle
    <3> QED BY <3>1, <3>2, <3>3 DEF HandlerType
  <2>1. CASE Enqueue
    <3>1. RingType'
      BY <2>1 DEF Enqueue, RingType, ClientType
    <3>2. ClientType'
      BY <2>1 DEF Enqueue, RingType, ClientType, PcStates, Waiting, Pending
    <3> QED BY <2>1, <3>1, <3>2, <2>c, <2>d, <2>e DEF Enqueue
  <2>2. CASE Publish
    <3>1. NextEnqueue(enqueueIndex) \in Slots /\ 0 \in Slots /\ 1 - cycleState \in 0 .. 1
      BY NextEnqueueInSlots DEF RingType, Slots
    <3>2. trbs' \in [0 .. Link -> [cmd: 0 .. MaxCmds, cycle: 0 .. 1]]
      <4> DEFINE written == [trbs EXCEPT ![enqueueIndex] = [cmd |-> cmd, cycle |-> cycleState]]
      <4>1. written \in TRBTable
        BY TRBStores, EmptyTables DEF RingType, ClientType, TRBTable
      <4>2. [written EXCEPT ![Link].cycle = cycleState] \in TRBTable
        BY <4>1, TRBStores, EmptyTables DEF RingType
      <4> HIDE DEF written
      <4>3. trbs' = written \/ trbs' = [written EXCEPT ![Link].cycle = cycleState]
        BY <2>2 DEF Publish, written, LinkCycle
      <4> QED BY <4>1, <4>2, <4>3 DEF TRBTable
    <3>3. RingType'
      BY <2>2, <3>1, <3>2 DEF Publish, LinkCycle, RingType
    <3>4. ClientType'
      BY <2>2 DEF Publish, ClientType, PcStates, Waiting
    <3>5. HwType'
      BY <2>2 DEF Publish, HwType
    <3> QED BY <2>2, <3>3, <3>4, <3>5, <2>c, <2>e DEF Publish
  <2>3. CASE AssertWait
    <3>1. ClientType'
      BY <2>3 DEF AssertWait, ClientType
    <3> QED BY <2>3, <3>1, <2>a, <2>c, <2>d, <2>e DEF AssertWait
  <2>4. CASE Recheck \/ Awakened \/ TimedOut
    <3>1. RingType'
      BY <2>4 DEF Recheck, Awakened, TimedOut, AfterWait, RingType
    <3>2. ClientType'
      BY <2>4 DEF Recheck, Awakened, TimedOut, AfterWait, ClientType, PcStates, Waiting
    <3> QED BY <2>4, <3>1, <3>2, <2>c, <2>d, <2>e DEF Recheck, Awakened, TimedOut
  <2>5. CASE CommandAbort \/ CommandStop
    <3>1. RingType'
      BY <2>5 DEF CommandAbort, CommandStop, RequestStop, RingType
    <3>2. ClientType'
      BY <2>5 DEF CommandAbort, CommandStop, RequestStop, ClientType, PcStates, Waiting
    <3>3. HwType'
      BY <2>5 DEF CommandAbort, CommandStop, RequestStop, HwType
    <3> QED BY <2>5, <3>1, <3>2, <3>3, <2>c, <2>e DEF CommandAbort, CommandStop
  <2>6. CASE LastLook
    <3>1. ClientType'
      BY <2>6 DEF LastLook, ClientType, PcStates, Waiting
    <3> QED BY <2>6, <3>1, <2>a, <2>c, <2>d, <2>e DEF LastLook
  <2>7. CASE WipeFunc \/ WipeParam
    <3>1. RingType'
      <4>0. callbacks \in CallbackTable /\ prevIndex \in Slots
        BY DEF RingType, ClientType, CallbackTable
      <4>1. callbacks' \in CallbackTable
        BY <2>7, <4>0, CallbackStores DEF WipeFunc, WipeParam
      <4> QED BY <2>7, <4>1 DEF WipeFunc, WipeParam, RingType, CallbackTable
    <3>2. ClientType'
      BY <2>7 DEF WipeFunc, WipeParam, ClientType, PcStates, Waiting
    <3> QED BY <2>7, <3>1, <3>2, <2>c, <2>d, <2>e DEF WipeFunc, WipeParam
  <2>8. CASE Restart \/ Resume
    <3>1. HaltedAndReset
      BY <2>8 DEF Restart, Resume
    <3>2. RingType' /\ hwIndex' = 0 /\ hwCycle' = 1
      <4>1. InitCMDRing
        BY <3>1 DEF HaltedAndReset
      <4>2. trbs' \in TRBTable /\ callbacks' \in CallbackTable
        BY <4>1, EmptyTables DEF InitCMDRing, WipedTRBs
      <4>3. enqueueIndex' = 0 /\ dequeueIndex' = 0 /\ cycleState' \in 0 .. 1
            /\ hwIndex' = 0 /\ hwCycle' = 1
        BY <4>1 DEF InitCMDRing
      <4>4. stopPending' \in BOOLEAN
        BY <4>1 DEF InitCMDRing
      <4> QED BY <4>2, <4>3, <4>4, EmptyTables DEF RingType, TRBTable, CallbackTable
    <3>3. ClientType'
      BY <2>8, <3>1 DEF Restart, Resume, HaltedAndReset, ClientType, PcStates, Waiting
    <3>4. HwType'
      <4>1. hwRunning' \in BOOLEAN /\ hwStop' \in BOOLEAN /\ gone' \in BOOLEAN
        BY <3>1 DEF HaltedAndReset, HwType
      <4>2. events' \in Seq(Event)
        BY <2>8, EventQueue DEF Restart, Resume, HwType
      <4> QED BY <3>2, <4>1, <4>2, EmptyTables DEF HwType
    <3>5. HistType'
      <4>1. executed' \in 0 .. MaxCmds /\ resets' \in 0 .. MaxResets
        BY <3>1 DEF HaltedAndReset, HistType, ClientType
      <4>2. stale' \in BOOLEAN
        BY <2>8, Zenon DEF Restart, Resume, HistType
      <4> QED BY <4>1, <4>2 DEF HistType
    <3>6. HandlerType'
      BY <3>1, <2>c DEF HaltedAndReset
    <3> QED BY <3>2, <3>3, <3>4, <3>5, <3>6
  <2>9. CASE TakeCompletion
    <3>1. Head(events) \in Event /\ Tail(events) \in Seq(Event)
      BY <2>9, EventQueue DEF TakeCompletion, TakeEvent, HwType
    <3>2. Head(events).index \in Slots
      BY <2>9, <3>1 DEF TakeCompletion, Event
    <3>3. HandlerType'
      BY <2>9, <3>1, <3>2 DEF TakeCompletion, HandlerType, RingType
    <3>4. HwType'
      BY <2>9, <3>1 DEF TakeCompletion, TakeEvent, HwType
    <3> QED BY <2>9, <3>3, <3>4, <2>a, <2>b, <2>e DEF TakeCompletion
  <2>10. CASE CopyParam
    <3>1. HandlerType'
      BY <2>10 DEF CopyParam, HandlerType, RingType
    <3> QED BY <2>10, <3>1, <2>a, <2>b, <2>d, <2>e DEF CopyParam
  <2>11. CASE ClearEntry
    <3>1. NextDequeue(hEvent.index) \in Slots
      BY <2>11, NextDequeueInSlots DEF ClearEntry, HandlerType
    <3>2. RingType'
      <4>1. callbacks' \in CallbackTable
        BY <2>11, CallbackStores DEF ClearEntry, RingType, HandlerType, CallbackTable
      <4> QED BY <2>11, <3>1, <4>1 DEF ClearEntry, RingType, CallbackTable
    <3>3. HandlerType'
      BY <2>11, <2>f DEF ClearEntry, HandlerType
    <3> QED BY <2>11, <3>2, <3>3, <2>b, <2>d, <2>e DEF ClearEntry
  <2>12. CASE StoreRet
    <3>1. hEvent.cmd \in 0 .. MaxCmds
      BY DEF HandlerType, Event, NoEvent
    <3>2. ClientType'
      BY <2>12, <3>1 DEF StoreRet, ClientType
    <3>3. HandlerType'
      BY <2>12 DEF StoreRet, HandlerType
    <3> QED BY <2>12, <3>2, <3>3, <2>a, <2>d, <2>e DEF StoreRet
  <2>13. CASE WakeRet \/ WakeStop
    <3>1. ClientType'
      BY <2>13 DEF WakeRet, WakeStop, ClientType, ringVars
    <3> QED BY <2>13, <3>1, <2>a, <2>d, <2>e, <2>f DEF WakeRet, WakeStop
  <2>14. CASE TakeStopped
    <3>1. Head(events) \in Event /\ Tail(events) \in Seq(Event)
      BY <2>14, EventQueue DEF TakeStopped, TakeEvent, HwType
    <3>2. Head(events).index \in Slots
      BY <2>14, <3>1 DEF TakeStopped, Event, Slots, Link
    <3>3. RingType'
      BY <2>14, <3>2 DEF TakeStopped, RingType
    <3>4. HandlerType'
      BY <2>14, <3>1 DEF TakeStopped, HandlerType
    <3>5. HwType'
      BY <2>14, <3>1 DEF TakeStopped, TakeEvent, HwType
    <3> QED BY <2>14, <3>3, <3>4, <3>5, <2>b, <2>e DEF TakeStopped
  <2>15. CASE RefuseStopped
    <3>1. Tail(events) \in Seq(Event)
      BY <2>15, EventQueue DEF RefuseStopped, TakeEvent, HwType
    <3>2. HwType'
      BY <2>15, <3>1 DEF RefuseStopped, TakeEvent, HwType
    <3> QED BY <2>15, <3>2, <2>a, <2>b, <2>c, <2>e DEF RefuseStopped
  <2>16. CASE HwExecute
    <3>1. hwIndex \in Slots /\ hwIndex + 1 \in 0 .. Link
      BY <2>16 DEF HwExecute, HwType, Slots, Link
    <3>2. trbs[hwIndex].cmd \in 0 .. MaxCmds
      BY <3>1 DEF RingType, Slots, Link
    <3>3. events' \in Seq(Event)
      BY <2>16, <3>1, <3>2, EventTypes, EventQueue DEF HwExecute, HwType
    <3>4. HwType'
      BY <2>16, <3>1, <3>3 DEF HwExecute, HwType
    <3>5. HistType'
      BY <2>16, <3>2 DEF HwExecute, HistType
    <3> QED BY <2>16, <3>4, <3>5, <2>a, <2>b, <2>c DEF HwExecute
  <2>17. CASE HwFollowLink
    <3>1. HwType'
      BY <2>17 DEF HwFollowLink, HwType, Link
    <3> QED BY <2>17, <3>1, <2>a, <2>b, <2>c, <2>e DEF HwFollowLink
  <2>18. CASE HwStopRing
    <3>1. events' \in Seq(Event)
      BY <2>18, EventTypes, EventQueue DEF HwStopRing, HwType
    <3>2. HwType'
      BY <2>18, <3>1 DEF HwStopRing, HwType
    <3> QED BY <2>18, <3>2, <2>a, <2>b, <2>c, <2>e DEF HwStopRing
  <2>19. CASE Vanish
    <3>1. HwType'
      BY <2>19 DEF Vanish, HwType
    <3> QED BY <2>19, <3>1, <2>a, <2>b, <2>c, <2>e DEF Vanish
  <2>20. CASE UNCHANGED vars
    BY <2>20, <2>a, <2>b, <2>c, <2>d, <2>e DEF vars
  <2> QED BY <2>1, <2>2, <2>3, <2>4, <2>5, <2>6, <2>7, <2>8, <2>9, <2>10, <2>11, <2>12,
             <2>13, <2>14, <2>15, <2>16, <2>17, <2>18, <2>19, <2>20
          DEF Next, Client, Wait, Power, Handler, Xhc
<1> QED BY <1>1, <1>2, PTL DEF Spec

-----------------------------------------------------------------------------
\* The invariant behind NoDanglingCallback holds of every reachable state.
\* A copy of the callback that the interrupt took may outlive the call: its
\* parameter is then smaller than the number of any later command, which is why
\* hParam is related to cmd and not only to the table.
THEOREM CallbackDiscipline == Spec => []CallbackInv
<1>1. Init => CallbackInv
  BY DEF Init, CallbackInv, NoDanglingCallback, EmptyCallbacks, NoCallback, InCall, Pending
<1>2. TypeOK /\ CallbackInv /\ [Next]_vars => CallbackInv'
  <2> SUFFICES ASSUME TypeOK, CallbackInv, [Next]_vars PROVE CallbackInv'
    OBVIOUS
  <2> USE DEF CallbackInv, NoDanglingCallback
  <2>a. /\ callbacks \in CallbackTable /\ prevIndex \in Slots /\ enqueueIndex \in Slots
        /\ cmd \in Nat /\ hParam \in Nat /\ ret \in Nat
        /\ hpc \in {"copyParam", "clear"} => hEvent.index \in Slots
    BY DEF TypeOK, RingType, ClientType, HandlerType, CallbackTable
  <2>b. pc \notin InCall => \A i \in Slots : callbacks[i].param = 0
    OBVIOUS
  <2>c. pc \in InCall /\ callbacks[prevIndex].param = 0 => \A i \in Slots : callbacks[i].param = 0
    BY <2>a
  <2>1. CASE Enqueue
    <3>1. pc \notin InCall /\ cmd' = cmd + 1 /\ ret' = Pending /\ prevIndex' = enqueueIndex
          /\ pc' = "enqueue" /\ UNCHANGED <<hpc, hEvent, hParam>>
      BY <2>1 DEF Enqueue, InCall, handlerVars
    <3>2. callbacks' = [callbacks EXCEPT ![enqueueIndex] = [func |-> TRUE, param |-> cmd + 1]]
      BY <2>1 DEF Enqueue
    <3>3. \A i \in Slots : callbacks'[i].param = IF i = enqueueIndex THEN cmd + 1 ELSE 0
      BY <2>a, <2>b, <3>1, <3>2 DEF CallbackTable
    <3> QED BY <2>a, <3>1, <3>3 DEF InCall
  <2>2. CASE Publish \/ AssertWait \/ CommandAbort
    <3>1. pc \in InCall <=> pc' \in InCall
      BY <2>2 DEF Publish, AssertWait, CommandAbort, RequestStop, InCall
    <3>2. UNCHANGED <<callbacks, cmd, prevIndex, ret, hpc, hEvent, hParam>>
      BY <2>2 DEF Publish, AssertWait, CommandAbort, ringVars, handlerVars
    <3> QED BY <3>1, <3>2
  <2>3. CASE Recheck \/ Awakened \/ TimedOut
    <3>1. UNCHANGED <<callbacks, cmd, prevIndex, ret, hpc, hEvent, hParam>>
      BY <2>3 DEF Recheck, Awakened, TimedOut, handlerVars
    <3>2. pc' = pc \/ AfterWait
      BY <2>3 DEF Recheck, Awakened, TimedOut
    <3>3. pc \in Waiting
      BY <2>3 DEF TypeOK, ClientType, Recheck, Awakened, TimedOut, ChangedBefore
    <3>4. pc' \in InCall => pc \in InCall
      BY <3>2, <3>3 DEF AfterWait, InCall, Waiting
    <3>5. pc \in InCall /\ pc' \notin InCall => ret # Pending
      BY <3>2, <3>3 DEF AfterWait, InCall, Waiting
    <3>6. CASE pc \in InCall /\ pc' \notin InCall
      BY <2>c, <3>1, <3>5, <3>6
    <3>7. CASE ~(pc \in InCall /\ pc' \notin InCall)
      BY <3>1, <3>4, <3>7
    <3> QED BY <3>6, <3>7
  <2>4. CASE CommandStop
    <3>1. pc \notin InCall /\ pc' \notin InCall
      BY <2>4 DEF CommandStop, RequestStop, InCall
    <3>2. UNCHANGED <<callbacks, cmd, prevIndex, ret, hpc, hEvent, hParam>>
      BY <2>4 DEF CommandStop, handlerVars
    <3> QED BY <3>1, <3>2
  <2>5. CASE LastLook
    <3>1. UNCHANGED <<callbacks, cmd, prevIndex, ret, hpc, hEvent, hParam>>
      BY <2>5 DEF LastLook, ringVars, handlerVars
    <3>2. pc \in InCall /\ (pc' \notin InCall => ret # Pending)
      BY <2>5 DEF LastLook, MustWipe, InCall
    <3> QED BY <2>c, <3>1, <3>2
  <2>6. CASE WipeFunc
    <3>1. pc \in InCall /\ pc' \in InCall /\ UNCHANGED <<cmd, prevIndex, ret, hpc, hEvent, hParam>>
      BY <2>6 DEF WipeFunc, InCall, handlerVars
    <3>2. \A i \in Slots : callbacks'[i].param = callbacks[i].param
      BY <2>6, <2>a DEF WipeFunc, CallbackTable
    <3> QED BY <2>a, <3>1, <3>2
  <2>7. CASE WipeParam
    <3>1. pc \in InCall /\ pc' \notin InCall /\ UNCHANGED <<cmd, prevIndex, ret, hpc, hEvent, hParam>>
      BY <2>7 DEF WipeParam, InCall, handlerVars
    <3>2. \A i \in Slots : callbacks'[i].param = 0
      BY <2>7, <2>a, <3>1 DEF WipeParam, CallbackTable
    <3> QED BY <3>1, <3>2
  <2>8. CASE Restart \/ Resume
    <3>1. pc' \notin InCall /\ hpc = "idle" /\ UNCHANGED <<cmd, hpc, hParam>>
          /\ callbacks' = EmptyCallbacks
      BY <2>8 DEF Restart, Resume, HaltedAndReset, InitCMDRing, InCall, handlerVars
    <3> QED BY <2>a, <3>1 DEF EmptyCallbacks, NoCallback
  <2>9. CASE TakeCompletion \/ TakeStopped \/ RefuseStopped
    <3>1. UNCHANGED <<callbacks, pc, cmd, prevIndex, ret, hParam>> /\ hpc = "idle"
          /\ hpc' \in {"idle", "copyParam", "wakeStop"}
      BY <2>9 DEF TakeCompletion, TakeStopped, RefuseStopped, TakeEvent, ringVars, clientVars,
                  handlerVars
    <3> QED BY <3>1
  <2>10. CASE CopyParam
    <3>1. /\ UNCHANGED <<callbacks, pc, cmd, prevIndex, ret, hEvent>> /\ hpc = "copyParam"
          /\ hpc' = "clear" /\ hParam' = callbacks[hEvent.index].param
      BY <2>10 DEF CopyParam, ringVars, clientVars
    <3>2. hParam' = 0 \/ (hParam' = cmd /\ hEvent.index = prevIndex)
      BY <2>a, <3>1
    <3> QED BY <2>a, <3>1, <3>2
  <2>11. CASE ClearEntry
    <3>1. UNCHANGED <<pc, cmd, prevIndex, ret>> /\ hpc = "clear"
      BY <2>11 DEF ClearEntry, clientVars
    <3>2. \/ hpc' = "idle" /\ hParam' = 0
          \/ hpc' = "call" /\ hParam' = hParam
      BY <2>11 DEF ClearEntry, Idle
    <3>3. \A i \in Slots : callbacks'[i].param = IF i = hEvent.index THEN 0 ELSE callbacks[i].param
      BY <2>11, <2>a, <3>1 DEF ClearEntry, CallbackTable, NoCallback
    <3> QED BY <2>a, <3>1, <3>2, <3>3
  <2>12. CASE StoreRet
    <3>1. UNCHANGED <<callbacks, pc, cmd, prevIndex, hParam>> /\ hpc = "call" /\ hpc' = "wakeRet"
      BY <2>12 DEF StoreRet, ringVars
    <3>2. pc \in InCall /\ ret' # ret => hParam = cmd
      BY <2>12 DEF StoreRet
    <3> QED BY <3>1, <3>2
  <2>13. CASE WakeRet \/ WakeStop
    <3>1. UNCHANGED <<callbacks, pc, cmd, prevIndex, ret>> /\ hpc' = "idle" /\ hParam' = 0
      BY <2>13 DEF WakeRet, WakeStop, Idle, ringVars
    <3> QED BY <2>a, <3>1
  <2>14. CASE Xhc \/ UNCHANGED vars
    <3>1. UNCHANGED <<callbacks, pc, cmd, prevIndex, ret, hpc, hEvent, hParam>>
      BY <2>14 DEF Xhc, HwExecute, HwFollowLink, HwStopRing, Vanish, vars, ringVars, clientVars,
                   handlerVars
    <3> QED BY <3>1
  <2> QED BY <2>1, <2>2, <2>3, <2>4, <2>5, <2>6, <2>7, <2>8, <2>9, <2>10, <2>11, <2>12, <2>13,
             <2>14
          DEF Next, Client, Wait, Power, Handler
<1> QED BY <1>1, <1>2, TypeCorrect, PTL DEF Spec

\* When WaitForCMD is over, no entry of the callback table points at its &ret.
THEOREM NoCallbackDangles == Spec => []NoDanglingCallback
<1>1. CallbackInv => NoDanglingCallback
  BY DEF CallbackInv
<1> QED BY <1>1, CallbackDiscipline, PTL

-----------------------------------------------------------------------------
(* Waiting.                                                                *)

\* NoLostWakeup with what makes it inductive: whose event the interrupt is about to announce.
WakeupInv ==
  waitAt = "block" /\ asserted =>
    /\ pc = "waitRet" /\ ret # Pending => hpc = "wakeRet" /\ hParam = cmd
    /\ pc \in {"waitAbort", "waitStop"} /\ ~stopPending => hpc = "wakeStop"

\* A thread that blocked on the kernel's wait queue is awakened for the event it waits for: the
\* look between assert_wait and thread_block closes the window in which it could be missed.
THEOREM WakeupDiscipline == Spec => []WakeupInv
<1>1. Init => WakeupInv
  BY DEF Init, WakeupInv
<1>2. TypeOK /\ WakeupInv /\ [Next]_vars => WakeupInv'
  <2> SUFFICES ASSUME TypeOK, WakeupInv, [Next]_vars PROVE WakeupInv'
    OBVIOUS
  <2> USE DEF WakeupInv
  <2>a. waitAt # "none" => pc \in Waiting
    BY DEF TypeOK, ClientType
  <2>1. CASE Enqueue \/ Publish \/ AssertWait \/ CommandAbort \/ CommandStop \/ LastLook \/ WipeFunc \/ WipeParam
             \/ Restart \/ Resume
    <3>1. waitAt' # "block"
      BY <2>1, <2>a DEF Enqueue, Publish, AssertWait, CommandAbort, CommandStop, RequestStop, LastLook, WipeFunc,
                        WipeParam, Restart, Resume, HaltedAndReset, Waiting
    <3> QED BY <3>1
  <2>2. CASE Recheck
    <3>1. waitAt' = "block" => /\ ~ChangedBefore /\ UNCHANGED <<pc, ret>>
                              /\ (stopPending' <=> stopPending)
      BY <2>2 DEF Recheck, AfterWait
    <3>2. pc \in Waiting
      BY <2>2, <2>a DEF Recheck
    <3> QED BY <3>1, <3>2 DEF ChangedBefore, EventChanged, Waiting
  <2>3. CASE Awakened \/ TimedOut
    <3>1. waitAt' # "block"
      BY <2>3 DEF Awakened, TimedOut, AfterWait
    <3> QED BY <3>1
  <2>4. CASE TakeCompletion \/ CopyParam \/ ClearEntry \/ RefuseStopped
    <3>1. /\ hpc \notin {"wakeRet", "wakeStop"} /\ UNCHANGED <<waitAt, pc, ret>>
          /\ (asserted' <=> asserted) /\ (stopPending' <=> stopPending)
      BY <2>4 DEF TakeCompletion, CopyParam, ClearEntry, RefuseStopped, TakeEvent, ringVars, clientVars
    <3> QED BY <3>1
  <2>5. CASE StoreRet
    <3>1. /\ hpc = "call" /\ hpc' = "wakeRet" /\ UNCHANGED <<waitAt, pc, cmd, hParam>>
          /\ (asserted' <=> asserted) /\ (stopPending' <=> stopPending)
          /\ ret' = ret \/ hParam = cmd
      BY <2>5 DEF StoreRet, ringVars
    <3> QED BY <3>1
  <2>6. CASE WakeRet
    <3>1. /\ hpc = "wakeRet" /\ UNCHANGED <<waitAt, pc, ret>> /\ (stopPending' <=> stopPending)
          /\ asserted' => asserted /\ ~(pc = "waitRet" /\ hParam = cmd)
      BY <2>6 DEF WakeRet, ringVars
    <3> QED BY <3>1
  <2>7. CASE TakeStopped
    <3>1. /\ hpc = "idle" /\ hpc' = "wakeStop" /\ UNCHANGED <<waitAt, pc, ret>> /\ (asserted' <=> asserted)
      BY <2>7 DEF TakeStopped, TakeEvent, clientVars
    <3> QED BY <3>1
  <2>8. CASE WakeStop
    <3>1. /\ hpc = "wakeStop" /\ UNCHANGED <<waitAt, pc, ret>> /\ (stopPending' <=> stopPending)
          /\ asserted' => asserted /\ pc \notin {"waitAbort", "waitStop"}
      BY <2>8 DEF WakeStop, ringVars
    <3> QED BY <3>1
  <2>9. CASE Xhc \/ UNCHANGED vars
    <3>1. UNCHANGED <<waitAt, pc, ret, cmd, hpc, hParam>> /\ (asserted' <=> asserted) /\ (stopPending' <=> stopPending)
      BY <2>9 DEF Xhc, HwExecute, HwFollowLink, HwStopRing, Vanish, vars, ringVars, clientVars, handlerVars
    <3> QED BY <3>1
  <2> QED BY <2>1, <2>2, <2>3, <2>4, <2>5, <2>6, <2>7, <2>8, <2>9
          DEF Next, Client, Wait, Power, Handler
<1> QED BY <1>1, <1>2, TypeCorrect, PTL DEF Spec

\* WaitForChangeEvent never sleeps through its event.
THEOREM WakeupNeverLost == Spec => []NoLostWakeup
<1>1. TypeOK /\ WakeupInv => NoLostWakeup
  BY DEF TypeOK, ClientType, WakeupInv, NoLostWakeup, EventChanged, Waiting
<1> QED BY <1>1, TypeCorrect, WakeupDiscipline, PTL
-----------------------------------------------------------------------------
(* The order of the commands.                                              *)

\* The slot k commands before the one at index e; Link is also the number of command slots.
SlotBefore(e, k) == IF k <= e THEN e - k ELSE e + Link - k

\* The last command whose TRB is written, and where EnqueCMD puts the one after n, or will.
Published == IF pc = "enqueue" THEN cmd - 1 ELSE cmd
SlotAfter(n) == SlotBefore(enqueueIndex, Published - n)

\* EnqueCMD has written the slots before enqueueIndex in this lap, the others in the last one.
CyclesInv ==
  /\ \A i \in Slots : trbs[i].cycle = IF i < enqueueIndex THEN cycleState ELSE 1 - cycleState
  /\ trbs[Link].cycle = 1 - cycleState

\* No command is overwritten before the xHC has run it.
Written(i) == IF i < enqueueIndex THEN Published - (enqueueIndex - 1 - i)
                                  ELSE Published - (enqueueIndex + Link - 1 - i)
TRBsInv == \A i \in Slots : Written(i) > executed => trbs[i].cmd = Written(i)

\* The xHC is in the lap of the driver, or in the one before; what lies between the two is what
\* it has yet to run.
LapInv ==
  /\ 0 <= Published - executed /\ Published - executed <= Link - 1
  /\ \/ hwCycle = cycleState /\ Published - executed = enqueueIndex - hwIndex
     \/ hwCycle # cycleState /\ Published - executed = enqueueIndex + Link - hwIndex

\* The interrupt handles a completion whose callback is still in the table.
InTable == hpc \in {"copyParam", "clear"}

\* The events on the event ring tell, in order, of the commands after num[1] up to the last one
\* executed; dequeueIndex follows them, and EnqueCMD stays a slot behind it.
QueueAt(num) ==
  /\ num[Len(events) + 1] = executed
  /\ \A i, j \in 1 .. Len(events) + 1 : i <= j => num[i] <= num[j]
  /\ \A j \in 1 .. Len(events) :
       \/ /\ events[j].kind = "completion" /\ num[j + 1] = num[j] + 1
          /\ events[j].cmd = num[j + 1] /\ events[j].index = SlotAfter(num[j])
       \/ /\ events[j].kind = "stopped" /\ num[j + 1] = num[j]
          /\ events[j].index \in {Link, SlotAfter(num[j])}
DequeuedAt(dequeued) ==
  /\ dequeueIndex = SlotAfter(dequeued)
  /\ 0 <= dequeued /\ cmd - dequeued <= Link - 1
HandledAt(n) ==
  /\ DequeuedAt(IF InTable THEN n - 1 ELSE n)
  /\ InTable => hEvent.cmd = n /\ hEvent.index = dequeueIndex
QueueInv == \E num \in [1 .. Len(events) + 1 -> Nat] : QueueAt(num) /\ HandledAt(num[1])

\* The copy of the callback that the interrupt holds is of the command it handles.
OwnInv ==
  /\ pc \in InCall => prevIndex = SlotAfter(cmd - 1)
  /\ hpc \in {"clear", "call"} /\ hParam = cmd /\ pc \in InCall => hEvent.cmd = cmd
  /\ ret # Pending => ret = cmd

RingInv == ~stale => CyclesInv /\ TRBsInv /\ LapInv /\ QueueInv /\ OwnInv

\* Counting slots back from where EnqueCMD writes: the count moves on with EnqueCMD, and
\* DoCMDCompletion moves the other end.
LEMMA SlotArithmetic ==
  ASSUME NEW e \in Slots, NEW k \in 0 .. Link - 1
  PROVE  /\ SlotBefore(e, k) \in Slots
         /\ SlotBefore(e, 0) = e
         /\ k < Link - 1 => SlotBefore(NextEnqueue(e), k + 1) = SlotBefore(e, k)
         /\ k > 0 => NextDequeue(SlotBefore(e, k)) = SlotBefore(e, k - 1)
         /\ NextEnqueue(e) = SlotBefore(e, Link - 1)
BY DEF Slots, Link, SlotBefore, NextEnqueue, NextDequeue

\* Within a lap the slots differ.
LEMMA SlotInjective ==
  ASSUME NEW e \in Slots, NEW k \in 0 .. Link - 1, NEW l \in 0 .. Link - 1,
         SlotBefore(e, k) = SlotBefore(e, l)
  PROVE  k = l
BY DEF Slots, Link, SlotBefore

\* The event ring as a sequence.
LEMMA EventOrder ==
  ASSUME NEW q \in Seq(Event)
  PROVE  /\ Len(q) \in Nat
         /\ q = <<>> <=> Len(q) = 0
         /\ q # <<>> => /\ Head(q) = q[1] /\ Len(Tail(q)) = Len(q) - 1
                        /\ \A j \in 1 .. Len(q) - 1 : Tail(q)[j] = q[j + 1]
         /\ \A e \in Event : /\ Len(Append(q, e)) = Len(q) + 1 /\ Append(q, e)[Len(q) + 1] = e
                             /\ \A j \in 1 .. Len(q) : Append(q, e)[j] = q[j]
OBVIOUS

\* The numbers that describe the ring.
LEMMA RingNumbers ==
  ASSUME TypeOK, CallbackInv
  PROVE  /\ Link \in Nat /\ Link >= 2 /\ Slots = 0 .. Link - 1
         /\ enqueueIndex \in Nat /\ enqueueIndex <= Link - 1 /\ dequeueIndex \in Nat /\ prevIndex \in Nat
         /\ cycleState \in 0 .. 1 /\ hwIndex \in Nat /\ hwIndex <= Link /\ hwCycle \in 0 .. 1
         /\ cmd \in Nat /\ executed \in Nat /\ hParam \in Nat /\ ret \in Nat
         /\ Published \in Nat /\ Published = IF pc = "enqueue" THEN cmd - 1 ELSE cmd
BY DEF TypeOK, RingType, ClientType, HandlerType, HwType, HistType, Slots, Link, Published, CallbackInv, InCall

\* Nothing takes an event left on the event ring across a sleep back.
LEMMA StaleStays == [Next]_vars /\ stale => stale'
BY Zenon DEF Next, Client, Wait, Power, Handler, Xhc, Enqueue, Publish, AssertWait, Recheck, Awakened,
             TimedOut, CommandAbort, CommandStop, LastLook, WipeFunc, WipeParam, Restart, Resume,
             TakeCompletion, CopyParam, ClearEntry, StoreRet, WakeRet, TakeStopped, WakeStop, RefuseStopped,
             HwExecute, HwFollowLink, HwStopRing, Vanish, vars, histVars

\* The steps that neither issue, publish nor run a command, nor handle an event.
Elsewhere == \/ Wait \/ CommandAbort \/ CommandStop \/ LastLook \/ WipeFunc \/ WipeParam \/ WakeRet \/ WakeStop
             \/ Vanish \/ UNCHANGED vars

\* They leave the order of the ring alone.
LEMMA ElsewhereFrame ==
  ASSUME TypeOK, Elsewhere
  PROVE  /\ trbs' = trbs /\ enqueueIndex' = enqueueIndex /\ dequeueIndex' = dequeueIndex
         /\ cycleState' = cycleState /\ hwIndex' = hwIndex /\ hwCycle' = hwCycle
         /\ events' = events /\ executed' = executed /\ cmd' = cmd /\ prevIndex' = prevIndex /\ ret' = ret
         /\ Published' = Published
         /\ pc' \in InCall => pc \in InCall
         /\ \/ UNCHANGED <<hpc, hEvent, hParam>>
            \/ hpc \in {"wakeRet", "wakeStop"} /\ hpc' = "idle"
<1> USE DEF Elsewhere, Wait, AssertWait, Recheck, Awakened, TimedOut, CommandAbort, CommandStop, LastLook, WipeFunc,
            WipeParam, WakeRet, WakeStop, Vanish, vars
<1>1. UNCHANGED <<trbs, enqueueIndex, dequeueIndex, cycleState, cmd, prevIndex, ret, hwIndex, hwCycle,
                  events, executed>>
  BY DEF ringVars, clientVars, hwVars, histVars
<1>2. /\ (pc' # "enqueue" /\ pc # "enqueue") \/ pc' = pc
      /\ pc' \in InCall => pc \in InCall
  BY DEF AfterWait, RequestStop, ringVars, clientVars, TypeOK, ClientType, Waiting, InCall
<1>3. \/ UNCHANGED <<hpc, hEvent, hParam>>
      \/ hpc \in {"wakeRet", "wakeStop"} /\ hpc' = "idle"
  BY DEF Idle, handlerVars
<1> QED BY <1>1, <1>2, <1>3 DEF Published

\* EnqCMD stays a slot behind DoCMDCompletion.
LEMMA Distance ==
  ASSUME TypeOK, CallbackInv, QueueInv
  PROVE  cmd - executed <= Link - 1
<1>1. PICK num \in [1 .. Len(events) + 1 -> Nat] : QueueAt(num) /\ HandledAt(num[1])
  BY DEF QueueInv
<1>2. Len(events) \in Nat
  BY EventOrder DEF TypeOK, HwType
<1>3. num[1] <= executed /\ num[1] \in Nat
  BY <1>1, <1>2 DEF QueueAt
<1>4. cmd - num[1] <= Link - 1
  BY SMTT(30), <1>1, <1>3, RingNumbers DEF HandledAt, DequeuedAt
<1> QED BY SMTT(30), <1>3, <1>4, RingNumbers

\* A command that is written goes to a free slot, and what the xHC has yet to run stays in valid
\* TRBs.
LEMMA LapStep ==
  ASSUME TypeOK, CallbackInv, CyclesInv, TRBsInv, LapInv, QueueInv, [Next]_vars
  PROVE  CyclesInv' /\ TRBsInv' /\ LapInv'
<1>n. /\ Link \in Nat /\ Link >= 2 /\ Slots = 0 .. Link - 1
      /\ enqueueIndex \in Nat /\ enqueueIndex <= Link - 1
      /\ cycleState \in 0 .. 1 /\ hwIndex \in Nat /\ hwIndex <= Link /\ hwCycle \in 0 .. 1
      /\ cmd \in Nat /\ executed \in Nat
      /\ Published \in Nat /\ Published = IF pc = "enqueue" THEN cmd - 1 ELSE cmd
  BY RingNumbers
<1>w. \A i \in Slots : Written(i) \in Int
  BY <1>n DEF Written
<1>f. ASSUME trbs' = trbs, enqueueIndex' = enqueueIndex, cycleState' = cycleState, Published' = Published,
             executed' \in Nat, executed' >= executed
      PROVE  CyclesInv' /\ TRBsInv'
  <2>1. CyclesInv'
    BY <1>f DEF CyclesInv
  <2>2. \A i \in Slots : Written(i)' = Written(i)
    BY <1>f DEF Written
  <2>3. TRBsInv'
    BY <1>f, <1>w, <1>n, <2>2 DEF TRBsInv
  <2> QED BY <2>1, <2>3
<1>1. CASE Restart \/ Resume
  <2>1. pc' = "idle" /\ executed' = cmd /\ cmd' = cmd /\ InitCMDRing
    BY <1>1 DEF Restart, Resume, HaltedAndReset
  <2>2. Published' = cmd
    BY <2>1 DEF Published
  <2> QED BY <1>n, <2>1, <2>2 DEF InitCMDRing, WipedTRBs, EmptyTRBs, CyclesInv, TRBsInv, Written, LapInv
<1>2. CASE Publish
  <2>1. /\ pc = "enqueue" /\ pc' = "waitRet" /\ enqueueIndex' = NextEnqueue(enqueueIndex)
        /\ cmd' = cmd /\ hwIndex' = hwIndex /\ hwCycle' = hwCycle /\ executed' = executed
    BY <1>2 DEF Publish, handlerVars, histVars
  <2>2. Published = cmd - 1 /\ Published' = cmd /\ Published' - executed \in 0 .. Link - 1
    BY <1>n, <2>1, Distance DEF Published, LapInv
  <2> DEFINE written == [trbs EXCEPT ![enqueueIndex] = [cmd |-> cmd, cycle |-> cycleState]]
  <2>3. written \in TRBTable /\ trbs \in TRBTable
    BY TRBStores, EmptyTables DEF TRBTable, TypeOK, RingType, ClientType
  <2>4. /\ \A i \in Slots : i # enqueueIndex => written[i] = trbs[i]
        /\ written[enqueueIndex].cmd = cmd /\ written[enqueueIndex].cycle = cycleState
        /\ written[Link] = trbs[Link]
    BY <1>n, <2>3 DEF TRBTable
  <2>5. \/ /\ NextEnqueue(enqueueIndex) # 0 /\ trbs' = written /\ cycleState' = cycleState
        \/ /\ NextEnqueue(enqueueIndex) = 0 /\ trbs' = [written EXCEPT ![Link].cycle = cycleState]
           /\ cycleState' = 1 - cycleState
    BY <1>2 DEF Publish, LinkCycle
  <2> HIDE DEF written
  <2>6. CASE NextEnqueue(enqueueIndex) # 0
    <3>1. trbs' = written /\ cycleState' = cycleState /\ enqueueIndex' = enqueueIndex + 1
      BY <2>1, <2>5, <2>6 DEF NextEnqueue
    <3>2. CyclesInv'
      <4>1. \A i \in Slots : written[i].cycle = IF i < enqueueIndex + 1 THEN cycleState ELSE 1 - cycleState
        BY <1>n, <2>4 DEF CyclesInv
      <4> QED BY <2>4, <3>1, <4>1 DEF CyclesInv
    <3>3. TRBsInv'
      BY <1>n, <2>1, <2>2, <2>4, <3>1 DEF TRBsInv, Written
    <3>4. LapInv'
      BY <1>n, <2>1, <2>2, <3>1 DEF LapInv
    <3> QED BY <3>2, <3>3, <3>4
  <2>7. CASE NextEnqueue(enqueueIndex) = 0
    <3>1. cycleState' = 1 - cycleState /\ enqueueIndex' = 0 /\ enqueueIndex = Link - 1
      BY SMTT(30), <1>n, <2>1, <2>5, <2>7 DEF NextEnqueue, Link
    <3>2. (\A i \in Slots : trbs'[i] = written[i]) /\ trbs'[Link].cycle = cycleState
      <4>1. trbs' = [written EXCEPT ![Link].cycle = cycleState]
        BY <2>5, <2>7
      <4> QED BY <2>3, <4>1 DEF TRBTable, Slots, Link
    <3>3. CyclesInv'
      BY <1>n, <2>4, <3>1, <3>2 DEF CyclesInv
    <3>4. TRBsInv'
      BY <1>n, <2>1, <2>2, <2>4, <3>1, <3>2 DEF TRBsInv, Written
    <3>5. LapInv'
      BY <1>n, <2>1, <2>2, <3>1 DEF LapInv
    <3> QED BY <3>3, <3>4, <3>5
  <2> QED BY <2>6, <2>7
<1>3. CASE HwExecute
  <2>1. /\ hwIndex # Link /\ trbs[hwIndex].cycle = hwCycle
        /\ executed' = trbs[hwIndex].cmd /\ hwIndex' = hwIndex + 1
        /\ trbs' = trbs /\ enqueueIndex' = enqueueIndex /\ cycleState' = cycleState /\ hwCycle' = hwCycle
        /\ Published' = Published
    BY <1>3 DEF HwExecute, Valid, ringVars, clientVars, Published
  <2>2. hwIndex \in Slots /\ executed < Published /\ Written(hwIndex) = executed + 1
    BY SMTT(30), <1>n, <2>1 DEF LapInv, CyclesInv, Written
  <2>3. executed' = executed + 1
    BY <1>n, <2>1, <2>2 DEF TRBsInv
  <2>4. LapInv'
    BY <1>n, <2>1, <2>2, <2>3 DEF LapInv
  <2> QED BY <1>f, <1>n, <2>1, <2>3, <2>4
<1>4. CASE HwFollowLink
  <2>1. /\ hwIndex = Link /\ hwIndex' = 0 /\ hwCycle' = 1 - hwCycle /\ trbs[Link].cycle = hwCycle
        /\ trbs' = trbs /\ enqueueIndex' = enqueueIndex /\ cycleState' = cycleState /\ executed' = executed
        /\ Published' = Published
    BY <1>4 DEF HwFollowLink, Valid, ringVars, clientVars, histVars, Published
  <2>2. LapInv'
    BY <1>n, <2>1 DEF LapInv, CyclesInv
  <2> QED BY <1>f, <1>n, <2>1, <2>2
<1>5. CASE Enqueue \/ HwStopRing \/ TakeCompletion \/ ClearEntry \/ TakeStopped \/ RefuseStopped \/ CopyParam
           \/ StoreRet \/ Elsewhere
  <2>1. CASE Enqueue
    <3>1. pc = "idle" /\ pc' = "enqueue" /\ cmd' = cmd + 1
          /\ UNCHANGED <<trbs, enqueueIndex, cycleState, hwVars, histVars>>
      BY <2>1 DEF Enqueue
    <3>2. Published' = Published
      BY <1>n, <3>1 DEF Published
    <3> QED BY <1>f, <1>n, <3>1, <3>2 DEF LapInv, hwVars, histVars
  <2>2. CASE HwStopRing \/ TakeCompletion \/ ClearEntry \/ TakeStopped \/ RefuseStopped \/ CopyParam \/ StoreRet
             \/ Elsewhere
    <3>1. /\ trbs' = trbs /\ enqueueIndex' = enqueueIndex /\ cycleState' = cycleState /\ executed' = executed
          /\ hwIndex' = hwIndex /\ hwCycle' = hwCycle /\ Published' = Published
      BY <2>2, ElsewhereFrame DEF HwStopRing, TakeCompletion, ClearEntry, TakeStopped, RefuseStopped, TakeEvent,
           CopyParam, StoreRet, ringVars, clientVars, hwVars, histVars, Published
    <3> QED BY <1>f, <1>n, <3>1 DEF LapInv
  <2> QED BY <1>5, <2>1, <2>2
<1> QED BY <1>1, <1>2, <1>3, <1>4, <1>5 DEF Next, Client, Power, Handler, Xhc, Elsewhere

\* The events on the event ring stay in order, and dequeueIndex follows them.
LEMMA QueueStep ==
  ASSUME TypeOK, CallbackInv, CyclesInv, TRBsInv, LapInv, QueueInv, [Next]_vars, ~stale'
  PROVE  QueueInv'
<1>n. /\ Link \in Nat /\ Link >= 2 /\ Slots = 0 .. Link - 1
      /\ enqueueIndex \in Nat /\ enqueueIndex <= Link - 1 /\ enqueueIndex \in Slots
      /\ cycleState \in 0 .. 1 /\ hwIndex \in Nat /\ hwIndex <= Link /\ hwCycle \in 0 .. 1
      /\ cmd \in Nat /\ executed \in Nat
      /\ Published \in Nat /\ Published = IF pc = "enqueue" THEN cmd - 1 ELSE cmd
  BY RingNumbers DEF TypeOK, RingType
<1>l. executed \in Nat /\ 0 <= Published - executed
  BY <1>n DEF LapInv
<1>e. /\ events \in Seq(Event) /\ Len(events) \in Nat
  BY EventOrder DEF TypeOK, HwType
<1>w. PICK num \in [1 .. Len(events) + 1 -> Nat] : QueueAt(num) /\ HandledAt(num[1])
  BY DEF QueueInv
<1>o. \A j \in 1 .. Len(events) + 1 : num[j] \in Nat /\ num[1] <= num[j] /\ num[j] <= executed
  BY <1>e, <1>w DEF QueueAt
<1>1. CASE Restart \/ Resume
  <2>1. events' = <<>> /\ pc' = "idle" /\ hpc' = "idle" /\ executed' = cmd /\ cmd' = cmd /\ InitCMDRing
    BY <1>1 DEF Restart, Resume, HaltedAndReset, handlerVars
  <2>2. Len(events') = 0 /\ Published' = cmd /\ SlotAfter(cmd)' = 0 /\ dequeueIndex' = 0 /\ ~InTable'
    BY <1>n, <2>1 DEF InitCMDRing, SlotAfter, SlotBefore, InTable, Published
  <2>3. PICK none \in [1 .. 1 -> Nat] : none[1] = cmd
    <3>1. [j \in 1 .. 1 |-> cmd] \in [1 .. 1 -> Nat]
      BY <1>n
    <3>2. [j \in 1 .. 1 |-> cmd][1] = cmd
      OBVIOUS
    <3> QED BY <3>1, <3>2
  <2>4. QueueAt(none)'
    BY <1>n, <2>1, <2>2, <2>3 DEF QueueAt
  <2>5. HandledAt(none[1])'
    BY <1>n, <2>1, <2>2, <2>3 DEF HandledAt, DequeuedAt, SlotAfter
  <2> QED BY <2>2, <2>3, <2>4, <2>5 DEF QueueInv
<1>2. CASE Enqueue
  <2>1. /\ pc = "idle" /\ pc' = "enqueue" /\ cmd' = cmd + 1 /\ NextEnqueue(enqueueIndex) # dequeueIndex
        /\ enqueueIndex' = enqueueIndex /\ dequeueIndex' = dequeueIndex /\ hpc' = hpc /\ hEvent' = hEvent
        /\ events' = events /\ executed' = executed
    BY <1>2 DEF Enqueue, RingFull, handlerVars, hwVars, histVars
  <2>2. Published' = Published /\ (InTable' <=> InTable)
    BY <1>n, <2>1 DEF Published, InTable
  <2> DEFINE dequeued == IF InTable THEN num[1] - 1 ELSE num[1]
  <2>3. DequeuedAt(dequeued) /\ dequeued \in Nat /\ cmd - dequeued >= 0
    BY <1>n, <1>l, <1>e, <1>o, <1>w, <2>1 DEF HandledAt, DequeuedAt
  <2>4. cmd - dequeued # Link - 1
    BY <1>n, <2>1, <2>3, SlotArithmetic DEF DequeuedAt, SlotAfter
  <2>5. DequeuedAt(dequeued)'
    BY SMTT(30), <1>n, <2>1, <2>2, <2>3, <2>4 DEF DequeuedAt, SlotAfter
  <2>6. HandledAt(num[1])'
    BY <1>w, <2>1, <2>2, <2>5 DEF HandledAt
  <2>7. QueueAt(num)'
    BY <1>w, <2>1, <2>2 DEF QueueAt, SlotAfter
  <2> QED BY <2>1, <2>6, <2>7 DEF QueueInv
<1>3. CASE Publish
  <2>1. /\ pc = "enqueue" /\ pc' = "waitRet" /\ enqueueIndex' = NextEnqueue(enqueueIndex)
        /\ cmd' = cmd /\ dequeueIndex' = dequeueIndex /\ hpc' = hpc /\ hEvent' = hEvent
        /\ events' = events /\ executed' = executed
    BY <1>3 DEF Publish, handlerVars, histVars
  <2>2. Published = cmd - 1 /\ Published' = cmd /\ (InTable' <=> InTable)
    BY <1>n, <2>1 DEF Published, InTable
  <2>3. \A n \in Nat : n <= Published /\ Published - n < Link - 1 => SlotAfter(n)' = SlotAfter(n)
    BY <1>n, <2>1, <2>2, SlotArithmetic DEF SlotAfter
  <2> DEFINE dequeued == IF InTable THEN num[1] - 1 ELSE num[1]
  <2>4. dequeued \in Nat /\ cmd - dequeued <= Link - 1 /\ dequeued <= Published
    BY <1>n, <1>l, <1>e, <1>o, <1>w DEF HandledAt, DequeuedAt
  <2>5. \A j \in 1 .. Len(events) + 1 : SlotAfter(num[j])' = SlotAfter(num[j])
    <3>1. ASSUME NEW j \in 1 .. Len(events) + 1 PROVE num[j] <= Published /\ Published - num[j] < Link - 1
      BY SMTT(30), <1>n, <1>l, <1>e, <1>o, <2>2, <2>4
    <3> QED BY <1>o, <2>3, <3>1
  <2>6. SlotAfter(dequeued)' = SlotAfter(dequeued)
    BY <1>n, <2>2, <2>3, <2>4, <2>1 DEF InTable, SlotAfter
  <2>7. QueueAt(num)'
    BY <1>e, <1>w, <2>1, <2>5 DEF QueueAt
  <2>8. HandledAt(num[1])'
    BY <1>w, <2>1, <2>2, <2>6 DEF HandledAt, DequeuedAt, InTable, SlotAfter
  <2> QED BY <2>1, <2>7, <2>8 DEF QueueInv
<1>4. CASE HwExecute \/ HwStopRing
  <2>1. /\ enqueueIndex' = enqueueIndex /\ dequeueIndex' = dequeueIndex /\ cmd' = cmd
        /\ hpc' = hpc /\ hEvent' = hEvent /\ Published' = Published
    BY <1>4 DEF HwExecute, HwStopRing, ringVars, clientVars, handlerVars, Published
  <2>2. PICK e \in Event :
          /\ events' = Append(events, e)
          /\ \/ /\ e.kind = "completion" /\ executed' = executed + 1
                /\ e.cmd = executed + 1 /\ e.index = SlotAfter(executed)
             \/ /\ e.kind = "stopped" /\ executed' = executed /\ e.index \in {Link, SlotAfter(executed)}
    <3>1. CASE HwExecute
      <4>1. /\ hwIndex # Link /\ trbs[hwIndex].cycle = hwCycle
            /\ events' = Append(events, Completion(hwIndex, trbs[hwIndex].cmd))
            /\ executed' = trbs[hwIndex].cmd
        BY <3>1 DEF HwExecute, Valid
      <4>2. hwIndex \in Slots /\ executed < Published /\ Written(hwIndex) = executed + 1
            /\ hwIndex = SlotAfter(executed)
        BY <1>n, <4>1 DEF LapInv, CyclesInv, Written, SlotAfter, SlotBefore
      <4>3. executed' = executed + 1 /\ trbs[hwIndex].cmd = executed + 1
        BY <1>n, <4>1, <4>2 DEF TRBsInv
      <4>4. Completion(hwIndex, executed + 1) \in Event
        BY SMTT(30), <1>n, <4>2, <4>3, EventTypes DEF TypeOK, RingType
      <4> QED BY <4>1, <4>2, <4>3, <4>4 DEF Completion
    <3>2. CASE HwStopRing
      <4>1. events' = Append(events, Stopped(hwIndex)) /\ executed' = executed
        BY <3>2 DEF HwStopRing, histVars
      <4>2. hwIndex \in {Link, SlotAfter(executed)}
        BY <1>n DEF LapInv, SlotAfter, SlotBefore
      <4>3. Stopped(hwIndex) \in Event
        BY <1>n, EventTypes
      <4> QED BY <4>1, <4>2, <4>3 DEF Stopped
    <3> QED BY <1>4, <3>1, <3>2
  <2>3. /\ Len(events') = Len(events) + 1 /\ events'[Len(events) + 1] = e
        /\ \A j \in 1 .. Len(events) : events'[j] = events[j]
    BY <1>e, <2>2, EventOrder
  <2>4. PICK more \in [1 .. Len(events) + 2 -> Nat] :
          more[Len(events) + 2] = executed' /\ \A j \in 1 .. Len(events) + 1 : more[j] = num[j]
    <3>1. executed' \in Nat
      BY <1>n, <2>2
    <3> DEFINE more == [j \in 1 .. Len(events) + 2 |-> IF j = Len(events) + 2 THEN executed' ELSE num[j]]
    <3>2. more \in [1 .. Len(events) + 2 -> Nat]
      BY <1>e, <3>1
    <3>3. more[Len(events) + 2] = executed' /\ \A j \in 1 .. Len(events) + 1 : more[j] = num[j]
      BY <1>e
    <3> QED BY <3>2, <3>3
  <2>5. \A n \in Nat : SlotAfter(n)' = SlotAfter(n)
    BY <2>1 DEF SlotAfter
  <2>6. executed = num[Len(events) + 1] /\ executed <= executed'
    BY <1>n, <1>w, <2>2 DEF QueueAt
  <2>7. \A i, j \in 1 .. Len(events') + 1 : i <= j => more[i] <= more[j]
    <3> SUFFICES ASSUME NEW i \in 1 .. Len(events) + 2, NEW j \in 1 .. Len(events) + 2, i <= j
                 PROVE  more[i] <= more[j]
      BY <1>e, <2>3
    <3>1. CASE j \in 1 .. Len(events) + 1
      BY <1>e, <1>w, <2>4, <3>1 DEF QueueAt
    <3>2. CASE j = Len(events) + 2 /\ i \in 1 .. Len(events) + 1
      <4>1. more[i] = num[i] /\ num[i] <= executed /\ num[i] \in Nat
        BY <1>o, <2>4, <3>2
      <4> QED BY <1>n, <2>2, <2>4, <2>6, <3>2, <4>1
    <3>3. CASE j = Len(events) + 2 /\ i = Len(events) + 2
      BY <1>e, <2>4, <3>3
    <3> QED BY <1>e, <3>1, <3>2, <3>3
  <2>8. ASSUME NEW j \in 1 .. Len(events')
        PROVE  \/ /\ events'[j].kind = "completion" /\ more[j + 1] = more[j] + 1
                  /\ events'[j].cmd = more[j + 1] /\ events'[j].index = SlotAfter(more[j])'
               \/ /\ events'[j].kind = "stopped" /\ more[j + 1] = more[j]
                  /\ events'[j].index \in {Link, SlotAfter(more[j])'}
    <3>1. CASE j \in 1 .. Len(events)
      <4>1. /\ events'[j] = events[j] /\ more[j] = num[j] /\ more[j + 1] = num[j + 1]
            /\ SlotAfter(more[j])' = SlotAfter(num[j])
        BY <1>e, <1>o, <2>3, <2>4, <2>5, <3>1
      <4> QED BY <1>w, <3>1, <4>1 DEF QueueAt
    <3>2. CASE j = Len(events) + 1
      <4>1. /\ events'[j] = e /\ more[j] = executed /\ more[j + 1] = executed'
            /\ SlotAfter(more[j])' = SlotAfter(executed)
        BY <1>e, <1>n, <2>3, <2>4, <2>5, <2>6, <3>2
      <4> QED BY <2>2, <4>1
    <3> QED BY <1>e, <2>3, <3>1, <3>2
  <2>9. QueueAt(more)'
    BY <1>e, <2>3, <2>4, <2>7, <2>8 DEF QueueAt
  <2>10. HandledAt(more[1])'
    <3>1. more[1] = num[1]
      BY <1>e, <2>4
    <3> QED BY <1>w, <2>1, <3>1 DEF HandledAt, DequeuedAt, SlotAfter, InTable
  <2>11. more \in [1 .. Len(events') + 1 -> Nat]
    BY <1>e, <2>3
  <2> QED BY <2>9, <2>10, <2>11 DEF QueueInv
<1>5. CASE TakeCompletion \/ TakeStopped \/ RefuseStopped
  <2>1. /\ events # <<>> /\ events' = Tail(events) /\ hpc = "idle"
        /\ enqueueIndex' = enqueueIndex /\ cmd' = cmd /\ executed' = executed /\ Published' = Published
    BY <1>5 DEF TakeCompletion, TakeStopped, RefuseStopped, TakeEvent, ringVars, clientVars, histVars, Published
  <2>2. /\ Len(events) >= 1 /\ Len(events') = Len(events) - 1 /\ Head(events) = events[1]
        /\ \A j \in 1 .. Len(events) - 1 : events'[j] = events[j + 1]
    BY <1>e, <2>1, EventOrder
  <2>3. PICK less \in [1 .. Len(events) -> Nat] : \A j \in 1 .. Len(events) : less[j] = num[j + 1]
    <3>1. [j \in 1 .. Len(events) |-> num[j + 1]] \in [1 .. Len(events) -> Nat]
      BY <1>e
    <3> QED BY <3>1
  <2>4. \A n \in Nat : SlotAfter(n)' = SlotAfter(n)
    BY <2>1 DEF SlotAfter
  <2>5. QueueAt(less)'
    <3>1. less[Len(events') + 1] = executed'
      BY <1>e, <1>w, <2>1, <2>2, <2>3 DEF QueueAt
    <3>2. \A i, j \in 1 .. Len(events') + 1 : i <= j => less[i] <= less[j]
      <4>1. ASSUME NEW i \in 1 .. Len(events), NEW j \in 1 .. Len(events), i <= j
            PROVE  num[i + 1] <= num[j + 1]
        BY <1>e, <1>w, <4>1 DEF QueueAt
      <4> QED BY SMTT(30), <1>e, <2>2, <2>3, <4>1
    <3>3. ASSUME NEW j \in 1 .. Len(events')
          PROVE  \/ /\ events'[j].kind = "completion" /\ less[j + 1] = less[j] + 1
                    /\ events'[j].cmd = less[j + 1] /\ events'[j].index = SlotAfter(less[j])'
                 \/ /\ events'[j].kind = "stopped" /\ less[j + 1] = less[j]
                    /\ events'[j].index \in {Link, SlotAfter(less[j])'}
      <4>0. j + 1 \in 1 .. Len(events) /\ j \in 1 .. Len(events) - 1 /\ j \in 1 .. Len(events) /\ j + 1 + 1 = j + 2
        BY <1>e, <2>2
      <4>1. /\ events'[j] = events[j + 1] /\ less[j] = num[j + 1] /\ less[j + 1] = num[j + 2]
            /\ SlotAfter(less[j])' = SlotAfter(num[j + 1]) /\ j + 1 \in 1 .. Len(events)
        BY <1>e, <1>o, <2>2, <2>3, <2>4, <4>0
      <4>2. \/ /\ events[j + 1].kind = "completion" /\ num[j + 1 + 1] = num[j + 1] + 1
               /\ events[j + 1].cmd = num[j + 1 + 1] /\ events[j + 1].index = SlotAfter(num[j + 1])
            \/ /\ events[j + 1].kind = "stopped" /\ num[j + 1 + 1] = num[j + 1]
               /\ events[j + 1].index \in {Link, SlotAfter(num[j + 1])}
        BY <1>w, <4>1 DEF QueueAt
      <4>3. j + 1 + 1 = j + 2
        BY <1>e, <2>2
      <4> QED BY <4>1, <4>2, <4>3
    <3> QED BY <3>1, <3>2, <3>3 DEF QueueAt
  <2>6. /\ less[1] = num[2] /\ num[1] \in Nat /\ num[2] \in Nat /\ num[2] = num[1 + 1]
        /\ DequeuedAt(num[1])
    BY <1>e, <1>o, <1>w, <2>1, <2>2, <2>3 DEF HandledAt, InTable
  <2>7. \/ /\ events[1].kind = "completion" /\ num[2] = num[1] + 1
           /\ events[1].cmd = num[2] /\ events[1].index = dequeueIndex
        \/ /\ events[1].kind = "stopped" /\ num[2] = num[1] /\ events[1].index \in {Link, dequeueIndex}
    BY SMTT(30), <1>e, <1>w, <2>2, <2>6 DEF QueueAt, DequeuedAt
  <2>8. HandledAt(less[1])'
    <3>1. CASE TakeCompletion
      <4>1. dequeueIndex' = dequeueIndex /\ hEvent' = events[1] /\ hpc' = "copyParam" /\ events[1].kind = "completion"
        BY <2>2, <3>1 DEF TakeCompletion, ringVars
      <4> QED BY <2>1, <2>4, <2>6, <2>7, <4>1 DEF HandledAt, DequeuedAt, SlotAfter, InTable
    <3>2. CASE TakeStopped \/ RefuseStopped
      <4>1. dequeueIndex' = dequeueIndex /\ hpc' \in {"idle", "wakeStop"} /\ num[2] = num[1]
        BY <2>1, <2>2, <2>7, <3>2 DEF TakeStopped, RefuseStopped, ringVars, handlerVars
      <4> QED BY <2>1, <2>4, <2>6, <4>1 DEF HandledAt, DequeuedAt, SlotAfter, InTable
    <3> QED BY <1>5, <3>1, <3>2
  <2>9. less \in [1 .. Len(events') + 1 -> Nat]
    BY <1>e, <2>2
  <2> QED BY <2>5, <2>8, <2>9 DEF QueueInv
<1>6. CASE ClearEntry
  <2>1. /\ hpc = "clear" /\ hpc' \in {"idle", "call"} /\ dequeueIndex' = NextDequeue(hEvent.index)
        /\ enqueueIndex' = enqueueIndex /\ cmd' = cmd /\ executed' = executed /\ events' = events
        /\ Published' = Published
    BY <1>6 DEF ClearEntry, Idle, clientVars, hwVars, histVars, Published
  <2>2. /\ num[1] \in Nat /\ num[1] <= executed /\ DequeuedAt(num[1] - 1) /\ hEvent.index = dequeueIndex
    BY <1>e, <1>o, <1>w, <2>1 DEF HandledAt, InTable
  <2>3. NextDequeue(dequeueIndex) = SlotAfter(num[1])
    <3>1. dequeueIndex = SlotBefore(enqueueIndex, Published - (num[1] - 1))
          /\ Published - (num[1] - 1) \in 1 .. Link - 1
      BY <1>n, <1>l, <2>2 DEF DequeuedAt, SlotAfter
    <3>2. \A k \in 1 .. Link - 1 : NextDequeue(SlotBefore(enqueueIndex, k)) = SlotBefore(enqueueIndex, k - 1)
      BY <1>n, SlotArithmetic
    <3>3. (Published - (num[1] - 1)) - 1 = Published - num[1]
      BY <1>n, <2>2
    <3> QED BY <3>1, <3>2, <3>3 DEF SlotAfter
  <2>4. HandledAt(num[1])'
    BY <1>n, <2>1, <2>2, <2>3 DEF HandledAt, DequeuedAt, SlotAfter, InTable
  <2>5. QueueAt(num)'
    BY <1>w, <2>1 DEF QueueAt, SlotAfter
  <2> QED BY <2>1, <2>4, <2>5 DEF QueueInv
<1>7. CASE HwFollowLink \/ CopyParam \/ StoreRet \/ Elsewhere
  <2>1. /\ events' = events /\ executed' = executed /\ dequeueIndex' = dequeueIndex
        /\ enqueueIndex' = enqueueIndex /\ cmd' = cmd /\ Published' = Published
        /\ (InTable' <=> InTable) /\ (InTable => hEvent' = hEvent)
    BY <1>7, ElsewhereFrame DEF HwFollowLink, CopyParam, StoreRet, ringVars, clientVars, handlerVars, hwVars, histVars,
         Published, InTable
  <2>2. HandledAt(num[1])'
    BY <1>w, <2>1 DEF HandledAt, DequeuedAt, SlotAfter
  <2>3. QueueAt(num)'
    BY <1>w, <2>1 DEF QueueAt, SlotAfter
  <2> QED BY <2>1, <2>2, <2>3 DEF QueueInv
<1> QED BY <1>1, <1>2, <1>3, <1>4, <1>5, <1>6, <1>7 DEF Next, Client, Power, Handler, Xhc, Elsewhere

\* The interrupt that holds the callback of the call in progress handles the completion of its
\* command, whatever was on the ring before it.
LEMMA OwnStep ==
  ASSUME TypeOK, CallbackInv, LapInv, QueueInv, OwnInv, [Next]_vars
  PROVE  OwnInv'
<1>n. /\ Link \in Nat /\ Link >= 2 /\ Slots = 0 .. Link - 1 /\ enqueueIndex \in Slots
      /\ cmd \in Nat /\ executed \in Nat /\ hParam \in Nat /\ ret \in Nat
      /\ Published \in Nat /\ Published = IF pc = "enqueue" THEN cmd - 1 ELSE cmd
  BY RingNumbers DEF TypeOK, RingType
<1>1. CASE Restart \/ Resume
  <2>1. pc' = "idle" /\ hpc' = "idle" /\ ret' = ret /\ cmd' = cmd
    BY <1>1 DEF Restart, Resume, HaltedAndReset, handlerVars
  <2> QED BY <2>1 DEF OwnInv, InCall
<1>2. CASE Enqueue
  <2>1. /\ pc = "idle" /\ pc' = "enqueue" /\ cmd' = cmd + 1 /\ ret' = Pending /\ prevIndex' = enqueueIndex
        /\ enqueueIndex' = enqueueIndex /\ hParam' = hParam
    BY <1>2 DEF Enqueue, handlerVars
  <2>2. Published' - (cmd' - 1) = 0 /\ hParam' # cmd'
    BY <1>n, <2>1 DEF CallbackInv, Published
  <2>3. SlotBefore(enqueueIndex', Published' - (cmd' - 1)) = enqueueIndex'
    BY <1>n, <2>1, <2>2, SlotArithmetic
  <2> QED BY <2>1, <2>2, <2>3 DEF OwnInv, SlotAfter
<1>3. CASE Publish
  <2>1. /\ pc = "enqueue" /\ pc' = "waitRet" /\ enqueueIndex' = NextEnqueue(enqueueIndex)
        /\ UNCHANGED <<cmd, prevIndex, ret, hpc, hEvent, hParam>>
    BY <1>3 DEF Publish, handlerVars
  <2>2. Published - (cmd - 1) = 0 /\ Published' - (cmd' - 1) = 1
    BY <1>n, <2>1 DEF Published
  <2>3. SlotBefore(NextEnqueue(enqueueIndex), 1) = SlotBefore(enqueueIndex, 0)
    BY <1>n DEF SlotBefore, NextEnqueue, Link
  <2> QED BY <2>1, <2>2, <2>3 DEF OwnInv, SlotAfter, InCall
<1>4. CASE CopyParam
  <2>1. /\ UNCHANGED <<enqueueIndex, pc, cmd, prevIndex, ret, hEvent>> /\ Published' = Published
        /\ hpc = "copyParam" /\ hpc' = "clear" /\ hParam' = callbacks[hEvent.index].param
    BY <1>4 DEF CopyParam, ringVars, clientVars, Published
  <2>2. ASSUME hParam' = cmd, pc \in InCall PROVE hEvent.cmd = cmd
    <3>1. hEvent.index = prevIndex
      BY <2>1, <2>2 DEF TypeOK, HandlerType, CallbackInv, NoDanglingCallback
    <3>2. PICK n \in Nat : /\ hEvent.cmd = n /\ n <= executed /\ hEvent.index = SlotAfter(n - 1)
                           /\ 0 <= n - 1 /\ cmd - (n - 1) <= Link - 1
      <4>1. PICK num \in [1 .. Len(events) + 1 -> Nat] : QueueAt(num) /\ HandledAt(num[1])
        BY DEF QueueInv
      <4>2. Len(events) \in Nat
        BY EventOrder DEF TypeOK, HwType
      <4>3. num[1] \in Nat /\ num[1] <= executed
        BY <4>1, <4>2 DEF QueueAt
      <4> QED BY <2>1, <4>1, <4>3 DEF HandledAt, DequeuedAt, InTable
    <3>3. prevIndex = SlotAfter(cmd - 1) /\ n <= Published
      BY <1>n, <2>2, <3>2 DEF OwnInv, LapInv
    <3>4. Published - (n - 1) \in 0 .. Link - 1 /\ Published - (cmd - 1) \in 0 .. Link - 1
      BY <1>n, <3>2, <3>3
    <3>5. Published - (n - 1) = Published - (cmd - 1)
      BY <1>n, <3>1, <3>2, <3>3, <3>4, SlotInjective DEF SlotAfter
    <3> QED BY <1>n, <3>2, <3>5
  <2> QED BY <2>1, <2>2 DEF OwnInv, SlotAfter
<1>5. CASE StoreRet
  <2>1. /\ UNCHANGED <<enqueueIndex, pc, cmd, prevIndex>> /\ Published' = Published /\ hpc = "call" /\ hpc' = "wakeRet"
        /\ ret' = IF hParam = cmd /\ pc \in InCall THEN hEvent.cmd ELSE ret
    BY <1>5 DEF StoreRet, ringVars, Published
  <2> QED BY <2>1 DEF OwnInv, SlotAfter
<1>6. CASE Xhc \/ TakeCompletion \/ ClearEntry \/ TakeStopped \/ RefuseStopped
  <2>1. /\ UNCHANGED <<enqueueIndex, pc, cmd, prevIndex, ret>> /\ Published' = Published
        /\ hpc' \in {"clear", "call"} => hpc \in {"clear", "call"} /\ UNCHANGED <<hEvent, hParam>>
    BY <1>6 DEF Xhc, HwExecute, HwFollowLink, HwStopRing, Vanish, TakeCompletion, ClearEntry, TakeStopped,
         RefuseStopped, TakeEvent, Idle, ringVars, clientVars, handlerVars, Published
  <2> QED BY <2>1 DEF OwnInv, SlotAfter
<1>7. CASE Elsewhere
  <2> QED BY <1>7, ElsewhereFrame DEF OwnInv, SlotAfter
<1> QED BY <1>1, <1>2, <1>3, <1>4, <1>5, <1>6, <1>7 DEF Next, Client, Power, Handler, Elsewhere

\* The order of the ring holds of every reachable state: what the xHC has yet to run is exactly
\* what EnqueCMD wrote since, in valid TRBs; what DoCMDCompletion has yet to see is on the event
\* ring in that order.
THEOREM RingOrder == Spec => []RingInv
<1>1. Init => RingInv
  <2> SUFFICES ASSUME Init PROVE RingInv
    OBVIOUS
  <2>1. CyclesInv /\ TRBsInv /\ LapInv /\ OwnInv
    BY DEF Init, CyclesInv, TRBsInv, Written, LapInv, OwnInv, Published, EmptyTRBs, Slots, Link, InCall, Pending
  <2>2. QueueInv
    <3>1. Len(events) = 0 /\ SlotAfter(0) = 0
      BY DEF Init, SlotAfter, SlotBefore, Published
    <3> DEFINE num == [j \in 1 .. 1 |-> 0]
    <3>2. QueueAt(num) /\ HandledAt(num[1])
      BY <3>1 DEF Init, QueueAt, HandledAt, DequeuedAt, InTable, Link
    <3> QED BY <3>1, <3>2 DEF QueueInv
  <2> QED BY <2>1, <2>2 DEF RingInv
<1>2. TypeOK /\ CallbackInv /\ RingInv /\ [Next]_vars => RingInv'
  BY StaleStays, LapStep, QueueStep, OwnStep DEF RingInv
<1> QED BY <1>1, <1>2, TypeCorrect, CallbackDiscipline, PTL DEF Spec

\* No published command is out of the sight of the xHC.
THEOREM NothingEverHidden == Spec => []NothingHidden
<1>1. TypeOK /\ CallbackInv /\ RingInv => NothingHidden
  <2> SUFFICES ASSUME TypeOK, CallbackInv, RingInv, ~stale, pc # "enqueue", ~Valid(hwIndex)
               PROVE  executed = cmd
    BY DEF NothingHidden
  <2>1. CyclesInv /\ LapInv
    BY DEF RingInv
  <2>2. /\ Link \in Nat /\ Slots = 0 .. Link - 1 /\ enqueueIndex \in Nat /\ enqueueIndex <= Link - 1
        /\ cycleState \in 0 .. 1 /\ hwIndex \in Nat /\ hwIndex <= Link /\ hwCycle \in 0 .. 1
        /\ executed \in Nat /\ Published = cmd /\ cmd \in Nat
    BY RingNumbers
  <2> QED BY <2>1, <2>2 DEF CyclesInv, LapInv, Valid
<1> QED BY <1>1, TypeCorrect, CallbackDiscipline, RingOrder, PTL

\* A call only ever gets the result of its own command.
THEOREM ResultAlwaysOwn == Spec => []ResultIsOwn
<1>1. RingInv => ResultIsOwn
  BY DEF RingInv, OwnInv, ResultIsOwn
<1> QED BY <1>1, RingOrder, PTL

\* The xHC runs every command once and in the order of issue.
THEOREM RunsOnceInOrder == Spec => HwRunsOnceInOrder
<1>1. TypeOK /\ CallbackInv /\ RingInv => [HwExecute /\ ~stale => trbs[hwIndex].cmd = executed + 1]_vars
  <2> SUFFICES ASSUME TypeOK, CallbackInv, RingInv, HwExecute, ~stale
               PROVE  trbs[hwIndex].cmd = executed + 1
    OBVIOUS
  <2>1. CyclesInv /\ LapInv /\ TRBsInv
    BY DEF RingInv
  <2>2. hwIndex # Link /\ trbs[hwIndex].cycle = hwCycle
    BY DEF HwExecute, Valid
  <2>3. hwIndex \in Slots /\ executed < Published /\ Written(hwIndex) = executed + 1
    <3>1. /\ Link \in Nat /\ Slots = 0 .. Link - 1 /\ enqueueIndex \in Nat /\ enqueueIndex <= Link - 1
          /\ cycleState \in 0 .. 1 /\ hwIndex \in Nat /\ hwIndex <= Link /\ hwCycle \in 0 .. 1
          /\ executed \in Nat /\ Published \in Nat
      BY RingNumbers
    <3> QED BY <2>1, <2>2, <3>1 DEF LapInv, CyclesInv, Written
  <2>4. executed \in Nat
    BY RingNumbers
  <2> QED BY <2>1, <2>3, <2>4 DEF TRBsInv
<1> QED BY <1>1, TypeCorrect, CallbackDiscipline, RingOrder, PTL DEF HwRunsOnceInOrder

=============================================================================

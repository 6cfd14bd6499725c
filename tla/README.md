# GenericUSBXHCI in TLA+

Specifications of GenericUSBXHCI, a USB 3 host controller (xHCI) driver for OS X: the rings
it shares with the controller, the interrupt filter and work loop that serve them,
asynchronous and isochronous endpoints, streams, device addresses, the root hub's ports and
the life of the controller. Each module is written from the driver's source; TLC checks
small instances, TLAPS proves the theorems for every value of the constants.

## 1. The system

The driver talks to the controller (the *xHC*) through rings of 16-byte entries (TRBs) in
memory. A TRB is valid when its cycle bit equals the consumer's cycle state, which flips
each time the ring is gone round; a link TRB at the end of a ring leads back to its start.
Four kinds of actor work on that memory:

- **client threads**, which hold the *gate* of the work loop while they are in the driver. A
  thread that waits for a command (`WaitForCMD`) blocks *without* giving up the gate, so at
  most one thread is inside;
- **the work-loop thread**, which takes the gate to run `InterruptHandler` and the
  Completer's event source;
- **the interrupt filter** (`PrimaryInterruptFilter`), which takes no lock and runs on any
  CPU, beside all the others;
- **the xHC**, which reads the transfer and command rings and writes the event ring.

### Components

| component (source) | state | operations | talks to | hard behaviour | correct when |
|---|---|---|---|---|---|
| Command ring (`Command.cpp`) | TRBs, callback table, enqueue/dequeue index, cycle state, `stopPending` | `WaitForCMD`, `EnqueCMD`, `CommandAbort`, `CommandStop`, `InitCMDRing`, `DoCMDCompletion` | xHC; filter calls `DoCMDCompletion`; every component that issues commands | completion races time-out, abort and wipe; sleep and restart; a vanished controller | a call gets its own result, its stack is never written once it is over, commands run once and in order, no call hangs |
| Event ring, bounce queue (`Interrupts.cpp`) | both rings' indices, ERDP and EHB, the signal to the work loop | filter, `InterruptHandler`, `PollEventRing2`, `PollForCMDCompletions`, `InitEventRing` | xHC, work loop, Stop Endpoint callers | one producer and two consumers without a lock; full queue; lost interrupts | events are handled once, in order; a stop event is found by who waits for it; none is forgotten |
| Transfer ring (`Transfers.cpp`) | TRBs, indices, cycle state | `GetNextTRB`, `CloseFragment`, `PutBackTRB`, `SetTRDQPtr`, `processTransferEvent2`, re-initialisation | xHC; asynchronous and isochronous endpoints | moving a fragment over the link TRB while the xHC follows; undoing; skipping | the xHC sees every TRB once, complete and in order; there is room for what was promised; events match TDs |
| Completer (`Completer.cpp`) | active and free list, `flushing` | `AddItem`, `Flush`, `Finalize` | endpoints, its event source | completion routines add items to the list being walked | each completion called once, in order; no item lost or leaked |
| Asynchronous endpoint (`Async.cpp`) | queued, scheduled, done and free TDs | `CreateTDs`, `ScheduleTDs`, `RetireTDs`, `FlushTDs`, `Abort`, `UpdateTimeouts` | transfer ring, Completer, Stop Endpoint and Set TR Dequeue commands | time-outs against late completions, short packets, re-entrance | each request completes once |
| Isochronous transfers (`Isoch.cpp`, `Interrupts.cpp`) | `toDoList`, `tdSlots[]`, the filter's chain with its two counts, done and deferred queue | request, scheduling, completion in the filter, retiring, abort | filter, work loop, xHC | the filter moves TDs beside the work loop; late TDs, gaps, missed services | no TD lost, returned in order, success only when done, none left behind |
| Endpoints (`Endpoints.cpp`) | endpoint contexts | create, stop, quiesce, reset, time-out check | commands, transfer rings | stop races completion | a stopped endpoint's ring may be moved |
| Slots, addresses (`Slots.cpp`, `V1Overrides.cpp`, `V3Overrides.cpp`) | address mapper, device zero, slot table | create, address, remap, suspend, delete | commands, hub driver | failure half way; operations on other devices between those of an enumeration | addresses and slots one to one, routes right, no slot leaked |
| Streams (`Streams.cpp`) | stream rings sorted by address | create, sort, find, delete | transfer ring, events | a stack of fixed size; creation that fails half way | sorted within the stack, look-up right, nothing left behind |
| Root hub (`RootHub.cpp`, `V1Pure.cpp`) | change bitmaps, resume flags and timers | status, clear, reset, suspend, resume, disable | hub driver, timers, filter | bits that change between read and write; timer against poll | no change forgotten, every resume ends |
| Power, life cycle (`V1Pure.cpp`, `V3Pure.cpp`, `PwrMgmt.cpp`) | initialised, asleep, test mode; the xHC's registers | initialise, finalise, sleep, wake, restart, test mode | all components | any step fails, the xHC disappears | the xHC never runs unprogrammed |
| Micro-frame counter (`V2Overrides.cpp`) | millisecond counter, MFINDEX | `GetMicroFrameNumber` | filter | two reads that are not atomic | never goes backwards |

`PROJECT.json` lists the remaining parts (accessors, glue, diagnostics) with the reason they
are left out, and the hazards of the code, each at its line and with the properties that
cover it.

## 2. Modules

| module | models |
|---|---|
| `CommandRing` | the command ring with client, interrupt and xHC |
| `CommandRingProofs` | theorems about `CommandRing` |
| `EventRing` | event ring, bounce queue, filter, work loop, and a Stop Endpoint call |
| `EventRingProofs` | theorems about `EventRing` |
| `TransferRing` | a transfer ring, the laying out of TDs, transfer events |
| `TransferRingProofs` | theorems about `TransferRing` |
| `AsyncEndpoint` | requests, their TDs, and what takes TDs off the ring: events, time-outs, aborts |
| `AsyncEndpointProofs` | theorems about `AsyncEndpoint` |
| `Completer` | the completion lists and their event source |
| `CompletionQueue` | the abstract queue a `Completer` implements |
| `CompleterProofs` | theorems about `Completer`, and that it implements `CompletionQueue` |
| `IsochEndpoint` | an isochronous endpoint: slots, filter, done queue, scheduling, abort |
| `AddressMapper` | device zero, the address mapper, slots and their endpoints |
| `RootHubPort` | the ports of the root hub, the hub driver's requests, resume, sleep |
| `RootHubPortProofs` | theorems about `RootHubPort` |
| `Controller` | initialisation, power, restart and test mode; the micro-frame number |
| `AddressMapperProofs` | theorems about `AddressMapper`, and about `Controller` |
| `Streams` | the stream rings of an endpoint: sort, search, creation and release |
| `IsochEndpointProofs` | theorems about `IsochEndpoint`, and about `Streams` |
| `MC*` | each specification with the constants of its runs |

Variables and actions bear the names of the source where there is one. `map` in
`PROJECT.json` gives the lines each definition stands for. Definitions named `X_Something`
next to `X` are slips a change of the code might make; each property is known to tell one of
them from the code.

### CommandRing

`pc` walks through `WaitForCMD`: `enqueue` (callback registered, TRB not yet published),
`waitRet`, `abort`, `waitAbort`, `recheck`, `wipeFunc`, `wipeParam`. `waitAt` walks through
`WaitForChangeEvent`: assert the wait, look again, block. `hpc` walks through
`DoCMDCompletion`: the callback is copied in two reads, cleared, called, and the call stores
`*param` and wakes. Every store another actor can see is a step of its own; stores no other
actor reads in between are merged. A call is identified by the number of its command:
`hParam = cmd /\ pc \in InCall` says that the pointer the interrupt holds is that of the
live call.

Sleep (`CommandStop`, then `Resume` or `Restart`), removal of the controller (`Vanish`) and
the xHC's freedom to answer late, not at all, or to stop at the link TRB, are included.

The xHC runs a command only with the doorbell rung and the TRB valid, and it posts the
completion before anything else; when asked to stop it reports where it stands.

### EventRing

`fpc` is the filter (loop, copy to the bounce queue, publish the index, write ERDP, signal),
`wpc` the work loop in `PollEventRing2`, `spc` a Stop Endpoint call and its scan of the
bounce queue. The gate keeps the latter two apart except that the handler of an event may
itself issue the command (`wpc = "handled"`). The xHC posts while the ring has room and
interrupts when EHB is clear. Interrupts after a restart (`InitEventRing`) start from an
empty ring, with the bounce queue as it was.

### TransferRing

The endpoint's scheduling loop is reduced to "there may be another TD of n TRBs".
`_createTransfer` is a loop of `next` (GetNextTRB), `relink` (the link TRB written over the
first TRB of a moved fragment), `fill` (the TRB's words) and `close` (CloseFragment). TRBs
are numbered; what the xHC runs must count up by one. `suspect` marks a ring that was moved
while events of it were under way (skips after a time-out or a short packet, a refused Set
TR Dequeue): the driver keeps no defence there, `dequeueIndex` may then be anything, and the
properties do not claim otherwise. `torn` marks a TD put back after one of its fragments was
closed, which the source notes as to be done.

A short packet flushes the TDs of its request. With other requests scheduled the endpoint
runs on and the ring is left as it is (`ShortPacketRunning`, `Async.cpp:304-314`): flushed
TDs stay in `tds`, marked, until the xHC has passed them and their events, which then name
no scheduled TD, were handled. With none left it is stopped and emptied (`ShortPacket`,
315-325). What becomes of a halted endpoint (331-343) is in `AsyncEndpoint` only.

### AsyncEndpoint

One endpoint with one ring. The driver's operations (a request, a transfer event, a
time-out, an abort) hold the work-loop gate from beginning to end, through the commands they
wait for, so each is one step, and the done queue and `aborting` are only values in between.
What interleaves is the xHC: it carries out TDs while their events wait on the event ring
and the bounce queue, and a step of the driver may flush or move the ring behind their
backs. The ring is that of `TransferRing` seen from far away: a TD takes one slot, and one
slot stays free. A position counts TDs since the ring was initialised; driver and xHC see
only its index, which comes round.

`RetireAll` follows `RetireTDs` with a flush by the state of the endpoint: running with
other requests scheduled (it is let run), running with none (stopped and emptied), halted
(left to the layer above), stopped (the request's TDs are skipped). To empty a running
endpoint the driver waits for two commands with the gate held; the interrupts that complete
them bounce every event posted before, and the loop the driver is in (`while
(PollEventRing2)`, `V1Pure.cpp:967-968`, one interrupter) handles these before anything else
gets the gate. `bounced` counts them, and the other operations wait for it (`GateFree`). In
the other branches no command is waited for, and an event may come at any later time.
`CreateTransfer` includes the refusal for lack of memory that leaves TDs on the queue,
`ScheduleTDs` the TD that cannot be laid out and is put back. Time itself is left out: a
request may time out whenever the ring has not moved between two looks.

A time-out sends the xHC back to the TD behind the one that timed out, although it may have
been further on; events from before then still free slots, and the driver may lay out new
TDs over those the xHC has yet to pass again. Their cycle bit is not the xHC's, so it waits
there (`HwTransfer`). The run's ring is too small for this; the guard was missing until the
invariant below turned out not to be kept on a larger one, where the xHC carried out the
wrong TD. While `mixed` is false the driver is never two turns ahead, where the cycle bits
would agree again.

Three history variables mark what the code does not promise. `mixed`: a TD was laid out at
an index that an outstanding event still names, the ring was re-initialised with events
outstanding, or a late event made an empty ring look used, after which a request may find no
room for ever. `kept`: TDs stay on the queue although nothing is scheduled, because an abort
returns only the queued TDs of the last scheduled request, the endpoint is halted, or a
layout failed; only a new request moves them. `refused`: requests whose caller was told of
an error.

### Completer, CompletionQueue

The two linked lists are kept as the pointers they are, stale `next` fields of reused items
included, with memory blocks that may be allocated again after they are freed. A completion
routine (between `FlushOne` and `Called`) may add any number of items. `ListsPartition`
relates the pointers to the set of allocated blocks; `ImplementsQueue` maps the walk of the
active list to the abstract queue's contents.

### IsochEndpoint

TDs are numbered in the order of their frames. The filter (`fpc`) follows
`processTransferEvent`: it takes the outermost slots, looks at one slot at a time
(`FilterSkip`, `FilterTest`), builds its chain privately and publishes chain and count
together (`FilterPublish`). The other side (`gpc`) is whatever holds the gate, and ends in
`AddIsocFramesToSchedule`, here in steps: choose, leave a gap, find a slot, fill it, lay it
out, ring, allow the filter to look. Because an operation keeps the gate, even through an
abort's commands (`GateFree`), the scheduling lock is never contended, and its loss branch
is left out.

`upset` records what the properties exempt, each a thing the code does not handle: `second`
(the xHC posts a second event), `missed` (a service, after which a success stands for TDs it
skipped), `notLaid` (a TD that did not fit the ring is left in its slot), `overtaken` (a
late TD found nothing scheduled while the filter held TDs), `deaf` (a stop event clears
`tdsScheduled` with TDs in slots), `delayed` (an abort leaves `schedulingDelayed`), `orphan`
(a request refused half way), `roomUnseen` (a full slot table whose events wait on the
bounce queue), `halted` (no frame number), `restarted` (an underrun event, polled when all
TDs have been returned, resets `inSlot` and `outSlot` while the filter is still going
through the slots for a second event, `Interrupts.cpp:720-724`; the next TD it takes moves
`outSlot` on and the count of those in slots goes wrong). `NoTDLost` exempts `restarted`
only, which takes four TDs and so lies beyond the bounds of the run; it came to light when
the invariant would not become inductive.

### AddressMapper

The mapper's four arrays, device zero, and for each slot its rings and context, against what
the xHC has: state, route, address and configured endpoints of each slot. `enum` walks
through one enumeration (create the endpoint of address 0, Set Address, its status stage,
remap, delete address 0), `del` through one `UIMDeleteEndpoint`. Operations keep the gate
(`GateFree`); between them the USB family uses, suspends and deletes other devices. `Walk`
is `AddressDevice`'s climb through at most five hubs, with ports clamped to the four bits
they have in a route, and ends at a port the root hub must have. `CreateEndpoint` and
`DeconfigureEndpoint` issue Configure Endpoint; the number of contexts (`NumCtx`) shrinks
with the last endpoint. Each command and allocation may fail, Disable Slot included.

Exempt: `overwritten` (the remap takes the entry of a suspended device: `Active` is all it
tests), `notDeleted` (a device deleted while its endpoints are disabled: `UIMDeleteEndpoint`
refuses the address), `stolen` (`isBeingAddressed` outlives a failed Address Device, or
another device's status stage comes first, and address 0 is dropped under the enumeration),
`unknown` (Set Address fails after the address was mapped), `notDropped` (the result of
Configure Endpoint is ignored when an endpoint is deleted), `leftover` (a failed Configure
Endpoint leaves the ring of the endpoint, and `UIMDeleteEndpoint` does not disable a slot
that has a ring), `notDisabled` (Disable Slot failed or timed out: its result is ignored,
`V1Pure.cpp:436` and `Slots.cpp:229`, context and mapping are dropped, and the slot stays
enabled).

### RootHubPort

Every register access is apart from the next one of the same operation, for the xHC changes
the port between them: `GetRootHubPortStatus` reads, clears, and reads again (`StatusCheck`,
`StatusAgain`); `PollRead` and `PollCheck` are the work loop's look at resuming ports. A
port posts an event only when its first change bit is set. The resume timer is `armed`, then
`fired` until it has the gate. Port numbers are translated both ways, with and without the
swap of `UnXHCI.cpp`.

Exempt: `gaveUp` (a port still changing after five reads has all its bits cleared),
`flagKept` (`ControllerSleep` suspends a port whose resume ended unnoticed, and its next
wake is taken for the one under way).

### Controller

`run`, `registers`, `crcr` and `contexts` say what the xHC has been told, `held`, `slots`
and the flags what the driver believes. The family calls one method at a time (`phase`). The
reader of the micro-frame number takes its steps beside everything else.

`RunsProgrammed` exempts what the code passes over: `notSaved` (the failure of the save is
ignored), `notRestored` (the restore timed out), `notRestarted` (the restart after a restore
error failed, and success is returned), `notStopped` (the bus did not stop), `testMode`
(test mode resets the xHC, and nobody programs it again). `FrameNumberNeverGoesBack`
compares numbers taken within one run of the bus; exempt are `late` (the filter more than a
micro-frame late), `firstWrap` (the first wrap of all, which the code does not wait for
because the counter is still zero) and `torn`.

A build for 32 bits keeps the counter in two words, as the note at `V2Overrides.cpp:70-73`
says. With `SplitCounter` the filter's addition is two stores, in either order, when it
carries (`stored` is the word that is stored first), which happens every `LowWraps` wraps of
MFINDEX, 2^21 in the driver; without a carry the high word does not change, and one store is
all there is to see. The two loads of a reader are one step: what they find when the filter
stores between them is what memory holds between its two stores (`Counter`). `torn` marks a
thread that read the counter then. In a 64-bit build (`SplitCounter` FALSE) nothing is ever
torn.

### Streams

The quicksort is modelled by its steps, with partition's pointers and the stack of ranges,
over every order and spacing of pages. `FindStream` is a recursive function evaluated for
every TRB address. `UIMCreateStreams` may fail at any stream and then cleans up.

## 3. What the runs show

| run | instance | shows |
|---|---|---|
| `command_ring` | 3 slots and a link, 4 commands, 1 reset | `NoDanglingCallback`, `ResultIsOwn`, `NothingHidden`, `NoLostWakeup`, `HwRunsOnceInOrder`, `CallReturns` |
| `command_ring_overrun` | 2 commands | that `RetNeverOverrun`, the claim of the comment at `Command.cpp:136`, fails |
| `transfer_ring` | 6 slots and a link, TDs of 1 or 3 TRBs, 14 TRBs, 1 re-initialisation | `HwInOrder`, `NothingHidden`, `NothingStranded`, `FitSuffices`, `RoomWhenIdle`, `EventOfOldestTD` |
| `event_ring` | 3 entries on each queue, 3 events, 1 stop, 1 restart | `PolledInOrder`, `StopScooped`, `NoLostContinuation`, `EventsSettle` |
| `async_endpoint` | 3 slots, 2 requests of at most 3 TDs, 1 failure | `ReturnedInOrder`, `SuccessIsDone`, `NoRequestLost`, `QueueNotForgotten`, `EveryRequestReturns` |
| `async_flushed_events` | 4 slots, 3 requests of at most 2 TDs, no failure | that `FlushedEventsDiscarded`, the claim of the comment at `Async.cpp:309`, fails |
| `completer` | 3 blocks, 1 retained, 6 items | `ListsPartition`, `ImplementsQueue`, `Flushed` |
| `isoch_endpoint` | 3 slots, 3 TDs in requests of 1 or 2, 1 abort, 1 oddity | `NoTDLost`, `SuccessIsDone`, `ReturnedInOrder`, `NoTDForgotten` |
| `address_mapper` | a hub and a device behind it, 3 addresses, 3 slots, 3 enumerations, 2 endpoints created, 1 failure | `OwnSlot`, `NoSlotLost` |
| `root_hub_port` | 2 ports of each speed, one of two in use, 3 things that happen, 3 requests, 1 sleep, 2 reads | `RightPortAsked`, `NoChangeForgotten`, `NoPortLeftResuming` |
| `controller` | 32-bit build, 5 micro-frames, wrap at 2, the low word wraps every 2 wraps, 2 sleeps or restarts, 2 failures | `RunsProgrammed`, `FrameNumberNeverGoesBack` |
| `streams` | 7 streams on 8 pages, stack of 3, 3 TRBs a page, 2 calls | `StackSuffices`, `EventFindsItsStream`, `NoStreamLeftBehind` |

`CommandRing` and `TransferRing`, whose indices run over arrays with a link at the end, also
check `TypeOK`. Elsewhere a slip of type would show as an error of evaluation.

**The findings.** `WaitForCMD` wipes the callback of a command that timed out "so &ret does
not get overrun". The wipe protects the table, and the table is what `NoDanglingCallback` is
about, which holds. It does not reach the copy the interrupt made just before: when the
completion arrives after the last look at `ret`, or between copy and call, the interrupt
stores the result in a stack frame that is gone. The window is a few instructions on another
CPU, after 100 ms or 200 ms of silence.

`RetireTDs` lets a running endpoint go on after a flush, for "any events for flushed TDs are
safely discarded in processTransferEvent2". An event is discarded when no scheduled TD ends
at the index it names. That is so while the ring goes on: `EventOfOldestTD` says it of every
flushed TD. The run's counterexample moves the ring: a short packet ends a request of two
TDs while another request is scheduled, so the endpoint runs on; the xHC carries out the
second TD, too, and its event is posted; before the work loop has the gate, the client
aborts the pipe, which puts the ring back to index 0, and makes another request, whose
second TD ends at the same index. The event then returns that request with success before
the xHC has looked at it. Without an abort the ring has to come round for it.

**Bounds.** A ring with three slots is full with two commands outstanding, and four commands
wrap it, so that abandoned commands, link TRB and index reuse all meet. Seven entries are
the fewest that can hold two TDs of three TRBs with a fragment moved from either of the last
two slots (`2 * MaxTD + 1`, an assumption that the driver's 256 and 35 satisfy with room);
fourteen TRBs go round twice, so that each cycle-bit value is met from both sides. An
asynchronous ring of three slots holds two TDs, so that a request of three TDs never fits
whole, and two requests bring its indices round: flushed, late and reused indices meet; one
failure is a lost event, a refused request or a failed layout, each in every place. Event
queues of three entries hold two events and fill up. One reset, restart or re-initialisation
suffices to mix two incarnations of a ring. In `transfer_ring` the constraint `Followed`
only bounds how far a suspect ring is followed, where no property is claimed beyond types.
The completer's three blocks with one retained meet reuse, allocation, freeing and failure
of allocation.

Three slots and three isochronous TDs fill `tdSlots` (one slot stays free) and go round it;
one oddity is a late TD, a gap, a refusal, a missed service or a second event, in every
place. A hub and a device behind it have a route of two hops, and the third enumeration is a
device that comes back, or one whose slot was lost: with three slots and addresses the remap
can meet the address of a suspended device. Two endpoints besides the control endpoint are
the fewest with which deleting the last one leaves another configured. Two ports of each
speed are the fewest with which an error in the swap of port numbers shows; one of them is
used in a behaviour, since ports share only the bitmaps (and the theorems are about any
number of ports in use). Three happenings and three requests are a connection or wake, a
change that interferes, and what the hub driver does about both. Five micro-frames are two
wraps, the second of which carries into the high word; the constraint `Followed` leaves a
behaviour once the clock is exempt, which the life cycle does not depend on. Seven streams
are a full array of `2^3 - 1` on a stack of three, as the driver's 255 are of `2^8 - 1` on
nine: the assumption `2^StackSize > MaxStream` is what the driver's numbers satisfy. Eight
pages for seven rings give every order, and one gap between rings in every place.

**What is assumed of the other side.** The USB family and the hub driver are outside this
repository. `AddressMapper` assumes that one device is enumerated at a time, that a hub's
devices are taken away before the hub and a device's control endpoint after the others, that
an endpoint whose creation failed is not deleted, and that a hub has one interrupt endpoint,
`RootHubPort` that the hub driver reads a port's status before it acts on the port,
`Controller` that the family's calls do not overlap. The done queue's functions
(`PutTDonDoneQueue`, `ReturnIsochDoneQueue`) belong to the family and are modelled by what
`Isoch.cpp` expects of them.

**Fairness.** Safety needs none. `CallReturns` assumes that a runnable thread runs and that
a blocked one is awakened by its deadline (`assert_wait_deadline`), nothing of the xHC.
`EventsSettle` assumes that a pending interrupt is delivered and that the work loop and the
waiting thread run, and that an xHC with events posted and EHB clear interrupts, as its
specification has it. `EveryRequestReturns` assumes that the work loop handles events, that
the host's family keeps asking for time-outs (`UIMCheckForTimeouts`) and that a request
carries one, as those on bulk and control endpoints do; of xHC and device it assumes
nothing. `Flushed` assumes that the work loop runs an event source that was enabled and that
completion routines return. No fairness is assumed of new work.

**Deadlock** is not checked: with the bounds used up the systems may rest.

## 4. What is proved

TLAPS proves the following for every value of the constants that the assumptions named in
the modules admit. Each invariant was checked by TLC on the small instance before.

| theorem | statement | of the code |
|---|---|---|
| `CommandRingProofs!TypeCorrect` | `[]TypeOK` | no index leaves `callbacks[]` |
| `CallbackDiscipline`, `NoCallbackDangles` | `[]CallbackInv`, `[]NoDanglingCallback` | nothing in the table points at the `&ret` of a call that returned |
| `WakeupDiscipline`, `WakeupNeverLost` | `[]WakeupInv`, `[]NoLostWakeup` | `WaitForChangeEvent` never sleeps through its event |
| `RingOrder` | `[]RingInv` | the inductive invariant of the next three |
| `NothingEverHidden`, `ResultAlwaysOwn`, `RunsOnceInOrder` | `[]NothingHidden`, `[]ResultIsOwn`, `HwRunsOnceInOrder` | the xHC sees every command, runs each once and in order, and a call gets its own result |
| `TransferRingProofs!Types`, `RoomIsEnough` | `[]TypeOK`, `[]FitSuffices` | what `CanTDFragmentFit` lets through, `GetNextTRB` finds slots for |
| `RingCorrect` | `[](DriverInv /\ ViewInv)` | the inductive invariant of the next five |
| `AllFound`, `InOrder`, `EventFindsItsTD`, `NoneStranded`, `IdleRingHasRoom` | `[]NothingHidden`, `HwInOrder`, `EventOfOldestTD`, `[]NothingStranded`, `[]RoomWhenIdle` | the xHC sees every closed TRB and runs them in order, events find their TDs, the doorbells suffice, an idle ring takes any TD |
| `AsyncEndpointProofs!Invariant` | `[]Inv` | the inductive invariant of the next three rows |
| `OrderKept` | `[]ReturnedInOrder` | requests are returned in order, each at most once |
| `SuccessMeansDone` | `[]SuccessIsDone` | success means that the xHC has carried out the whole request |
| `NoneLost`, `NoneForgotten` | `[]NoRequestLost`, `[]QueueNotForgotten` | no path through the lists drops a request, or leaves the queue waiting for nothing |
| `EventRingProofs!EventsKept` | `[]Correct` | the inductive invariant of the next three |
| `NoEventForgotten` | `[]NothingForgotten` | what left the event ring was dealt with, is counted as lost, or is on its way |
| `EventsPolledInOrder`, `StopAlwaysScooped` | `PolledInOrder`, `StopScooped` | `PollEventRing2` keeps the order; a completed Stop Endpoint command has found its stop event |
| `ContinuationNeverLost` | `[]NoLostContinuation` | nothing waits on the bounce queue for a work loop that was not told |
| `CompleterProofs!ListsAlways`, `BlocksAccountedFor` | `[]ListInv`, `[]ListsPartition` | no block is leaked, used after it was freed, or on both lists |
| `ListsImplementQueue` | `ImplementsQueue` | the linked lists are a queue: `CompletionQueue` |
| `RootHubPortProofs!PortsInvariant` | `[]Inv` | the inductive invariant of the next two rows |
| `RightPortAlwaysAsked` | `[]RightPortAsked` | both translations of port numbers agree, with the swap of `UnXHCI.cpp` and without |
| `ChangesNeverForgotten`, `ResumeAlwaysEnds` | `[]NoChangeForgotten`, `[]NoPortLeftResuming` | the hub driver comes back to every port that changed, and every resume is ended |
| `AddressMapperProofs!MapperAgrees` | `[]Inv` | the inductive invariant of the next two |
| `SlotsOwned`, `SlotsFound` | `[]OwnSlot`, `[]NoSlotLost` | two devices never share a slot, every address leads to its own device over its own route, and no slot is held that nothing leads to, but for the exemptions of `NoSlotLost` |
| `LifeCycle`, `RunsOnlyProgrammed` (`Controller`) | `[](LifeTypes /\ LifeInv)`, `[]RunsProgrammed` | the xHC runs on nothing that was reset or given back |
| `ClockCorrect`, `FrameNumberGrows` | `[](ClockTypes /\ ClockInv)`, `FrameNumberNeverGoesBack` | reading counter and MFINDEX one after the other is safe, in 32-bit builds but for a read in the middle of a carry |
| `IsochEndpointProofs!LostAlways` | `[](Base /\ LostInv)` | the inductive invariant of the next |
| `NoTDLostHolds` | `[]NoTDLost` | no isochronous TD is lost or in two places between filter, gate and xHC |
| `OrderAlways` | `[]OrderBase` | the inductive invariant of the next, with that of the last |
| `ReturnedInOrderHolds` | `[]ReturnedInOrder` | isochronous TDs are returned in the order of their frames, the deferred among them |
| `RunAlways` | `[]RunBase` | the inductive invariant of the next, with that of the last |
| `SuccessIsDoneHolds` | `[]SuccessIsDone` | an isochronous TD is reported as done only when it was carried out |
| `WakeAlways` | `[]WakeBase` | the inductive invariant of the next, with that of the last |
| `NoTDForgottenHolds` | `[]NoTDForgotten` | at rest every isochronous TD has been returned |
| `StackNeverExceeded` (`Streams`) | `[]StackSuffices` | nine entries suffice for the quicksort of 255 rings |
| `RingsSorted` | `[](pc = "ready" => OwnPages /\ Sorted)` | the quicksort sorts |
| `EventsFindTheirStream` | `[]EventFindsItsStream` | the search by halving finds the ring of every TRB, and none for other addresses |
| `NothingLeftBehind` | `[]NoStreamLeftBehind` | a failed `UIMCreateStreams` leaves no stream |

**Command ring.** `NoDanglingCallback` says that an entry that points at some `&ret` points
at that of the call in progress, and is the entry that the call registered. It is not
inductive: when a call sees its result it returns *without* wiping, so that the entry must
be clear by then. `CallbackInv` adds why it is: the result is stored by the interrupt from a
copy (`hParam`), the copy came from the entry at `hEvent.index`, which for the live call is
`prevIndex`, and the entry is cleared before the copy is called. The wipe covers the other
way out. `WakeupInv` names the interrupt's step that still owes the wake-up. `RingInv`
numbers the commands: slots are counted back from `enqueueIndex` (`SlotBefore`), the xHC is
at most a lap behind, every slot in between holds the command of its number with a cycle bit
that follows from where the link TRB is, and events on their way are of commands in that
order. That the ring never overtakes its own old TRBs, and that a late result is not taken
by the next call, both follow from the count being less than a lap.

**Transfer ring.** `FitSuffices` needs to know, at every TRB, that the rest of the TD has
room: `Room` lists the ways in which it has (in front of `dequeueIndex`, up to the end of
the ring, or by moving the fragment to the start), and `LayInv` bounds fragment and rest
together by `MaxTD`, so that a moved fragment fits. `CycleInv` gives the cycle bit of every
slot, the ones not written for two laps included; the rest of `DriverInv` the numbers in the
open fragment. `ViewInv` has three parts, in which flushed TDs count like the scheduled:
their TRBs are on the ring and their events will come. `RingInv`: the closed TRBs are
consecutive from `dequeueIndex` to where the next fragment begins, possibly round a link,
which is the ring's or that of a moved fragment, and the xHC is among them. `QueueInv`: the
events not handled are those of the oldest TDs, in order. `StrandInv`: what the xHC has not
carried out it is running for, or will be rung for. `RoomIsEnough` also is why `NumTRBs > 2
* MaxTD` is needed; without it an idle ring whose indices rest in its middle would refuse a
TD for good.

**Asynchronous endpoint.** Every operation that returns requests does two things: it takes
the oldest TDs off the two lists, those of the queue only once the schedule is used up
(`Takes`), and lets `ScheduleTDs` move others from the queue to the ring (`Moves`). Lemmas
show that either keeps the invariant, for any number of TDs; the operations are then
instances. `Lists`: both lists are in the order of their requests, a final TD being the last
of its own, and the scheduled TDs are the last that were laid out, no more than the slots
`dequeueIndex` leaves. `Asked`: what was returned is earlier than what waits, and what was
accepted is returned or has its final TD on a list. `PastDone` and `EventDone`: the TDs the
xHC is past, and those an outstanding event's index stands for, with all before them, have
been carried out; the second is what orphans rest on, and what an event that outlives the
use of its index breaks, so it is claimed while `mixed` is false only. `OffDone`: the TDs of
a request that is still on the lists were carried out if they are off the schedule, because
a flush always takes all of a request (`FlushGone`). `Queue`: with nothing scheduled the
driver counts no slot as used, so that a queued TD would have found room.

**Event ring.** Distances are counted from the filter's index on the ring and from the work
loop's on the bounce queue (`Ahead`). `RingInv`: an entry's cycle bit says on which side of
the xHC's index it lies, so the filter finds a valid entry exactly where an event was posted
and not taken; the events there have the numbers after `Taken`, one by one. `QueueInv`: what
is between the ring and its end has smaller numbers, rising with the distance, and none that
was dealt with; the work loop's copy is older than what is on the queue, the filter's newer.
`CallInv`: during a call the work loop is not at the queue, the stop event is older than the
completion that ends the wait, so by then it has passed the filter, and the scan leaves none
behind it. That the stop event is somewhere is `NothingForgotten`.

**Completer.** `ListInv` says that two sequences of blocks exist which the `next` pointers
spell from each head to each tail, disjoint from each other and from the block in the
flush's hands; the pointers of other blocks, and of the last of each list, may say anything.
`Walk`, which the properties and the refinement mapping read, is shown to be that sequence.
Each action then is a step of the abstract queue or leaves it alone: an added block goes to
the end, the flush takes the first.

**Root hub.** The status of a port is the last word only if what happened since the register
was read has left a trace. `ReadStays` says which: the gate keeps everything but the xHC out
between read and writes, so a connection that differs from the one read has `CSC` set, a
device that woke `PLC`, and with no bit set at the read a later one has posted an event.
`Noticed`: a port with any change bit is in the events or the bitmaps, although only the
first bit posts an event. `Looked`: a port that is not as the hub driver was told will be
looked at, or the controller sleeps and `CSC` is set. `ResumeNoted` is what
`NoPortLeftResuming` hangs on: `_rhPortBeingResumed` is off in a port that is suspended or
that the hub driver took for enabled, so a wake is never taken for a resume that is under
way. The numbers of ports and of reads, and how many ports change together, are arbitrary.

**Addresses.** `OwnSlot` speaks of devices that are not touched at the moment, so it needs
what holds in the middle of an enumeration and a deletion. `MapInv` and `SlotInv` are the
two directions of the map: an entry of the mapper leads to an enabled slot, but for the
entry whose slot the deletion has just disabled and not yet unmapped; no two addresses lead
to one slot; nothing is left of a disabled slot; the xHC's addresses differ. `EnumInv` says
for each step of the enumeration which of the slot, its ring and context, the entry of
address 0 and that of the new address exist; `ZeroInv` that address 0 leads to the
enumeration's slot, also after a failure, until it is deleted; `DelInv` the same for a
deletion. `DeviceInv` is `OwnSlot` for all devices but the one being deleted. That routes
are right rests on the lemma that `Walk`, a recursive function up the mapper's entries,
gives `PathOf`, the way the device is plugged in, at any depth up to the five hubs the code
climbs. `LostInv` says that an enabled slot is the enumeration's, the deletion's or mapped.
What is exempt had to be sharpened on the way: an address is overwritten only after an
enumeration was cut short with its address mapped (`unknown`, `stolen`), for otherwise the
mapper's addresses are those the xHC chose (`AddressInv`), and it chooses a free one.

**Controller.** (In the module `AddressMapperProofs` too: the two specifications share no
name, and each theorem is about one of them.) `LifeInv` says what each phase finds
programmed; it holds until one of the failures that the code passes over. `ClockInv` says,
for a reader between two of its three reads, what it may still return: at least the number
returned last, and at most the present time. A wrap is not counted until both words are
stored, so a reader that finds the counter whole finds it as if there were one word.

**Isochronous endpoint.** A TD is `Sent` once it has left the to-do list, which holds the
last of those requested; `PlaceInv` says that those sent are exactly those on the queues,
the chain, the filter's own chain and in slots, and that the numbers add up, so that none is
in two places. `FilterTypes` keeps the two chains together: the filter's is that of the
endpoint with the TDs it took in front, so that publishing it neither loses nor doubles one,
though the other side may have retired part of the chain since. `WindowInv` counts slots
from `outSlot` on: those in use are between `outSlot` and `inSlot`, and only the first of
them may be empty, the one the filter emptied last. While the filter scans, nothing before
the slot it looks at is in use; that is what makes it right to move `outSlot` there, and it
holds because the other side only adds at `inSlot`. The family's `PutTDonDoneQueue` is shown
to keep all TDs on its queues, wherever the deferred ones go.

`ReturnedInOrder` needs to know where the TDs are, and that the earlier are further on.
`OrderInv` says so: the numbers on every queue rise, in the slots they rise from `outSlot`
on, the two chains fall from their heads, and what is returned or done comes before what is
on the endpoint's chain, that before what the filter took, and that before what is in slots.
A deferred TD is behind all that is returned or done, but may be before or behind what is
chained: `PutTDonDoneQueue` finds its place, and is shown to keep the queues in order. A
late TD goes behind all that are scheduled; with none it is put on the done queue at once,
which is in order only if the filter and its chain hold none either, the case `overtaken`
names.

`SuccessIsDone` is about TDs that never have an event of their own: the filter takes all it
finds before the TD of the event. `RegularInv` ties the xHC's ring, its events and the slots
together for an xHC that posts one event for a TD: the TDs on the ring rise and are in
slots, events come in that order (`Earlier` lets an event for a part of a TD be followed by
another for it), each for a TD still in a slot and before all that are on the ring. Then
`Reaches` holds of a filter at work: the TD of its event is between the slot it looks at and
the one it stops at, so that whatever it takes was on the ring before that TD and is no
longer, and `RanInv` says that it was carried out. The same invariant shows that an underrun
event does not restart the slots under the filter (`ScanIsActive`: a filter at work has a TD
in its hands or in front of it), so that what the first two theorems except is only met with
a second event for a TD.

`NoTDForgotten` speaks of states in which nothing goes on, so it needs to know what goes on
in all others. `WakeInv` has one part for each place where a TD may wait: `SlotsWake`,
`DelayWakes`, `ToDoWakes`, `DoneWakes`, `DeferredWakes`. What is `InFlight` stays so until
it is retired, upon which scheduling is tried again (`FlightStays`); when there is no slot
or no room, TDs are in flight (`NoRoomInFlight`, which counts at least three slots). Each
exception of the property is used in exactly one step, the refused request, the deaf filter,
the abort of a delayed schedule, the full ring and the halted controller, and the second
event in the invariants it rests on.

**Streams.** (In the module `IsochEndpointProofs` too: the two share no name.) The depth of
a range on the stack bounds its size: at depth *i* at most `MaxStream / 2^(i - 1)`, because
the smaller part is sorted first, and a range of one ring is not split. `SortInv` says that
rings out of order are in one range still on the stack. `FindStream` and `Pow2` are
recursive functions; what they compute is proved through the least number at which it would
fail (`LeastNumber`), which takes the place of induction.

**Only model-checked.** Liveness (`CallReturns`, `EventsSettle`, `EveryRequestReturns`,
`Flushed`), since the prover does not treat fairness and `ENABLED`. The two claims that fail
are shown by TLC alone. Every invariant and action property that a passing run checks is a
theorem.

## 5. What is not modelled

Registers' bit layouts, descriptors, logging, statistics, quirks of single chipsets, I/O
Kit's memory management, diagnostics and the user client: no state machine of their own. Of
the modelled parts, these are left out:

- transfer rings: `CountRingToED` for halted endpoints, bytes and flags of TRBs;
- asynchronous endpoints: shortfalls, the time-out of everything on a removed device
  (`abortAll`);
- isochronous endpoints: creation and release (`CreateIsochEndpoint`, `NukeIsochEP`),
  bandwidth, the frame arithmetic of a continuous stream, which has neither gaps nor late
  TDs;
- slots: `configureHub`, and what becomes of the transfers of a deleted endpoint;
- streams: `RestartStreams`; a stream's ring is a `TransferRing`;
- root hub: `RHCompleteResumeOnAllPorts`, which nothing calls, `RHClearUnserviceablePorts`,
  port power, and the code compiled with `LONG_RESET` or `DEBOUNCING` only. On Panther Point
  `RHCompleteSuspendOnAllPorts` writes a connection change that was not set when it read the
  port, to clear one that comes in between: that is left out too;
- interrupters other than the primary one (`kMaxActiveInterrupters` is 1).

Noticed on the way and only described: `RestoreControllerStateFromSleep` logs "clearing
enable bit" (`V3Pure.cpp:148`) and writes the enable *change* bit (150), which leaves the
port enabled.

## 6. Plan

1. `AsyncEndpoint` against an abstract request (pending, then completed once) that it
   implements.
2. Composition: `Controller`'s restart over the rings' modules.

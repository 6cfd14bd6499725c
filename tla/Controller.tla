------------------------------- MODULE Controller -------------------------------
(***************************************************************************)
(* The controller's life: UIMInitialize and UIMFinalize (V1Pure.cpp), reset, *)
(* restart, sleep and wake (V3Pure.cpp, PwrMgmt.cpp), and the micro-frame    *)
(* counter (GetMicroFrameNumber, V2Overrides.cpp) that a running controller  *)
(* drives.                                                                 *)
(*                                                                         *)
(* The family (external) calls the methods one at a time: it initializes     *)
(* the controller, enables its interrupts, puts it to sleep and wakes it,    *)
(* resets and restarts it, finalizes it after a reset. The xHC (external)    *)
(* may lose its registers while asleep, fail to stop, to save, to restore    *)
(* or to reset, or disappear. While it runs, MFINDEX counts micro-frames;    *)
(* each time it wraps, an event has the filter add the wrap to               *)
(* _millsecondCounter. Any thread may ask for the micro-frame number         *)
(* meanwhile. The counter is modelled in micro-frames. In a 32-bit build it   *)
(* is two words: the filter stores, and a thread loads, one after the other, *)
(* which shows when the low word wraps.                                    *)
(***************************************************************************)
EXTENDS Integers

CONSTANTS Wrap,           \* micro-frames of a wrap of MFINDEX (2^14)
          SplitCounter,   \* whether the build is for 32 bits
          LowWraps,       \* wraps of MFINDEX until the low word of the counter wraps (2^21)
          MaxTicks,       \* bound: micro-frames
          MaxPower,       \* bound: sleeps and restarts
          MaxLifeFailures     \* bound: lifeFailures of the xHC and late filters

ASSUME WrapAssumption   == Wrap \in Nat \ {0, 1} /\ SplitCounter \in BOOLEAN /\ LowWraps \in Nat \ {0}
ASSUME LifeBoundsAssumption == MaxTicks \in Nat /\ MaxPower \in Nat /\ MaxLifeFailures \in Nat

VARIABLES
  \* the driver
  uimInitialized, isSleeping, inTestMode,    \* _uimInitialized, _isSleeping, _inTestMode
  held,            \* the rings, contexts and buffers that UIMInitialize makes and UIMFinalize releases
  slots,           \* some slot has a device context
  millisecondCounter,
  stored,          \* the word of it that is stored when only one is, in a carry: "low", "high" or "none"
  \* the xHC
  run,             \* USBCmd.RS
  registers,       \* Config, DCBAAP and the interrupter's registers are programmed
  crcr,            \* so is the command ring
  contexts,        \* it knows the contexts of the slots in use
  saved,           \* it saved its state, and can restore it
  invalid,         \* m_invalid_regspace: it is gone
  mfIndex, wrapped,               \* MFINDEX, and whether a wrap was not counted yet
  \* the family and a thread that asks for the micro-frame number
  phase, reader, last,
  ticks, power, lifeFailures, lifeUpset   \* history

driverVars == <<uimInitialized, isSleeping, inTestMode, held, slots>>
xhcVars    == <<run, registers, crcr, contexts, saved, invalid>>
clockVars  == <<millisecondCounter, stored, mfIndex, wrapped>>
readVars   == <<reader, last>>
histVars   == <<ticks, power, lifeFailures, lifeUpset>>
lifeVars == <<driverVars, xhcVars, clockVars, phase, readVars, histVars>>

-----------------------------------------------------------------------------
Asks == [pc |-> "idle", counter |-> 0, index |-> 0, again |-> FALSE, waits |-> FALSE, since |-> 0]

LifeInit ==
  /\ uimInitialized = FALSE /\ isSleeping = FALSE /\ inTestMode = FALSE
  /\ held = FALSE /\ slots = FALSE /\ millisecondCounter = 0 /\ stored = "none"
  /\ run = FALSE /\ registers = FALSE /\ crcr = FALSE /\ contexts = FALSE /\ saved = FALSE
  /\ invalid = FALSE /\ mfIndex = 0 /\ wrapped = FALSE
  /\ phase = "absent" /\ reader = Asks /\ last = 0
  /\ ticks = 0 /\ power = 0 /\ lifeFailures = 0 /\ lifeUpset = {}

LifeFails(what) ==
  /\ lifeFailures < MaxLifeFailures /\ lifeFailures' = lifeFailures + 1
  /\ lifeUpset' = lifeUpset \cup {what}
Succeeds == UNCHANGED <<lifeFailures, lifeUpset>>
Power    == power < MaxPower /\ power' = power + 1

\* The xHC after HCRST or a loss of power.
Fresh ==
  /\ run' = FALSE /\ registers' = FALSE /\ crcr' = FALSE /\ contexts' = FALSE
  /\ mfIndex' = 0

-----------------------------------------------------------------------------
(* UIMInitialize, UIMFinalize.                                             *)

\* Maps the registers, adds the event sources, resets the xHC; then makes the rings and the
\* buffers, each programmed as it is made; then the thread calls. The object is a new one.
UIMInitialize ==
  /\ phase = "absent" /\ ~invalid
  /\ held' = TRUE
  /\ run' = FALSE /\ registers' = TRUE /\ crcr' = TRUE /\ contexts' = FALSE
  /\ mfIndex' = 0 /\ wrapped' = FALSE /\ millisecondCounter' = 0 /\ stored' = "none"
  /\ isSleeping' = FALSE /\ inTestMode' = FALSE /\ uimInitialized' = TRUE /\ phase' = "ready"
  /\ Succeeds
  /\ UNCHANGED <<slots, saved, invalid, readVars, ticks, power>>

\* A step fails, and everything acquired before it is released.
UIMInitializeFails ==
  /\ phase = "absent" /\ LifeFails("initialize")
  /\ held' = FALSE
  /\ run' = FALSE /\ registers' \in BOOLEAN /\ crcr' = registers'
  /\ UNCHANGED <<uimInitialized, isSleeping, inTestMode, slots, contexts, saved, invalid, clockVars, phase,
                 readVars, ticks, power>>

UIMFinalize ==
  /\ phase \in {"stopped", "dead"}
  /\ held' = FALSE
  /\ slots' = FALSE /\ uimInitialized' = FALSE /\ phase' = "absent"
  /\ UNCHANGED <<isSleeping, inTestMode, xhcVars, clockVars, readVars, histVars>>

-----------------------------------------------------------------------------
(* Running.                                                                *)

\* EnableInterruptsFromController(true): RestartUSBBus.
RestartUSBBus ==
  /\ phase = "ready"
  /\ run' = (run \/ ~invalid)
  /\ phase' = "on" /\ last' = 0
  /\ UNCHANGED <<driverVars, registers, crcr, contexts, saved, invalid, clockVars, reader, histVars>>

\* A device is enumerated; the last one is gone.
UseSlots ==
  /\ phase = "on" /\ run /\ ~invalid
  /\ slots' = ~slots /\ contexts' = slots'
  /\ UNCHANGED <<uimInitialized, isSleeping, inTestMode, held, run, registers, crcr, saved, invalid,
                 clockVars, phase, readVars, histVars>>

\* Reads return all ones from now on.
HwGone ==
  /\ ~invalid /\ LifeFails("gone")
  /\ invalid' = TRUE /\ run' = FALSE
  /\ UNCHANGED <<driverVars, registers, crcr, contexts, saved, clockVars, phase, readVars, ticks, power>>

-----------------------------------------------------------------------------
(* Reset and restart.                                                      *)

StopUSBBus == run' = FALSE

ResetControllerState ==
  /\ phase \in {"on", "asleep"} /\ Power
  /\ \/ invalid /\ Succeeds /\ UNCHANGED <<uimInitialized, run>>
     \/ ~invalid /\ StopUSBBus /\ uimInitialized' = FALSE /\ Succeeds
     \/ ~invalid /\ run /\ LifeFails("notStopped") /\ UNCHANGED <<uimInitialized, run>>
  /\ phase' = "stopped"
  /\ UNCHANGED <<isSleeping, inTestMode, held, slots, registers, crcr, contexts, saved, invalid, clockVars,
                 readVars, ticks>>

NukeSlots == slots' = FALSE

\* RestartControllerFromReset past its first test: HCRST, then all that UIMInitialize programs.
Reprogram ==
  /\ run' = FALSE /\ registers' = TRUE /\ crcr' = TRUE /\ contexts' = FALSE
  /\ mfIndex' = 0 /\ wrapped' = FALSE /\ millisecondCounter' = 0 /\ stored' = "none"
  /\ NukeSlots /\ inTestMode' = FALSE
  /\ isSleeping' = FALSE /\ uimInitialized' = TRUE

\* HCRST may or may not have happened when it fails.
NotReprogrammed ==
  /\ run' = FALSE
  /\ \/ registers' = FALSE /\ crcr' = FALSE /\ contexts' = FALSE
     \/ UNCHANGED <<registers, crcr, contexts>>
  /\ UNCHANGED <<uimInitialized, isSleeping, inTestMode, slots, clockVars>>

RestartControllerFromReset ==
  /\ phase = "stopped"
  /\ \/ uimInitialized /\ phase' = "ready" /\ Succeeds
        /\ UNCHANGED <<run, registers, crcr, contexts, uimInitialized, isSleeping, inTestMode, slots, clockVars>>
     \/ ~uimInitialized /\ ~invalid /\ Reprogram /\ phase' = "ready" /\ Succeeds
     \/ ~uimInitialized /\ ~invalid /\ NotReprogrammed /\ LifeFails("reset") /\ phase' = "dead"
     \/ ~uimInitialized /\ invalid /\ phase' = "dead" /\ Succeeds
        /\ UNCHANGED <<run, registers, crcr, contexts, uimInitialized, isSleeping, inTestMode, slots, clockVars>>
  /\ UNCHANGED <<held, saved, invalid, readVars, ticks, power>>

-----------------------------------------------------------------------------
(* Sleep and wake.                                                         *)

\* SaveControllerStateForSleep: the bus does not stop; the xHC does not save in time; it
\* reports a save error; it saves.
SaveControllerStateForSleep ==
  \/ invalid /\ Succeeds /\ UNCHANGED <<run, isSleeping, saved>>
  \/ ~invalid /\ run /\ LifeFails("notSaved") /\ UNCHANGED <<run, isSleeping, saved>>
  \/ ~invalid /\ StopUSBBus /\ LifeFails("notSaved") /\ UNCHANGED <<isSleeping, saved>>
  \/ ~invalid /\ StopUSBBus /\ LifeFails("saveError") /\ isSleeping' = TRUE /\ saved' = FALSE
  \/ ~invalid /\ StopUSBBus /\ Succeeds /\ isSleeping' = TRUE /\ saved' = TRUE

ControllerSleep ==
  /\ phase = "on" /\ ~inTestMode /\ Power
  /\ SaveControllerStateForSleep
  /\ phase' = "asleep"
  /\ UNCHANGED <<uimInitialized, inTestMode, held, slots, registers, crcr, contexts, invalid, clockVars,
                 readVars, ticks>>

\* The slot is powered off.
HwPowerLost ==
  /\ phase = "asleep" /\ ~invalid /\ registers
  /\ Fresh
  /\ UNCHANGED <<driverVars, millisecondCounter, stored, wrapped, saved, invalid, phase, readVars, histVars>>

\* Writing the saved registers back, then CRS gives the xHC its contexts again; the command
\* ring is not among what it saved.
Restored_NoCommandRing == crcr' = crcr
Restored == crcr' = TRUE

RestoreSucceeds ==
  /\ saved /\ registers' = TRUE /\ contexts' = slots /\ Restored
  /\ isSleeping' = FALSE /\ Succeeds
  /\ UNCHANGED <<uimInitialized, inTestMode, slots, run, clockVars>>

\* CRS times out, which is not an error.
RestoreTimesOut ==
  /\ registers' = TRUE /\ Restored
  /\ isSleeping' = FALSE /\ LifeFails("notRestored")
  /\ UNCHANGED <<uimInitialized, inTestMode, slots, run, contexts, clockVars>>

\* The xHC has nothing to restore, or cannot: start from reset. If that fails too, the error
\* is only logged.
RestoreError ==
  \/ ~saved /\ Reprogram /\ Succeeds
  \/ saved /\ Reprogram /\ LifeFails("restoreError")
  \/ ~saved /\ LifeFails("notRestarted") /\ registers' = FALSE /\ crcr' = FALSE /\ contexts' = FALSE /\ run' = FALSE
     /\ uimInitialized' = FALSE /\ UNCHANGED <<isSleeping, inTestMode, slots, clockVars>>

RestoreControllerStateFromSleep ==
  /\ phase = "asleep"
  /\ \/ ~invalid /\ isSleeping /\ (RestoreSucceeds \/ RestoreTimesOut \/ RestoreError)
     \/ (invalid \/ ~isSleeping) /\ Succeeds
        /\ UNCHANGED <<run, registers, crcr, contexts, uimInitialized, isSleeping, inTestMode, slots, clockVars>>
  /\ saved' = FALSE /\ phase' = "ready"
  /\ UNCHANGED <<held, invalid, readVars, ticks, power>>

-----------------------------------------------------------------------------
(* Test mode, by a request of the family's user client.                    *)

EnterTestMode ==
  /\ phase = "on" /\ ~inTestMode /\ ~invalid /\ Power
  /\ \/ StopUSBBus /\ inTestMode' = TRUE /\ Succeeds
     \/ run /\ LifeFails("notStopped") /\ UNCHANGED <<run, inTestMode>>
  /\ UNCHANGED <<uimInitialized, isSleeping, held, slots, registers, crcr, contexts, saved, invalid,
                 clockVars, phase, readVars, ticks>>

\* Mode 5 forces the port enabled and runs the bus; any other mode needs it stopped.
PlacePortInMode ==
  /\ phase = "on" /\ inTestMode /\ ~invalid
  /\ run' = ~run
  /\ UNCHANGED <<driverVars, registers, crcr, contexts, saved, invalid, clockVars, phase, readVars, histVars>>

\* Resets the xHC, programs nothing and leaves _uimInitialized set. It stays in test mode when the
\* bus does not stop or the reset, which may have happened, fails.
LeaveTestMode ==
  /\ phase = "on" /\ inTestMode /\ ~invalid
  /\ \/ Fresh /\ inTestMode' = FALSE /\ lifeUpset' = lifeUpset \cup {"testMode"} /\ UNCHANGED lifeFailures
     \/ Fresh /\ LifeFails("testMode") /\ UNCHANGED inTestMode
     \/ run /\ LifeFails("notStopped") /\ UNCHANGED <<run, registers, crcr, contexts, mfIndex, inTestMode>>
  /\ UNCHANGED <<uimInitialized, isSleeping, held, slots, saved, invalid, millisecondCounter, stored, wrapped, phase,
                 readVars, ticks, power>>

-----------------------------------------------------------------------------
(* The micro-frame number.                                                 *)

\* MFINDEX counts; a wrap posts an event for the filter. If the filter has not taken it a
\* micro-frame later, it is late.
Tick ==
  /\ run /\ ticks < MaxTicks /\ ticks' = ticks + 1
  /\ mfIndex' = (mfIndex + 1) % Wrap
  /\ IF wrapped THEN LifeFails("late") ELSE Succeeds
  /\ wrapped' = (wrapped \/ mfIndex' = 0)
  /\ reader' = [reader EXCEPT !.waits = FALSE]
  /\ UNCHANGED <<driverVars, xhcVars, millisecondCounter, stored, phase, last, power>>

\* The filter counts the wrap. With a carry in a 32-bit build, that is two stores.
Counted == wrapped' = FALSE /\ millisecondCounter' = millisecondCounter + Wrap /\ stored' = "none"
Carries == SplitCounter /\ (millisecondCounter + Wrap) % (LowWraps * Wrap) = 0
FilterCountsWrap ==
  /\ wrapped /\ run /\ stored = "none"
  /\ IF Carries THEN stored' \in {"low", "high"} /\ UNCHANGED <<wrapped, millisecondCounter>> ELSE Counted
  /\ UNCHANGED <<driverVars, xhcVars, mfIndex, phase, readVars, histVars>>

FilterCarries ==
  /\ stored # "none" /\ Counted
  /\ UNCHANGED <<driverVars, xhcVars, mfIndex, phase, readVars, histVars>>

\* What a thread reads. The two loads of a 32-bit build are one step: without a carry between
\* them they read what the load of the low word finds, and with one between them, what is in
\* memory between the filter's two stores.
Counter == CASE stored = "none" -> millisecondCounter
             [] stored = "low"  -> millisecondCounter + Wrap - LowWraps * Wrap
             [] stored = "high" -> millisecondCounter + LowWraps * Wrap
Torn == lifeUpset' = IF stored # "none" THEN lifeUpset \cup {"torn"} ELSE lifeUpset

readUnchanged == UNCHANGED <<driverVars, xhcVars, clockVars, phase, ticks, power, lifeFailures>>

\* GetMicroFrameNumber: a halted or lost xHC has no frame number.
GetMicroFrameNumber ==
  /\ phase = "on" /\ reader.pc = "idle" /\ run
  /\ reader' = [Asks EXCEPT !.pc = "counter", !.since = power]
  /\ UNCHANGED <<last, lifeUpset>> /\ readUnchanged

ReadCounter1 ==
  /\ reader.pc = "counter" /\ ~reader.waits
  /\ reader' = [reader EXCEPT !.pc = "index", !.counter = Counter]
  /\ Torn /\ UNCHANGED last /\ readUnchanged

ReadMFIndex ==
  /\ reader.pc = "index" /\ ~invalid
  /\ reader' = [reader EXCEPT !.pc = "compare", !.index = mfIndex]
  /\ lifeUpset' = IF mfIndex = 0 /\ reader.counter = 0 /\ wrapped THEN lifeUpset \cup {"firstWrap"} ELSE lifeUpset
  /\ UNCHANGED last /\ readUnchanged

\* An index of zero may be a wrap that is not counted yet: look again a micro-frame later.
LookAgain_Never == FALSE
LookAgain == reader.index = 0 /\ reader.counter # 0 /\ ~reader.again

FrameNumber == IF reader.counter # Counter THEN Counter ELSE reader.counter + reader.index

ReadCounter2 ==
  /\ reader.pc = "compare"
  /\ IF ~invalid /\ reader.counter = Counter /\ LookAgain
     THEN reader' = [reader EXCEPT !.pc = "counter", !.again = TRUE, !.waits = TRUE] /\ UNCHANGED last
     ELSE /\ reader' = Asks
          /\ last' = IF ~invalid /\ phase = "on" /\ run /\ ~inTestMode /\ reader.since = power THEN FrameNumber ELSE last
  /\ Torn /\ readUnchanged

\* The register space is gone, or the delay of 126 us is over though MFINDEX stands still.
ReadGivesUp ==
  /\ \/ reader.pc = "index" /\ invalid /\ reader' = Asks
     \/ reader.waits /\ ~run /\ reader' = [reader EXCEPT !.waits = FALSE]
  /\ UNCHANGED <<last, lifeUpset>> /\ readUnchanged

-----------------------------------------------------------------------------
LifeNext ==
  \/ UIMInitialize \/ UIMInitializeFails \/ UIMFinalize
  \/ RestartUSBBus \/ UseSlots \/ HwGone
  \/ ResetControllerState \/ RestartControllerFromReset
  \/ ControllerSleep \/ HwPowerLost \/ RestoreControllerStateFromSleep
  \/ EnterTestMode \/ PlacePortInMode \/ LeaveTestMode
  \/ Tick \/ FilterCountsWrap \/ FilterCarries
  \/ GetMicroFrameNumber \/ ReadCounter1 \/ ReadMFIndex \/ ReadCounter2 \/ ReadGivesUp

LifeSpec == LifeInit /\ [][LifeNext]_lifeVars

-----------------------------------------------------------------------------
(* What the life cycle promises.                                           *)

\* The xHC never runs on memory that was given back, on registers that a reset or a loss of
\* power cleared, without a command ring, or beside slots of which it has no contexts
\* (UIMInitialize, UIMFinalize, RestartControllerFromReset, ControllerSleep,
\* RestoreControllerStateFromSleep). Not promised, because the code goes on as if nothing
\* had happened: the state was not saved or not restored, a restart after a failed restore
\* failed too, the bus did not stop before a restart or a release, test mode was left.
RunsProgrammed ==
  run => \/ lifeUpset \cap {"notSaved", "notRestored", "notRestarted", "notStopped", "testMode"} # {}
         \/ /\ registers /\ crcr /\ held
            /\ slots => contexts

\* While the controller runs, the micro-frame number that GetMicroFrameNumber returns never
\* goes back, though MFINDEX wraps between its reads and the filter counts the wrap at any
\* moment of the next micro-frame. Not promised: the filter is later than that, the very first
\* wrap is read before it is counted, or, in a 32-bit build, a thread reads the counter while
\* its low word wraps, every 2^32 ms (the TBD of V2Overrides.cpp:70-73).
FrameNumberNeverGoesBack ==
  [][(phase = "on" /\ phase' = "on") => \/ last' >= last
                                        \/ lifeUpset' \cap {"late", "firstWrap", "torn"} # {}]_lifeVars
=============================================================================

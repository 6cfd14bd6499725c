------------------------------ MODULE RootHubPort ------------------------------
(***************************************************************************)
(* The root hub's ports (RootHub.cpp, and the root hub methods of           *)
(* V1Pure.cpp): the port status register of each port, the bitmaps of       *)
(* ports that changed, and the resume of a suspended port.                  *)
(*                                                                         *)
(* The xHC (external) sets change bits at any time. It posts a Port Status  *)
(* Change event when the first bit of a port is set, and none for another   *)
(* while one is set. The filter notes the port in _rhPortStatusChangeBitmap *)
(* without the work-loop gate. Everything else holds the gate, so that one  *)
(* operation is under way at a time, but the xHC goes on between its read   *)
(* of the register and its writes. The hub driver (external) asks for the   *)
(* bitmap and for the status of ports, clears the changes reported to it,   *)
(* resets, suspends and resumes ports.                                      *)
(*                                                                         *)
(* LONG_RESET and DEBOUNCING are not defined: _rhPortBeingReset is set and   *)
(* cleared within one operation that holds the gate.                        *)
(***************************************************************************)
EXTENDS Integers

CONSTANTS NumEach,      \* _rootHubNumPortsSS = _rootHubNumPortsHS
          Retries,      \* reads of a port that misbehaves (5)
          Wired,        \* bound: the sets of ports where something happens in a behaviour
          MaxHw,        \* bound: what happens at the ports by itself
          MaxHub,       \* bound: resets, suspends and resumes by the hub driver
          MaxSleeps     \* bound: sleeps of the controller

ASSUME PortsAssumption  == NumEach \in 1 .. 7 /\ Retries \in Nat \ {0}
ASSUME BoundsAssumption == Wired \subseteq SUBSET Nat /\ MaxHw \in Nat /\ MaxHub \in Nat /\ MaxSleeps \in Nat

VARIABLES
  swap,       \* kErrataVMwarePortSwap
  wired,      \* the ports where something happens
  \* PortSC of each port: link state (PLS, PR, CCS and PED), change bits
  pls, changes,
  running,    \* the xHC runs; else it is asleep and so is the driver
  events,     \* ports with a Port Status Change event the filter has not seen
  bitmap, gated,       \* _rhPortStatusChangeBitmap, _rhPortStatusChangeBitmapGated
  BeingResumed,        \* _rhPortBeingResumed
  EmulateCSC,          \* _rhPortEmulateCSC
  armed, fired,        \* resume timers that wait, and that wait for the gate
  op,                  \* the operation that holds the gate
  seen, reported,      \* link state and changes of the last status the hub driver was given
  happened, asked, sleeps, upset     \* history

hwVars   == <<swap, wired, pls, changes, running, events>>
portVars == <<BeingResumed, EmulateCSC, armed, fired>>
hubVars  == <<seen, reported>>
histVars == <<happened, asked, sleeps, upset>>
vars == <<hwVars, bitmap, gated, portVars, op, hubVars, histVars>>

-----------------------------------------------------------------------------
(* Port numbers. Canonical numbers count the registers from 0. With the     *)
(* swap SuperSpeed and high speed ports alternate in the registers, while   *)
(* the family numbers the SuperSpeed ports first.                           *)

NumPorts == 2 * NumEach
Ports    == 0 .. NumPorts - 1
Range(protocol) == IF (protocol = "SS") = swap THEN 1 .. NumEach ELSE NumEach + 1 .. NumPorts
StartRange(protocol) == IF (protocol = "SS") = swap THEN 1 ELSE NumEach + 1

PortNumberCanonicalToProtocol(port) ==
  LET c == IF swap THEN port \div 2 + (IF port % 2 = 1 THEN NumEach ELSE 0) ELSE port
      protocol == IF c + 1 \in Range("SS") THEN "SS" ELSE "HS"
  IN  [protocol |-> protocol, number |-> c - StartRange(protocol) + 2]

PortNumberProtocolToCanonical_FromOne(number, protocol) ==
  IF swap THEN 2 * number - (IF protocol = "SS" THEN 1 ELSE 0)
  ELSE number + StartRange(protocol) - 2
PortNumberProtocolToCanonical(number, protocol) ==
  IF swap THEN 2 * number - (IF protocol = "SS" THEN 2 ELSE 1)
  ELSE number + StartRange(protocol) - 2

Protocol(port) == PortNumberCanonicalToProtocol(port).protocol

\* The bits above bit 0 of the bitmap the hub driver is given.
VMwarePortStatusShuffle(ports) ==
  {p \div 2 + 1 + (IF p % 2 = 1 THEN NumEach ELSE 0) : p \in ports}
StatusChangedBits(ports) == IF swap THEN VMwarePortStatusShuffle(ports) ELSE {p + 1 : p \in ports}

\* The port the hub driver asks about for a bit: its number on the root hub of its range.
AskedFor(bit) ==
  LET protocol == CHOOSE pr \in {"SS", "HS"} : bit \in Range(pr)
  IN  [protocol |-> protocol, number |-> bit - StartRange(protocol) + 1]

-----------------------------------------------------------------------------
Invalid == "Invalid"         \* WRC and CEC of a high speed port, PEC of a SuperSpeed port
Idle    == [pc |-> "idle", port |-> 0, seen |-> {}, link |-> "Rx", tries |-> 0]
Connected(port) == pls[port] # "Rx"
View(link) == IF link \in {"Rx", "U0", "U3"} THEN link ELSE "busy"

\* After UIMInitialize: a port that was connected without CSC emulates the change, but the bitmap
\* InitializePorts noted it in has been wiped since. The hub driver has yet to look at each port.
Init ==
  /\ swap \in BOOLEAN
  /\ wired \in {w \cap Ports : w \in Wired}
  /\ \E c \in SUBSET wired :
       /\ pls = [p \in Ports |-> IF p \in c THEN "Poll" ELSE "Rx"]
       /\ EmulateCSC = [p \in Ports |-> p \in c]
  /\ bitmap = {}
  /\ changes = [p \in Ports |-> {}] /\ running = TRUE /\ events = {} /\ gated = {}
  /\ BeingResumed = [p \in Ports |-> FALSE] /\ armed = {} /\ fired = {}
  /\ op = Idle
  /\ seen = [p \in Ports |-> "new"] /\ reported = [p \in Ports |-> {}]
  /\ happened = 0 /\ asked = 0 /\ sleeps = 0 /\ upset = {}

GateFree  == op.pc = "idle" /\ running
Step(pc)  == op' = [op EXCEPT !.pc = pc]
Hub       == asked < MaxHub /\ asked' = asked + 1

\* The link after a write with LWS.
Written(link, to) ==
  CASE to = "U3"     /\ link = "U0"                -> "U3"
    [] to = "Resume" /\ link = "U3"                -> "Resume"
    [] to = "U0"     /\ link \in {"Resume", "U3"}  -> "Recovery"
    [] OTHER -> link

\* The register after the change bits in clear were written, and the link state if to is one.
WritePort(port, clear, to) ==
  /\ changes' = [changes EXCEPT ![port] = @ \ clear]
  /\ pls' = [pls EXCEPT ![port] = Written(@, to)]
  /\ UNCHANGED <<swap, wired, running, events>>

-----------------------------------------------------------------------------
(* The xHC.                                                                *)

\* The register changes by itself.
HwChange(port, link, bits) ==
  /\ pls' = [pls EXCEPT ![port] = link]
  /\ changes' = [changes EXCEPT ![port] = @ \cup bits]
  /\ events' = IF running /\ changes[port] = {} /\ bits # {} THEN events \cup {port} ELSE events
  /\ UNCHANGED <<swap, wired, running, bitmap, gated, portVars, op, hubVars>>

\* A device is plugged in, unplugged or wakes, or a bit is set that the port should not set.
HwHappens(port) ==
  /\ port \in wired /\ happened < MaxHw /\ happened' = happened + 1
  /\ \/ ~Connected(port) /\ HwChange(port, IF Protocol(port) = "SS" THEN "U0" ELSE "Poll", {"CSC"})
     \/ Connected(port) /\ HwChange(port, "Rx", {"CSC"})
     \/ pls[port] = "U3" /\ HwChange(port, "Resume", {"PLC"})
     \/ Invalid \notin changes[port] /\ HwChange(port, pls[port], {Invalid})
  /\ UNCHANGED <<asked, sleeps, upset>>

\* A reset or a resume ends.
HwFinishes(port) ==
  /\ \/ pls[port] = "Reset" /\ HwChange(port, "U0", {"PRC"})
     \/ pls[port] = "Recovery" /\ HwChange(port, "U0", {"PLC"})
  /\ UNCHANGED histVars

\* FilterEventRing.
FilterPortStatusChange(port) ==
  /\ running /\ port \in events
  /\ events' = events \ {port} /\ bitmap' = bitmap \cup {port}
  /\ UNCHANGED <<swap, wired, pls, changes, running, gated, portVars, op, hubVars, histVars>>

-----------------------------------------------------------------------------
(* Resume.                                                                 *)

\* RHCheckForPortResume of a port whose register was read: the link it is written to, and
\* whether PLC is cleared. A high speed port signals resume until the timer ends it.
DeviceResumes(port, link) == ~BeingResumed[port] /\ link = "Resume"

StillResumed_Always(link) == TRUE
StillResumed(link) == link # "U0"
Arm(port) == armed' = armed \cup {port}

RHCheckForPortResume(port, link) ==
  /\ BeingResumed' = [BeingResumed EXCEPT ![port] = IF @ THEN StillResumed(link) ELSE link = "Resume"]
  /\ IF DeviceResumes(port, link) /\ Protocol(port) = "HS" THEN Arm(port) ELSE UNCHANGED armed
  /\ UNCHANGED <<EmulateCSC, fired>>
ResumeTo(port, link) ==
  IF DeviceResumes(port, link) /\ Protocol(port) = "SS" THEN "U0" ELSE "none"
ResumeClears(port, link) == IF DeviceResumes(port, link) THEN {"PLC"} ELSE {}

\* PollInterrupts after an event, RHCheckForPortResumes: the ports where it would do something.
PollRead(port) ==
  /\ GateFree
  /\ BeingResumed[port] \/ pls[port] = "Resume"
  /\ op' = [Idle EXCEPT !.pc = "poll", !.port = port, !.link = pls[port]]
  /\ UNCHANGED <<hwVars, bitmap, gated, portVars, hubVars, histVars>>

PollCheck ==
  /\ op.pc = "poll"
  /\ RHCheckForPortResume(op.port, op.link)
  /\ WritePort(op.port, ResumeClears(op.port, op.link), ResumeTo(op.port, op.link))
  /\ op' = Idle
  /\ UNCHANGED <<bitmap, gated, hubVars, histVars>>

\* RHResumePortTimer: the thread call starts, and waits for the controller and the gate.
TimerFires(port) ==
  /\ port \in armed /\ armed' = armed \ {port} /\ fired' = fired \cup {port}
  /\ UNCHANGED <<hwVars, bitmap, gated, BeingResumed, EmulateCSC, op, hubVars, histVars>>

RHResumePortCompletion(port) ==
  /\ port \in fired /\ GateFree
  /\ fired' = fired \ {port}
  /\ IF BeingResumed[port] THEN WritePort(port, {"PLC"}, "U0") ELSE UNCHANGED hwVars
  /\ UNCHANGED <<bitmap, gated, BeingResumed, EmulateCSC, armed, op, hubVars, histVars>>

-----------------------------------------------------------------------------
(* The root hub methods.                                                   *)

UIMRootHubStatusChange ==
  /\ GateFree
  /\ gated' = gated \cup bitmap /\ bitmap' = {}
  /\ UNCHANGED <<hwVars, portVars, op, seen, reported, histVars>>

\* GetRootHubPortStatus reads the register, for a port of the bitmap or one whose reset or
\* resume the hub driver waits for, and for each port at first.
StatusRead(port, tries) ==
  /\ op' = [pc |-> "status", port |-> port, seen |-> changes[port], link |-> pls[port], tries |-> tries]
  /\ UNCHANGED <<hwVars, bitmap, gated, portVars, hubVars, histVars>>
GetRootHubPortStatus(port) ==
  GateFree /\ (port \in gated \/ seen[port] \in {"new", "busy"}) /\ StatusRead(port, 1)
StatusAgain == op.pc = "again" /\ StatusRead(op.port, op.tries + 1)

\* The changes the hub driver is told of.
ChangeFlags ==
  (op.seen \ (ResumeClears(op.port, op.link) \cup {Invalid}))
    \cup (IF op.link # "Rx" /\ EmulateCSC[op.port] THEN {"CSC"} ELSE {})

MustRetry_Never == FALSE
MustRetry == ChangeFlags = {} /\ op.seen # {}

\* It clears what it may, and starts over if all it saw was cleared: another change may have
\* been hidden by it. The last time it clears everything.
StatusCheck ==
  /\ op.pc = "status"
  /\ RHCheckForPortResume(op.port, op.link)
  /\ LET again   == MustRetry /\ op.tries < Retries
         giveUp  == MustRetry /\ op.tries = Retries
     IN  /\ WritePort(op.port,
                      IF giveUp THEN changes[op.port]
                      ELSE (op.seen \cap {Invalid}) \cup ResumeClears(op.port, op.link),
                      ResumeTo(op.port, op.link))
         /\ IF again THEN Step("again") /\ UNCHANGED <<gated, seen, reported>>
            ELSE /\ op' = Idle
                 /\ gated' = IF ChangeFlags = {} THEN gated \ {op.port} ELSE gated
                 /\ seen' = [seen EXCEPT ![op.port] = View(op.link)]
                 /\ reported' = [reported EXCEPT ![op.port] = ChangeFlags]
         /\ upset' = IF giveUp THEN upset \cup {"gaveUp"} ELSE upset
  /\ UNCHANGED <<bitmap, happened, asked, sleeps>>

\* ClearRootHubPortFeature of a change that was reported.
XHCIRootHubClearPortChangeBit(port, bit) ==
  /\ GateFree /\ bit \in reported[port]
  /\ WritePort(port, {bit}, "none")
  /\ EmulateCSC' = [EmulateCSC EXCEPT ![port] = @ /\ bit # "CSC"]
  /\ reported' = [reported EXCEPT ![port] = @ \ {bit}]
  /\ UNCHANGED <<bitmap, gated, BeingResumed, armed, fired, op, seen, histVars>>

\* XHCIRootHubEnablePort, which only disables, and clears what changes there are.
DisablePort(port) ==
  /\ GateFree /\ Hub /\ seen[port] \notin {"new", "Rx"}
  /\ pls' = [pls EXCEPT ![port] = IF @ = "Rx" THEN "Rx" ELSE "Poll"]
  /\ changes' = [changes EXCEPT ![port] = {}]
  /\ UNCHANGED <<swap, wired, running, events, bitmap, gated, portVars, op, hubVars, happened, sleeps,
                 upset>>

\* A reset, warm or not.
XHCIRootHubResetPort(port) ==
  /\ GateFree /\ Hub /\ seen[port] \notin {"new", "Rx"}
  /\ pls' = [pls EXCEPT ![port] = IF @ = "Rx" THEN "Rx" ELSE "Reset"]
  /\ UNCHANGED <<swap, wired, changes, running, events, bitmap, gated, portVars, op, hubVars, happened, sleeps,
                 upset>>

\* The hub driver suspends a port that it saw enabled. The code waits for recovery to end.
SuspendPort(port) ==
  /\ GateFree /\ Hub /\ seen[port] = "U0" /\ pls[port] # "Recovery"
  /\ WritePort(port, {"PLC"}, "U3")
  /\ seen' = [seen EXCEPT ![port] = "U3"]
  /\ UNCHANGED <<bitmap, gated, portVars, op, reported, happened, sleeps, upset>>

ResumePort(port) ==
  /\ GateFree /\ Hub /\ seen[port] = "U3"
  /\ IF BeingResumed[port] THEN UNCHANGED <<hwVars, portVars>>
     ELSE /\ WritePort(port, {"PLC"}, IF Protocol(port) = "SS" THEN "U0" ELSE "Resume")
          /\ BeingResumed' = [BeingResumed EXCEPT ![port] = TRUE]
          /\ IF Protocol(port) = "HS" THEN Arm(port) ELSE UNCHANGED armed
          /\ UNCHANGED <<EmulateCSC, fired>>
  /\ seen' = [seen EXCEPT ![port] = "busy"]
  /\ UNCHANGED <<bitmap, gated, op, reported, happened, sleeps, upset>>

-----------------------------------------------------------------------------
(* Sleep.                                                                  *)

\* ControllerSleep, after the hub driver took its ports for suspended: those that are still
\* enabled are suspended now.
ControllerSleep ==
  /\ GateFree /\ sleeps < MaxSleeps /\ sleeps' = sleeps + 1
  /\ pls' = [p \in Ports |-> Written(pls[p], "U3")]
  /\ running' = FALSE
  /\ upset' = IF \E p \in Ports : pls'[p] # pls[p] /\ BeingResumed[p] THEN upset \cup {"flagKept"} ELSE upset
  /\ seen' = [p \in Ports |-> IF seen[p] \in {"new", "Rx"} THEN seen[p] ELSE "U3"]
  /\ UNCHANGED <<swap, wired, changes, events, bitmap, gated, portVars, op, reported, happened, asked>>

\* The xHC runs again, and posts the events of the ports that changed meanwhile.
Run == running' = TRUE /\ events' = events \cup {p \in Ports : changes'[p] # {}}

\* RestoreControllerStateFromSleep: ports that resume are taken care of. Of a port whose
\* connection changed and which is enabled, the enable change is cleared, not the enable.
Enabled(port) == pls[port] \in {"U0", "U3", "Resume", "Recovery"}

RestoreControllerStateFromSleep ==
  /\ ~running
  /\ LET resumes == {p \in Ports : "CSC" \notin changes[p] /\ DeviceResumes(p, pls[p])} IN
     /\ BeingResumed' = [p \in Ports |-> p \in resumes \/ BeingResumed[p]]
     /\ armed' = armed \cup {p \in resumes : Protocol(p) = "HS"}
     /\ changes' = [p \in Ports |->
                     IF p \in resumes THEN changes[p] \ {"PLC"}
                     ELSE IF "CSC" \in changes[p] /\ Enabled(p) /\ Protocol(p) = "SS"
                     THEN changes[p] \ {Invalid} ELSE changes[p]]
     /\ pls' = [p \in Ports |-> IF p \in resumes /\ Protocol(p) = "SS" THEN "Recovery" ELSE pls[p]]
  /\ Run
  /\ UNCHANGED <<swap, wired, bitmap, gated, EmulateCSC, fired, op, hubVars, histVars>>

\* The restore fails: RestartControllerFromReset, InitializePorts. Ports with a device come back
\* with or without CSC. The hub driver starts over.
RestartControllerFromReset ==
  /\ ~running
  /\ \E csc \in SUBSET {p \in Ports : Connected(p)} :
       LET emulate == {p \in Ports : Connected(p)} \ csc IN
       /\ changes' = [p \in Ports |-> IF p \in csc THEN {"CSC"} ELSE {}]
       /\ EmulateCSC' = [p \in Ports |-> p \in emulate]
       /\ bitmap' = emulate
  /\ pls' = [p \in Ports |-> IF Connected(p) THEN "Poll" ELSE "Rx"]
  /\ running' = TRUE /\ events' = {p \in Ports : changes'[p] # {}}
  /\ gated' = {} /\ BeingResumed' = [p \in Ports |-> FALSE]
  /\ seen' = [p \in Ports |-> "Rx"] /\ reported' = [p \in Ports |-> {}]
  /\ UNCHANGED <<swap, wired, armed, fired, op, histVars>>

-----------------------------------------------------------------------------
Next ==
  \/ \E p \in wired :
       \/ HwHappens(p) \/ HwFinishes(p) \/ FilterPortStatusChange(p)
       \/ PollRead(p) \/ TimerFires(p) \/ RHResumePortCompletion(p)
       \/ GetRootHubPortStatus(p)
       \/ \E bit \in {"CSC", "PLC", "PRC"} : XHCIRootHubClearPortChangeBit(p, bit)
       \/ DisablePort(p) \/ XHCIRootHubResetPort(p) \/ SuspendPort(p) \/ ResumePort(p)
  \/ PollCheck \/ UIMRootHubStatusChange \/ StatusAgain \/ StatusCheck
  \/ ControllerSleep \/ RestoreControllerStateFromSleep \/ RestartControllerFromReset

Spec == Init /\ [][Next]_vars

-----------------------------------------------------------------------------
\* The hub driver, asking about the port each bit of UIMRootHubStatusChange stands for, asks
\* about the ports that changed and no other, whether the registers alternate or not.
RightPortAsked ==
  LET bits == StatusChangedBits(gated) IN
  /\ {PortNumberProtocolToCanonical(AskedFor(b).number, AskedFor(b).protocol) : b \in bits} = gated
  /\ \A p \in gated : \E b \in bits : AskedFor(b) = PortNumberCanonicalToProtocol(p)

\* The hub driver will still look at the port: it has not yet, or an event is on its way, or the
\* port is in one of the bitmaps, or its status is being read again.
WillLook(p) ==
  \/ seen[p] = "new"
  \/ p \in events \cup bitmap \cup gated
  \/ op.pc \in {"status", "again"} /\ op.port = p

\* No change is forgotten: the hub driver will look at a port that has a change bit, that
\* emulates one it was not told of, or that is not connected as the hub driver saw it last. A change the xHC sets
\* while another bit is set posts no event, so this hangs on what is cleared and in what order.
\* Only a port whose bits were cleared as misbehaving may have lost one.
NoChangeForgotten ==
  running /\ "gaveUp" \notin upset =>
    \A p \in Ports :
      \/ changes[p] # {}
      \/ EmulateCSC[p] /\ Connected(p) /\ "CSC" \notin reported[p]
      \/ Connected(p) # (seen[p] # "Rx")
      => WillLook(p)

\* A port that signals resume gets to U0: the timer that ends it is under way, or the resume has
\* yet to be seen and will be. Not after ControllerSleep suspended a port whose resume had
\* ended but not been noted: its device's wake is then taken for the resume under way.
NoPortLeftResuming ==
  running /\ upset = {} =>
    \A p \in Ports :
      pls[p] = "Resume" =>
        IF BeingResumed[p] THEN p \in armed \cup fired ELSE WillLook(p)

=============================================================================

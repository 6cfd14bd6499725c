----------------------------- MODULE AddressMapper -----------------------------
(***************************************************************************)
(* Device addresses, slots and their endpoints: _addressMapper and           *)
(* _deviceZero (Slots.cpp, UIMCreateControlEndpoint,                        *)
(* UIMCreateControlTransfer, UIMGetActualDeviceAddress,                     *)
(* UIMEnableAddressEndpoints), CreateEndpoint and DeconfigureEndpoint        *)
(* (Endpoints.cpp), UIMDeleteEndpoint.                                      *)
(*                                                                         *)
(* A device is enumerated through address 0: the driver enables a slot for  *)
(* it, the Set Address request becomes an Address Device command, and the   *)
(* status stage of that request gives address 0 up. An operation of the     *)
(* driver keeps the work-loop gate while it waits for its commands to the   *)
(* xHC (external). Between the operations of an enumeration the USB family   *)
(* (external) deletes, suspends and uses other devices. It enumerates one   *)
(* device at a time, and takes the devices behind a hub away before the hub. *)
(*                                                                         *)
(* The devices form a tree: device d is plugged into device d \div 2, and   *)
(* device 1 into the root hub. The two devices of a hub are in its first two *)
(* ports.                                                                  *)
(***************************************************************************)
EXTENDS Integers, FiniteSets, SequencesExt

CONSTANTS NumDevices,     \* devices the family enumerates
          NumAddresses,   \* kUSBMaxDevices - 1
          NumSlots,       \* _numSlots
          NumEndpoints,   \* kUSBMaxPipes - 1
          RootHubNumPorts,       \* _rootHubNumPorts
          MaxExternalHubPorts,   \* kMaxExternalHubPorts: what a digit of a route string holds
          HubEndpoint,    \* bound: the endpoint a hub has besides its control endpoint
          MaxEnums,       \* bound: enumerations in a behaviour
          MaxCreates,     \* bound: endpoints other than control endpoints created
          MaxFailures     \* bound: commands and allocations that fail

ASSUME SizesAssumption  == /\ NumDevices \in 1 .. 31 /\ NumAddresses \in Nat \ {0}
                           /\ NumSlots \in Nat \ {0} /\ NumEndpoints \in Nat \ {0}
                           /\ HubEndpoint \in 2 .. NumEndpoints
                           /\ RootHubNumPorts \in Nat
                           /\ MaxExternalHubPorts \in Nat /\ MaxExternalHubPorts >= 2
ASSUME BoundsAssumption == MaxEnums \in Nat /\ MaxCreates \in Nat /\ MaxFailures \in Nat

VARIABLES
  \* _addressMapper
  Slot, Active, HubAddress, PortOnHub,
  \* _deviceZero
  isBeingAddressed, dzHubAddress, dzPortOnHub,
  \* SlotStruct: the endpoints that have a ring (1 is the control endpoint), and whether there
  \* is a device context
  ring, ctx,
  \* the family
  enum,       \* the enumeration: where it is, the device, its slot and address
  del,        \* UIMDeleteEndpoint: where it is, the device (0: address 0), its slot and address
  addressOf,  \* address it knows the device by
  eps,        \* endpoints of the device it has
  \* the xHC
  hwState, hwPath, hwAddress,
  hwEps, hwCtxNum,    \* endpoints configured, and the number of contexts
  \* history
  enums, creates, failures, upset

mapVars  == <<Slot, Active, HubAddress, PortOnHub>>
zeroVars == <<isBeingAddressed, dzHubAddress, dzPortOnHub>>
slotVars == <<ring, ctx>>
familyVars == <<addressOf, eps>>
hwVars   == <<hwState, hwPath, hwAddress>>
hwEpVars == <<hwEps, hwCtxNum>>
countVars == <<enums, creates>>
vars == <<mapVars, zeroVars, slotVars, enum, del, familyVars, hwVars, hwEpVars, countVars, failures, upset>>

-----------------------------------------------------------------------------
Devices   == 1 .. NumDevices
Addresses == 1 .. NumAddresses
SlotIds   == 1 .. NumSlots
Endpoints == 1 .. NumEndpoints
RootHub   == NumAddresses + 1     \* _hub2Address, _hub3Address
Idle      == [pc |-> "idle", dev |-> 0, ep |-> 0, slot |-> 0, addr |-> 0]

Parent(d) == d \div 2
IsHub(d) == \E x \in Devices : Parent(x) = d
ParentAddress(d) == IF Parent(d) = 0 THEN RootHub ELSE addressOf[Parent(d)]
Port(d) == 1 + (d % 2)
PathOf[d \in Devices] ==
  IF Parent(d) = 0 THEN <<Port(d)>> ELSE <<Port(d)>> \o PathOf[Parent(d)]

Init ==
  /\ Slot = [a \in 0 .. NumAddresses |-> 0] /\ Active = [a \in 0 .. NumAddresses |-> FALSE]
  /\ HubAddress = Slot /\ PortOnHub = Slot
  /\ isBeingAddressed = FALSE /\ dzHubAddress = 0 /\ dzPortOnHub = 0
  /\ ring = [s \in SlotIds |-> {}] /\ ctx = [s \in SlotIds |-> FALSE]
  /\ enum = Idle /\ del = Idle /\ addressOf = [d \in Devices |-> 0] /\ eps = [d \in Devices |-> {}]
  /\ hwState = [s \in SlotIds |-> "disabled"] /\ hwPath = [s \in SlotIds |-> <<>>]
  /\ hwAddress = [s \in SlotIds |-> 0]
  /\ hwEps = [s \in SlotIds |-> {}] /\ hwCtxNum = [s \in SlotIds |-> 1]
  /\ enums = 0 /\ creates = 0 /\ failures = 0 /\ upset = {}

GetSlotID(a) == IF a \in 0 .. NumAddresses /\ Active[a] THEN Slot[a] ELSE 0
Fails == failures < MaxFailures /\ failures' = failures + 1
Upset(what, when) == upset' = IF when THEN upset \cup {what} ELSE upset

\* Operations begin when no other is under way.
GateFree == enum.pc \in {"idle", "default", "status", "remap", "failed"} /\ del.pc = "idle"

\* The family knows the device by an address, and is not enumerating it.
Usable(d) == addressOf[d] # 0 /\ enum.dev # d

Goto(pc) == enum' = [enum EXCEPT !.pc = pc]

\* The mapper with the entry of address a as given.
MapEntry(a, slot, active, hub, port) ==
  /\ Slot' = [Slot EXCEPT ![a] = slot] /\ Active' = [Active EXCEPT ![a] = active]
  /\ HubAddress' = [HubAddress EXCEPT ![a] = hub] /\ PortOnHub' = [PortOnHub EXCEPT ![a] = port]
DropZero ==
  /\ Slot' = [Slot EXCEPT ![0] = 0] /\ Active' = [Active EXCEPT ![0] = FALSE]
  /\ UNCHANGED <<HubAddress, PortOnHub>>

-----------------------------------------------------------------------------
(* Enumeration.                                                            *)

\* ConfigureDeviceZero, then UIMCreateControlEndpoint up to the Enable Slot command.
EnableSlot(d) ==
  /\ GateFree /\ enum.pc = "idle" /\ enums < MaxEnums
  /\ addressOf[d] = 0 /\ Parent(d) \in {0} \cup {p \in Devices : Usable(p)}
  /\ enums' = enums + 1
  /\ dzHubAddress' = ParentAddress(d) /\ dzPortOnHub' = Port(d)
  /\ enum' = [Idle EXCEPT !.pc = "enable", !.dev = d]
  /\ UNCHANGED <<mapVars, isBeingAddressed, slotVars, del, familyVars, hwVars, hwEpVars, creates, failures, upset>>

\* AddressDevice's walk up the hubs, at most five deep. It ends at the root hub's port.
PortOf_AtLevel(w) == dzPortOnHub
PortOf(w) == PortOnHub[w.hub]
Clamped(port) == IF port > MaxExternalHubPorts THEN MaxExternalHubPorts ELSE port
Walk ==
  LET step[n \in 0 .. 5] ==
        IF n = 0 THEN [hub |-> dzHubAddress, port |-> dzPortOnHub, route |-> <<>>]
        ELSE LET w == step[n - 1]
             IN  IF w.hub = RootHub THEN w
                 ELSE [hub |-> HubAddress[w.hub], port |-> PortOf(w),
                       route |-> Append(w.route, Clamped(w.port))]
  IN  step[5]
RouteFound == Walk.hub = RootHub /\ Walk.port \in 1 .. RootHubNumPorts

\* AddressDevice: the command is issued, or not.
AddressDevice(pc) == Goto(IF RouteFound THEN pc ELSE "failed")

\* The slot is set up and addressed without a SET_ADDRESS on the bus. A slot whose ring is
\* still there is disabled again.
CreateControlEndpoint ==
  /\ enum.pc = "enabled"
  /\ LET s == enum.slot IN
     IF 1 \notin ring[s]
     THEN /\ Slot' = [Slot EXCEPT ![0] = s] /\ Active' = [Active EXCEPT ![0] = TRUE]
          /\ ring' = [ring EXCEPT ![s] = @ \cup {1}] /\ ctx' = [ctx EXCEPT ![s] = TRUE]
          /\ AddressDevice("address0")
          /\ UNCHANGED <<HubAddress, PortOnHub>>
     ELSE Goto("disable") /\ UNCHANGED <<mapVars, slotVars>>
  /\ UNCHANGED <<zeroVars, del, familyVars, hwVars, hwEpVars, countVars, failures, upset>>

\* An allocation fails: CleanupControlEndpoint undoes what was done, then disables the slot.
CleanupControlEndpoint ==
  /\ enum.pc = "enabled" /\ 1 \notin ring[enum.slot] /\ Fails
  /\ ctx' = [ctx EXCEPT ![enum.slot] = FALSE]
  /\ DropZero
  /\ Goto("disable")
  /\ UNCHANGED <<zeroVars, ring, del, familyVars, hwVars, hwEpVars, countVars, upset>>

\* The setup stage of a Set Address request for an address the family has free.
SetAddress ==
  /\ GateFree /\ enum.pc = "default"
  /\ \E a \in Addresses \ {addressOf[d] : d \in Devices} :
       IF GetSlotID(0) = 0
       THEN Goto("failed") /\ UNCHANGED isBeingAddressed
       ELSE /\ isBeingAddressed' = TRUE
            /\ enum' = [enum EXCEPT !.pc = IF RouteFound THEN "address" ELSE "failed", !.addr = a]
  /\ UNCHANGED <<mapVars, dzHubAddress, dzPortOnHub, slotVars, del, familyVars, hwVars, hwEpVars, countVars, failures,
                 upset>>

MapAddress ==
  /\ enum.pc = "addressed"
  /\ MapEntry(enum.addr, enum.slot, TRUE, dzHubAddress, dzPortOnHub)
  /\ dzHubAddress' = 0 /\ dzPortOnHub' = 0
  /\ Goto("status")
  /\ UNCHANGED <<isBeingAddressed, slotVars, del, familyVars, hwVars, hwEpVars, countVars, failures, upset>>

\* Its status stage, for which address 0 must still be there. The transfers that stand for
\* the two stages may fail all the same: then the family does not know the address.
SetAddressStatus ==
  /\ GateFree /\ enum.pc = "status"
  /\ IF GetSlotID(0) = 0
     THEN Goto("failed") /\ UNCHANGED <<mapVars, isBeingAddressed, familyVars, failures, upset>>
     ELSE /\ IF isBeingAddressed THEN DropZero ELSE UNCHANGED mapVars
          /\ isBeingAddressed' = FALSE
          /\ \/ addressOf' = [addressOf EXCEPT ![enum.dev] = enum.addr]
                /\ eps' = [eps EXCEPT ![enum.dev] = {1}] /\ Goto("remap")
                /\ UNCHANGED <<failures, upset>>
             \/ Fails /\ Upset("unknown", TRUE) /\ Goto("failed") /\ UNCHANGED familyVars
  /\ UNCHANGED <<dzHubAddress, dzPortOnHub, slotVars, del, hwVars, hwEpVars, countVars>>

InUse(a) == Active[a]

\* One of the mapper's arrays with the entry of address a moved to b.
Moved_ClearedFirst(f, a, b, none) == [f EXCEPT ![a] = none, ![b] = none]
Moved(f, a, b, none) == [f EXCEPT ![b] = f[a], ![a] = none]

\* UIMGetActualDeviceAddress: the xHC chose the address itself.
GetActualDeviceAddress ==
  /\ GateFree /\ enum.pc = "remap"
  /\ LET current == enum.addr
         s == GetSlotID(current)
         a == IF s = 0 THEN 0 ELSE hwAddress[s]
     IN  IF s = 0 \/ a = current \/ InUse(a)
         THEN UNCHANGED <<mapVars, addressOf, upset>>
         ELSE /\ Slot' = Moved(Slot, current, a, 0) /\ Active' = Moved(Active, current, a, FALSE)
              /\ HubAddress' = Moved(HubAddress, current, a, 0) /\ PortOnHub' = Moved(PortOnHub, current, a, 0)
              /\ addressOf' = [addressOf EXCEPT ![enum.dev] = a]
              /\ Upset("overwritten", ~Active[a] /\ Slot[a] # 0)
  /\ Goto("failed")       \* done: address 0 is deleted as after a failure
  /\ UNCHANGED <<eps, zeroVars, slotVars, del, hwVars, hwEpVars, countVars, failures>>

-----------------------------------------------------------------------------
(* Endpoints other than the control endpoint.                              *)

\* CreateEndpoint (UIMCreateBulkEndpoint and others), with the Configure Endpoint command. A
\* failure of an allocation leaves nothing that counts; one of the command leaves the ring.
CreateEndpoint(d, e) ==
  LET s == GetSlotID(addressOf[d]) IN
  /\ GateFree /\ Usable(d) /\ e \notin eps[d] /\ s # 0 /\ (IsHub(d) => e = HubEndpoint)
  /\ creates < MaxCreates /\ creates' = creates + 1
  /\ \/ /\ ring' = [ring EXCEPT ![s] = @ \cup {e}]
        /\ \/ /\ hwEps' = [hwEps EXCEPT ![s] = @ \cup {e}]
              /\ hwCtxNum' = [hwCtxNum EXCEPT ![s] = IF @ < e THEN e ELSE @]
              /\ eps' = [eps EXCEPT ![d] = @ \cup {e}]
              /\ UNCHANGED failures
           \/ Fails /\ UNCHANGED <<hwEpVars, eps>>
     \/ Fails /\ UNCHANGED <<ring, hwEpVars, eps>>
  /\ UNCHANGED <<mapVars, zeroVars, ctx, enum, del, addressOf, hwVars, enums, upset>>

\* DeconfigureEndpoint: the endpoints of slot s that stay configured, and the number of contexts,
\* which drops to the highest endpoint that has a ring. With none left all are deconfigured.
NumCtx(s, e) ==
  IF hwCtxNum[s] = e THEN Max({1} \cup {x \in ring[s] : x < e}) ELSE hwCtxNum[s]

DeconfigureEndpoint(s, e) ==
  IF e \notin hwEps[s] THEN UNCHANGED <<hwEpVars, failures>>
  ELSE \/ /\ hwEps' = [hwEps EXCEPT ![s] = IF NumCtx(s, e) = 1 THEN {} ELSE @ \ {e}]
          /\ hwCtxNum' = [hwCtxNum EXCEPT ![s] = NumCtx(s, e)]
          /\ UNCHANGED failures
       \/ Fails /\ UNCHANGED hwEpVars

-----------------------------------------------------------------------------
(* UIMDeleteEndpoint of an endpoint of a device, or of the control endpoint  *)
(* of address 0 (k = 0), which ends an enumeration.                         *)

Leaf(k) == \A d \in Devices : Parent(d) = k => addressOf[d] = 0 /\ enum.dev # d

\* The family is done with the endpoint: with its last one, with the device.
Deleted(k, e) ==
  IF k = 0 THEN enum' = Idle /\ UNCHANGED familyVars
  ELSE /\ eps' = [eps EXCEPT ![k] = @ \ {e}]
       /\ addressOf' = IF eps'[k] = {} THEN [addressOf EXCEPT ![k] = 0] ELSE addressOf
       /\ UNCHANGED enum

\* The ring of an endpoint is released. With the last one the slot is disabled.
DeleteRing(k, e, a, s) ==
  /\ ring' = [ring EXCEPT ![s] = @ \ {e}]
  /\ IF ring'[s] = {}
     THEN del' = [pc |-> "disable", dev |-> k, ep |-> e, slot |-> s, addr |-> a] /\ UNCHANGED <<enum, familyVars>>
     ELSE Deleted(k, e) /\ UNCHANGED del

DeleteEndpoint(k, e) ==
  LET a == IF k = 0 THEN 0 ELSE addressOf[k]
      s == GetSlotID(a)
  IN  /\ GateFree
      /\ IF k = 0 THEN enum.pc = "failed" /\ e = 1 ELSE e \in eps[k] /\ enum.dev # k /\ Leaf(k) /\ (e = 1 => eps[k] = {1})
      /\ IF s # 0
         THEN /\ DeconfigureEndpoint(s, e) /\ DeleteRing(k, e, a, s)
              /\ upset' = upset \cup (IF e \in hwEps'[s] THEN {"notDropped"} ELSE {})
                                \cup (IF ring'[s] # {} /\ (k # 0 => eps'[k] = {}) THEN {"leftover"} ELSE {})
         ELSE Deleted(k, e) /\ Upset("notDeleted", k # 0) /\ UNCHANGED <<ring, del, hwEpVars, failures>>
      /\ UNCHANGED <<mapVars, zeroVars, ctx, hwVars, countVars>>

\* After the Disable Slot command, whatever became of it.
DeleteEnd ==
  /\ del.pc = "disabled"
  /\ ctx' = [ctx EXCEPT ![del.slot] = FALSE]
  /\ MapEntry(del.addr, 0, FALSE, 0, 0)
  /\ del' = Idle /\ Deleted(del.dev, del.ep)
  /\ UNCHANGED <<zeroVars, ring, hwVars, hwEpVars, countVars, failures, upset>>

-----------------------------------------------------------------------------
(* Devices in use.                                                         *)

\* The status stage of any control request takes isBeingAddressed for its own.
StatusStage(d) ==
  /\ GateFree /\ Usable(d) /\ GetSlotID(addressOf[d]) # 0 /\ isBeingAddressed
  /\ DropZero /\ isBeingAddressed' = FALSE
  /\ Upset("stolen", TRUE)
  /\ UNCHANGED <<dzHubAddress, dzPortOnHub, slotVars, enum, del, familyVars, hwVars, hwEpVars, countVars, failures>>

\* UIMEnableAddressEndpoints.
EnableAddressEndpoints(d, enable) ==
  LET a == addressOf[d] IN
  /\ GateFree /\ Usable(d) /\ Active[a] # enable /\ Slot[a] # 0
  /\ Active' = [Active EXCEPT ![a] = enable]
  /\ UNCHANGED <<Slot, HubAddress, PortOnHub, zeroVars, slotVars, enum, del, familyVars, hwVars, hwEpVars, countVars,
                 failures, upset>>

\* UIMEnableAllEndpoints: an address without a slot is made inactive again.
EnableAllEndpoints ==
  /\ GateFree
  /\ Active' = [a \in 0 .. NumAddresses |-> Slot[a] # 0]
  /\ UNCHANGED <<Slot, HubAddress, PortOnHub, zeroVars, slotVars, enum, del, familyVars, hwVars, hwEpVars, countVars,
                 failures, upset>>

-----------------------------------------------------------------------------
(* The xHC's commands.                                                     *)

HwEnableSlot ==
  /\ enum.pc = "enable"
  /\ \/ \E s \in SlotIds :
          /\ hwState[s] = "disabled"
          /\ hwState' = [hwState EXCEPT ![s] = "enabled"]
          /\ enum' = [enum EXCEPT !.pc = "enabled", !.slot = s]
          /\ UNCHANGED failures
     \/ /\ \/ Fails
           \/ "disabled" \notin {hwState[s] : s \in SlotIds} /\ UNCHANGED failures
        /\ Goto("failed") /\ UNCHANGED hwState
  /\ UNCHANGED <<mapVars, zeroVars, slotVars, del, familyVars, hwPath, hwAddress, hwEpVars, countVars, upset>>

\* Address Device needs a device context. Set Address fails at a device that is gone.
HwAddressDevice ==
  /\ enum.pc \in {"address0", "address"}
  /\ LET s == enum.slot
         first == enum.pc = "address0"
     IN  \/ /\ ctx[s]
            /\ hwPath' = [hwPath EXCEPT ![s] = Append(Walk.route, Walk.port)]
            /\ IF first THEN hwState' = [hwState EXCEPT ![s] = "default"] /\ UNCHANGED hwAddress
               ELSE \E a \in Addresses \ {hwAddress[t] : t \in SlotIds} :
                      /\ hwState' = [hwState EXCEPT ![s] = "addressed"]
                      /\ hwAddress' = [hwAddress EXCEPT ![s] = a]
            /\ Goto(IF first THEN "default" ELSE "addressed")
            /\ UNCHANGED failures
         \/ /\ IF ctx[s] THEN Fails ELSE UNCHANGED failures
            /\ Goto("failed")
            /\ UNCHANGED hwVars
  /\ UNCHANGED <<mapVars, zeroVars, slotVars, del, familyVars, hwEpVars, countVars, upset>>

Disabled(s) ==
  /\ hwState' = [hwState EXCEPT ![s] = "disabled"] /\ hwPath' = [hwPath EXCEPT ![s] = <<>>]
  /\ hwAddress' = [hwAddress EXCEPT ![s] = 0]
  /\ hwEps' = [hwEps EXCEPT ![s] = {}] /\ hwCtxNum' = [hwCtxNum EXCEPT ![s] = 1]

\* The driver does not ask how the command ended, or whether it ended in time.
DisableSlot(s) ==
  \/ Disabled(s) /\ UNCHANGED <<failures, upset>>
  \/ Fails /\ Upset("notDisabled", TRUE) /\ UNCHANGED <<hwVars, hwEpVars>>

HwDisableSlot ==
  /\ \/ enum.pc = "disable" /\ DisableSlot(enum.slot) /\ enum' = Idle /\ UNCHANGED del
     \/ del.pc = "disable" /\ DisableSlot(del.slot) /\ del' = [del EXCEPT !.pc = "disabled"] /\ UNCHANGED enum
  /\ UNCHANGED <<mapVars, zeroVars, slotVars, familyVars, countVars>>

-----------------------------------------------------------------------------
Next ==
  \/ \E d \in Devices : EnableSlot(d) \/ StatusStage(d) \/ \E on \in BOOLEAN : EnableAddressEndpoints(d, on)
  \/ CreateControlEndpoint \/ CleanupControlEndpoint \/ SetAddress \/ MapAddress \/ SetAddressStatus
  \/ GetActualDeviceAddress
  \/ \E d \in Devices, e \in Endpoints : CreateEndpoint(d, e)
  \/ \E k \in 0 .. NumDevices, e \in Endpoints : DeleteEndpoint(k, e)
  \/ DeleteEnd
  \/ EnableAllEndpoints
  \/ HwEnableSlot \/ HwAddressDevice \/ HwDisableSlot

Spec == Init /\ [][Next]_vars

-----------------------------------------------------------------------------
\* A device the family has an address for is found by that address: its slot has a context of
\* its own, no other address leads there, the xHC addresses the device by the route from the
\* root hub to where it is plugged in, each endpoint the family has open has a ring and is
\* configured in that slot, and each configured endpoint has a ring. Not after a remap to the
\* address of a suspended device, which looks unused (UIMGetActualDeviceAddress tests Active
\* only); the last part not after DeconfigureEndpoint ignored a failed command.
OwnSlot ==
  "overwritten" \notin upset =>
    \A d \in Devices :
      addressOf[d] # 0 /\ del.dev # d =>
        LET a == addressOf[d]
            s == Slot[a]
        IN  /\ eps[d] \subseteq ring[s] /\ ctx[s]
            /\ hwPath[s] = PathOf[d]
            /\ \A b \in 0 .. NumAddresses \ {a} : Slot[b] # s
            /\ eps[d] \ {1} \subseteq hwEps[s]
            /\ "notDropped" \notin upset => hwEps[s] \subseteq ring[s]

\* Every slot the xHC has enabled can still be disabled: by the enumeration or deletion that is
\* under way, or through the address it is mapped from. Not when a Disable Slot command failed or
\* timed out (the driver drops context and mapping all the same), when the family deletes a device
\* whose endpoints are disabled (UIMDeleteEndpoint refuses the address), when the status stage
\* of another device gave address 0 up while isBeingAddressed was set, when Set Address failed
\* after the address was mapped, or when the ring of an endpoint whose Configure Endpoint failed
\* is left over after the family deleted the endpoints it knows.
NoSlotLost ==
  upset \cap {"notDisabled", "notDeleted", "stolen", "unknown", "leftover"} = {} =>
    \A s \in SlotIds : hwState[s] # "disabled" =>
      \/ s = enum.slot
      \/ s = del.slot
      \/ \E d \in Devices : addressOf[d] # 0 /\ Slot[addressOf[d]] = s

=============================================================================

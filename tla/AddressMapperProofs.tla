-------------------------- MODULE AddressMapperProofs --------------------------
(***************************************************************************)
(* Theorems about AddressMapper, for any number of devices, addresses,       *)
(* slots and endpoints: a device is found in a slot of its own (OwnSlot),    *)
(* and no slot is lost (NoSlotLost), from one invariant that relates the     *)
(* mapper, the slots of the xHC, the enumeration, the deletion and what the  *)
(* family knows (Inv). And, in its last part, about Controller, with which   *)
(* AddressMapper shares no variable: the xHC only runs on what was           *)
(* programmed (RunsProgrammed), and the micro-frame number never goes back   *)
(* (FrameNumberNeverGoesBack).                                              *)
(***************************************************************************)
EXTENDS AddressMapper, Controller, TLAPS, FiniteSetTheorems, SequenceTheorems,
        WellFoundedInduction, NaturalsInduction

-----------------------------------------------------------------------------
(* The inductive invariant.                                                *)

Entries == 0 .. NumAddresses
EnumPcs == {"idle", "enable", "enabled", "disable", "address0", "default", "address", "addressed",
            "status", "remap", "failed"}
Upsets  == {"overwritten", "stolen", "unknown", "notDeleted", "leftover", "notDropped",
            "notDisabled"}

EnumType ==
  enum \in [pc : EnumPcs, dev : 0 .. NumDevices, ep : {0}, slot : 0 .. NumSlots, addr : Entries]
DelType ==
  del \in [pc : {"idle", "disable", "disabled"}, dev : 0 .. NumDevices, ep : 0 .. NumEndpoints,
           slot : 0 .. NumSlots, addr : Entries]

MapType  == /\ Slot \in [Entries -> 0 .. NumSlots] /\ Active \in [Entries -> BOOLEAN]
            /\ HubAddress \in [Entries -> 0 .. RootHub] /\ PortOnHub \in [Entries -> 0 .. 2]
ZeroType == /\ isBeingAddressed \in BOOLEAN /\ dzHubAddress \in 0 .. RootHub /\ dzPortOnHub \in 0 .. 2
SlotType == ring \in [SlotIds -> SUBSET Endpoints] /\ ctx \in [SlotIds -> BOOLEAN]
FamilyType == addressOf \in [Devices -> Entries] /\ eps \in [Devices -> SUBSET Endpoints]
HwType   == /\ hwState \in [SlotIds -> {"disabled", "enabled", "default", "addressed"}]
            /\ DOMAIN hwPath = SlotIds /\ hwAddress \in [SlotIds -> Entries]
            /\ hwEps \in [SlotIds -> SUBSET Endpoints] /\ hwCtxNum \in [SlotIds -> Nat]

TypeOK == /\ MapType /\ ZeroType /\ SlotType /\ EnumType /\ DelType /\ FamilyType /\ HwType
          /\ upset \subseteq Upsets

\* The mapper: an entry has a slot that is enabled and that no other entry has, but for address
\* 0 and the new address of the device that is enumerated.
MapInv ==
  /\ \A b \in Entries :
       /\ Active[b] => Slot[b] # 0
       /\ Slot[b] # 0 /\ hwState[Slot[b]] = "disabled" => del.pc = "disabled" /\ b = del.addr
  /\ \A b \in Addresses : Slot[b] # 0 =>
       /\ \A c \in Addresses : Slot[c] = Slot[b] => c = b
       /\ Slot[0] = Slot[b] => enum.pc = "status" /\ b = enum.addr

\* The xHC's slots: nothing is left of one that is disabled, and addresses are unique.
SlotInv ==
  /\ \A s \in SlotIds : hwState[s] = "disabled" => ring[s] = {} /\ hwAddress[s] = 0
  /\ \A s, t \in SlotIds : hwAddress[s] # 0 /\ hwAddress[s] = hwAddress[t] => s = t
  /\ "notDropped" \notin upset => \A s \in SlotIds : hwEps[s] \subseteq ring[s]

\* The family's devices: each has an address of its own, and so has the hub it is plugged into.
FamilyInv ==
  /\ \A d \in Devices : addressOf[d] = 0 => eps[d] = {}
  /\ \A d \in Devices : addressOf[d] # 0 =>
       /\ 1 \in eps[d]
       /\ Parent(d) # 0 => addressOf[Parent(d)] # 0
       /\ \A x \in Devices : addressOf[x] = addressOf[d] => x = d

\* The mapper knows the way to a device.
DeviceInv ==
  \A d \in Devices : addressOf[d] # 0 =>
    LET a == addressOf[d]
        s == Slot[a]
    IN  /\ s # 0 /\ HubAddress[a] = ParentAddress(d) /\ PortOnHub[a] = Port(d)
        /\ del.dev # d =>
             /\ ctx[s] /\ hwPath[s] = PathOf[d] /\ eps[d] \subseteq ring[s]
             /\ \A e \in eps[d] \ {1} : e \in hwEps[s] /\ e <= hwCtxNum[s]

\* The device that is enumerated, and address 0.
ZeroInv ==
  /\ Active[0] <=> Slot[0] # 0
  /\ Slot[0] # 0 => /\ Slot[0] = enum.slot
                    /\ enum.pc \in {"address0", "default", "address", "addressed", "status", "failed"}
                    /\ enum.pc = "failed" => addressOf[enum.dev] = 0
                    /\ ring[Slot[0]] = IF del.dev = 0 /\ del.pc # "idle" THEN {} ELSE {1}

EnumInv ==
  /\ enum.pc = "idle" <=> enum.dev = 0
  /\ enum.pc = "idle" => enum.slot = 0
  /\ enum.pc \notin {"idle", "remap", "failed"} => addressOf[enum.dev] = 0
  /\ enum.pc # "idle" /\ Parent(enum.dev) # 0 => addressOf[Parent(enum.dev)] # 0
  /\ enum.pc \in {"enable", "enabled", "address0", "default", "address", "addressed"} =>
       dzHubAddress = ParentAddress(enum.dev) /\ dzPortOnHub = Port(enum.dev)
  /\ enum.pc = "enable" => enum.slot = 0
  /\ enum.pc \in {"enabled", "disable"} =>
       /\ enum.slot # 0 /\ hwState[enum.slot] # "disabled" /\ ring[enum.slot] = {}
       /\ \A b \in Addresses : Slot[b] # enum.slot
  /\ enum.pc \in {"address0", "default", "address", "addressed"} =>
       /\ enum.slot # 0 /\ hwState[enum.slot] # "disabled" /\ ring[enum.slot] = {1} /\ ctx[enum.slot]
       /\ \A b \in Addresses : Slot[b] # enum.slot
  /\ enum.pc \in {"address", "addressed", "status"} =>
       /\ isBeingAddressed \/ Slot[0] = 0
       /\ enum.addr # 0 /\ \A d \in Devices : addressOf[d] # enum.addr
  /\ enum.pc \in {"addressed", "status", "remap"} =>
       hwAddress[enum.slot] # 0 /\ hwPath[enum.slot] = PathOf[enum.dev]
  /\ enum.pc = "status" =>
       /\ ring[enum.slot] = {1} /\ ctx[enum.slot]
       /\ HubAddress[enum.addr] = ParentAddress(enum.dev) /\ PortOnHub[enum.addr] = Port(enum.dev)
  /\ enum.pc \in {"status", "remap"} =>
       enum.slot # 0 /\ Slot[enum.addr] = enum.slot /\ Active[enum.addr] /\ enum.addr # 0
  /\ enum.pc = "remap" =>
       /\ addressOf[enum.dev] = enum.addr
       /\ \A d \in Devices : Parent(d) = enum.dev => addressOf[d] = 0

\* The deletion that is under way.
DelInv ==
  /\ del.pc = "idle" => del.dev = 0 /\ del.slot = 0
  /\ del.pc # "idle" =>
       /\ enum.pc \in {"idle", "default", "status", "remap", "failed"}
       /\ del.slot # 0 /\ Slot[del.addr] = del.slot /\ ring[del.slot] = {}
       /\ IF del.dev = 0 THEN del.addr = 0 /\ enum.pc = "failed"
          ELSE del.addr = addressOf[del.dev] /\ del.addr # 0 /\ eps[del.dev] = {del.ep} /\ enum.dev # del.dev
               /\ \A d \in Devices : Parent(d) = del.dev => addressOf[d] = 0 /\ enum.dev # d
       /\ del.pc = "disabled" => hwState[del.slot] = "disabled" \/ "notDisabled" \in upset

\* Unless an enumeration was cut short after its device had an address, an address the mapper has
\* is that which the xHC chose.
AddressInv ==
  upset \cap {"unknown", "stolen"} = {} =>
    /\ \A b \in Addresses : Slot[b] # 0 =>
         \/ hwAddress[Slot[b]] = b
         \/ enum.pc \in {"status", "remap"} /\ b = enum.addr
         \/ del.pc = "disabled" /\ b = del.addr
    /\ enum.pc \in {"address0", "default", "address", "addressed", "status"} => Slot[0] = enum.slot

LostInv ==
  upset \cap {"notDisabled", "notDeleted", "stolen", "unknown", "leftover"} = {} =>
    /\ \A s \in SlotIds : hwState[s] # "disabled" =>
         \/ s = enum.slot
         \/ s = del.slot
         \/ \E d \in Devices : addressOf[d] # 0 /\ Slot[addressOf[d]] = s
    /\ enum.pc = "failed" /\ enum.slot # 0 =>
         \/ Slot[0] = enum.slot
         \/ addressOf[enum.dev] # 0 /\ Slot[addressOf[enum.dev]] = enum.slot

\* With an address overwritten nothing else is claimed, and that takes such an enumeration.
Sound == MapInv /\ SlotInv /\ FamilyInv /\ DeviceInv /\ ZeroInv /\ EnumInv /\ DelInv /\ AddressInv /\ LostInv

Inv ==
  /\ TypeOK
  /\ IF "overwritten" \in upset THEN upset \cap {"unknown", "stolen"} # {} ELSE Sound

-----------------------------------------------------------------------------
(* The operators.                                                          *)

\* The sizes, as facts about numbers.
LEMMA Sizes ==
  /\ NumDevices \in Nat /\ NumDevices >= 1 /\ NumDevices <= 31
  /\ NumAddresses \in Nat /\ NumAddresses >= 1 /\ NumSlots \in Nat /\ NumSlots >= 1
  /\ NumEndpoints \in Nat /\ NumEndpoints >= 2 /\ HubEndpoint \in Nat /\ HubEndpoint >= 2
     /\ HubEndpoint <= NumEndpoints
BY SizesAssumption

\* A device is behind one of a smaller number, or at the root hub.
LEMMA Parents ==
  ASSUME NEW d \in Devices
  PROVE  /\ Parent(d) \in 0 .. NumDevices /\ Parent(d) # d /\ Parent(d) < d /\ d \in Nat /\ d # 0
         /\ Parent(d) # 0 => Parent(d) \in Devices
         /\ 2 * Parent(d) <= d
BY Sizes DEF Parent, Devices

\* A set of natural numbers that is not empty has a least element.
LEMMA LeastNumber ==
  ASSUME NEW T \in SUBSET Nat, T # {}
  PROVE  \E least \in T : \A n \in T : least <= n
<1> DEFINE Less == {pair \in Nat \X Nat : pair[1] < pair[2]}
<1>1. IsWellFoundedOn(Less, Nat)
  BY NatLessThanWellFounded DEF OpToRel
<1>2. PICK least \in T : \A n \in T : ~(<<n, least>> \in Less)
  BY <1>1, WFMin
<1>3. ASSUME NEW n \in T PROVE least <= n
  <2>1. <<n, least>> \in Nat \X Nat /\ ~(n < least)
    BY <1>2
  <2> QED BY <2>1
<1> QED BY <1>3

\* The greatest element of a finite set of numbers is in it, and is the greatest.
LEMMA MaxIsGreatest ==
  ASSUME NEW n \in Nat, NEW S \in SUBSET (0 .. n), S # {}
  PROVE  Max(S) \in S /\ \A x \in S : x <= Max(S)
<1> DEFINE Above(k) == \A x \in S : x <= k
<1>1. \E m \in S : Above(m)
  <2> DEFINE Bounds == {k \in 0 .. n : Above(k)}
  <2>1. n \in Bounds
    OBVIOUS
  <2>2. PICK m \in Bounds : \A k \in Bounds : m <= k
    <3>1. Bounds \in SUBSET Nat /\ Bounds # {}
      BY <2>1
    <3> HIDE DEF Bounds
    <3> QED BY <3>1, LeastNumber
  <2>3. m \in S
    <3> SUFFICES ASSUME m \notin S PROVE FALSE
      OBVIOUS
    <3>1. PICK x \in S : TRUE
      OBVIOUS
    <3>2. x <= m /\ x # m /\ m \in 0 .. n /\ x \in 0 .. n
      BY <2>2, <3>1
    <3>3. m - 1 \in 0 .. n
      BY <3>2
    <3>4. ASSUME NEW y \in S PROVE y <= m - 1
      BY <2>2
    <3>5. m - 1 \in Bounds
      BY <3>3, <3>4
    <3> QED BY <2>2, <3>2, <3>5
  <2> QED BY <2>2, <2>3
<1>2. \E m \in S : \A y \in S : m >= y
  BY <1>1
<1>3. Max(S) \in S /\ \A y \in S : Max(S) >= y
  BY <1>2 DEF Max
<1> QED BY <1>3

\* PathOf as far as n hubs up, which is all of it for a device of the first 2^n.
Path1(d) == <<Port(d)>>
Path2(d) == IF Parent(d) = 0 THEN <<Port(d)>> ELSE <<Port(d)>> \o Path1(Parent(d))
Path3(d) == IF Parent(d) = 0 THEN <<Port(d)>> ELSE <<Port(d)>> \o Path2(Parent(d))
Path4(d) == IF Parent(d) = 0 THEN <<Port(d)>> ELSE <<Port(d)>> \o Path3(Parent(d))
Path5(d) == IF Parent(d) = 0 THEN <<Port(d)>> ELSE <<Port(d)>> \o Path4(Parent(d))

\* PathOf is what its definition says: the recursion has a solution.
LEMMA PathStep ==
  ASSUME NEW d \in Devices
  PROVE  PathOf[d] = IF Parent(d) = 0 THEN <<Port(d)>> ELSE <<Port(d)>> \o PathOf[Parent(d)]
<1> DEFINE paths == [x \in Devices |-> Path5(x)]
<1>1. ASSUME NEW x \in Devices
      PROVE  /\ x < 2 => Path1(x) = Path2(x)
             /\ x < 4 => Path2(x) = Path3(x)
             /\ x < 8 => Path3(x) = Path4(x)
             /\ x < 16 => Path4(x) = Path5(x)
  <2> DEFINE p == Parent(x)
             q == Parent(p)
             r == Parent(q)
  <2>1. p \in Nat /\ 2 * p <= x /\ x \in Nat
    BY Parents
  <2>2. p # 0 => q \in Nat /\ 2 * q <= p
    BY Parents
  <2>3. p # 0 /\ q # 0 => r \in Nat /\ 2 * r <= q
    BY Parents
  <2>4. p # 0 /\ q # 0 /\ r # 0 => Parent(r) \in Nat /\ 2 * Parent(r) <= r
    BY Parents
  <2> QED BY <2>1, <2>2, <2>3, <2>4 DEF Path1, Path2, Path3, Path4, Path5
<1>2. ASSUME NEW x \in Devices, Parent(x) # 0 PROVE Path4(Parent(x)) = Path5(Parent(x))
  <2>1. Parent(x) \in Devices /\ Parent(x) < 16
    BY <1>2, Parents, Sizes DEF Devices
  <2> QED BY <2>1, <1>1
<1>3. paths = [x \in Devices |-> IF Parent(x) = 0 THEN <<Port(x)>> ELSE <<Port(x)>> \o paths[Parent(x)]]
  <2>1. ASSUME NEW x \in Devices
        PROVE  Path5(x) = IF Parent(x) = 0 THEN <<Port(x)>> ELSE <<Port(x)>> \o paths[Parent(x)]
    BY <1>2, Parents DEF Path5
  <2> QED BY <2>1
<1> HIDE DEF paths
<1>4. PathOf = [x \in Devices |-> IF Parent(x) = 0 THEN <<Port(x)>> ELSE <<Port(x)>> \o PathOf[Parent(x)]]
  BY <1>3 DEF PathOf
<1> QED BY <1>4

\* A port of a hub is a digit that needs no clamping.
Ports == 1 .. 2
LEMMA PortType == ASSUME NEW d \in Devices PROVE Port(d) \in Ports /\ Clamped(Port(d)) = Port(d)
<1>1. d \in Int /\ MaxExternalHubPorts >= 2 /\ MaxExternalHubPorts \in Nat
  BY SizesAssumption DEF Devices
<1> QED BY <1>1 DEF Port, Ports, Clamped

\* A path is a sequence of ports.
LEMMA PathType ==
  ASSUME NEW d \in Devices
  PROVE  PathOf[d] \in Seq(Ports)
<1> DEFINE Wrong == {x \in Devices : PathOf[x] \notin Seq(Ports)}
<1> SUFFICES ASSUME Wrong # {} PROVE FALSE
  OBVIOUS
<1>1. PICK x \in Wrong : \A y \in Wrong : x <= y
  <2>1. Wrong \in SUBSET Nat
    BY Parents
  <2> HIDE DEF Wrong
  <2> QED BY <2>1, LeastNumber
<1>2. x \in Devices
  OBVIOUS
<1>3. PathOf[x] = IF Parent(x) = 0 THEN <<Port(x)>> ELSE <<Port(x)>> \o PathOf[Parent(x)]
  BY <1>2, PathStep
<1>4. CASE Parent(x) = 0
  <2>1. <<Port(x)>> \in Seq(Ports)
    BY <1>2, PortType
  <2> QED BY <1>1, <1>3, <1>4, <2>1
<1>5. CASE Parent(x) # 0
  <2>1. Parent(x) \in Devices /\ Parent(x) \notin Wrong
    BY <1>1, <1>2, <1>5, Parents
  <2>2. PathOf[Parent(x)] \in Seq(Ports) /\ <<Port(x)>> \in Seq(Ports)
    BY <1>2, <2>1, PortType
  <2>3. <<Port(x)>> \o PathOf[Parent(x)] \in Seq(Ports)
    BY <2>2, ConcatProperties
  <2> QED BY <1>1, <1>3, <1>5, <2>3
<1> QED BY <1>4, <1>5

-----------------------------------------------------------------------------
(* AddressDevice's walk.                                                   *)

\* One step of the walk.
WalkStep(w) ==
  IF w.hub = RootHub THEN w
  ELSE [hub |-> HubAddress[w.hub], port |-> PortOf(w), route |-> Append(w.route, Clamped(w.port))]

\* The walk after one to five steps.
Walk0 == [hub |-> dzHubAddress, port |-> dzPortOnHub, route |-> <<>>]
Walk1 == WalkStep(Walk0)
Walk2 == WalkStep(Walk1)
Walk3 == WalkStep(Walk2)
Walk4 == WalkStep(Walk3)
Walk5 == WalkStep(Walk4)

\* Walk is five steps.
LEMMA WalkIsFiveSteps == Walk = Walk5
<1> DEFINE Step(f, n) == IF n = 0 THEN Walk0 ELSE WalkStep(f[n - 1])
           walk == CHOOSE f : f = [n \in 0 .. 5 |-> Step(f, n)]
           five == [n \in 0 .. 5 |-> IF n = 0 THEN Walk0 ELSE IF n = 1 THEN Walk1 ELSE IF n = 2 THEN Walk2
                                     ELSE IF n = 3 THEN Walk3 ELSE IF n = 4 THEN Walk4 ELSE Walk5]
<1>1. Walk = walk[5]
  BY DEF Walk, WalkStep, Walk0
<1>2. five = [n \in 0 .. 5 |-> Step(five, n)]
  <2>1. ASSUME NEW n \in 0 .. 5 PROVE five[n] = Step(five, n)
    <3>1. n = 0 \/ n = 1 \/ n = 2 \/ n = 3 \/ n = 4 \/ n = 5
      OBVIOUS
    <3>2. /\ five[0] = Walk0 /\ five[1] = Walk1 /\ five[2] = Walk2
          /\ five[3] = Walk3 /\ five[4] = Walk4 /\ five[5] = Walk5
      OBVIOUS
    <3> HIDE DEF five
    <3> QED BY <3>1, <3>2 DEF Walk1, Walk2, Walk3, Walk4, Walk5
  <2>2. five = [n \in 0 .. 5 |-> five[n]]
    OBVIOUS
  <2> HIDE DEF five, Step
  <2> QED BY <2>1, <2>2
<1> HIDE DEF five, Step
<1>3. walk = [n \in 0 .. 5 |-> Step(walk, n)]
  BY <1>2
<1> HIDE DEF walk
<1>4. /\ walk[0] = Step(walk, 0) /\ walk[1] = Step(walk, 1) /\ walk[2] = Step(walk, 2)
      /\ walk[3] = Step(walk, 3) /\ walk[4] = Step(walk, 4) /\ walk[5] = Step(walk, 5)
  BY <1>3
<1>5. walk[5] = Walk5
  BY <1>4 DEF Step, Walk1, Walk2, Walk3, Walk4, Walk5
<1> QED BY <1>1, <1>5

\* The walk to device d has come to device x, whose hubs it has yet to pass; x is less than n.
OnTheWay(d, w, x, n) ==
  /\ w.hub = ParentAddress(x) /\ w.port = Port(x) /\ w.route \in Seq(Ports)
  /\ w.route \o PathOf[x] = PathOf[d]
  /\ Parent(x) # 0 => addressOf[Parent(x)] # 0
  /\ Parent(x) = 0 \/ x < n

\* A step takes the walk one hub up.
LEMMA WalkUp ==
  ASSUME MapType, FamilyType, FamilyInv, DeviceInv, NEW n \in Nat, NEW d \in Devices, NEW x \in Devices,
         NEW w, OnTheWay(d, w, x, 2 * n)
  PROVE  \E y \in Devices : OnTheWay(d, WalkStep(w), y, n)
<1> DEFINE p == Parent(x)
<1>1. CASE p = 0
  <2>1. w.hub = RootHub
    BY <1>1 DEF OnTheWay, ParentAddress
  <2>2. WalkStep(w) = w
    BY <2>1 DEF WalkStep
  <2>3. OnTheWay(d, WalkStep(w), x, n)
    BY <1>1, <2>2 DEF OnTheWay
  <2> QED BY <2>3
<1>2. CASE p # 0
  <2>1. /\ p \in Devices /\ 2 * p <= x /\ p \in Nat /\ x \in Nat /\ x < 2 * n
        /\ addressOf[p] # 0 /\ addressOf[p] \in Entries
    BY <1>2, Parents DEF OnTheWay, FamilyType
  <2>2. w.hub = addressOf[p] /\ w.hub # RootHub
    <3>1. addressOf[p] # RootHub
      BY <2>1, Sizes DEF RootHub, Entries
    <3> QED BY <1>2, <3>1 DEF OnTheWay, ParentAddress
  <2>3. WalkStep(w) = [hub |-> ParentAddress(p), port |-> Port(p), route |-> Append(w.route, Port(x))]
    <3>1. HubAddress[addressOf[p]] = ParentAddress(p) /\ PortOnHub[addressOf[p]] = Port(p)
      BY <2>1 DEF DeviceInv
    <3> QED BY <2>2, <3>1, PortType DEF WalkStep, PortOf, OnTheWay
  <2>4. Append(w.route, Port(x)) \in Seq(Ports) /\ Append(w.route, Port(x)) \o PathOf[p] = PathOf[d]
    <3>1. w.route \in Seq(Ports) /\ <<Port(x)>> \in Seq(Ports) /\ PathOf[p] \in Seq(Ports)
      BY <2>1, PathType, PortType DEF OnTheWay
    <3>2. Append(w.route, Port(x)) = w.route \o <<Port(x)>>
      BY <3>1, AppendIsConcat
    <3>3. Append(w.route, Port(x)) \in Seq(Ports)
      BY <3>1
    <3>4. ASSUME NEW r \in Seq(Ports), NEW t \in Seq(Ports), NEW u \in Seq(Ports)
          PROVE  (r \o t) \o u = r \o (t \o u)
      BY ConcatAssociative
    <3>5. (w.route \o <<Port(x)>>) \o PathOf[p] = w.route \o (<<Port(x)>> \o PathOf[p])
      BY <3>1, <3>4
    <3>6. <<Port(x)>> \o PathOf[p] = PathOf[x]
      BY <1>2, PathStep
    <3>7. w.route \o PathOf[x] = PathOf[d]
      BY DEF OnTheWay
    <3>8. Append(w.route, Port(x)) \o PathOf[p] = w.route \o PathOf[x]
      BY <3>2, <3>5, <3>6
    <3> QED BY <3>3, <3>7, <3>8
  <2>5. p < n
    BY <2>1
  <2>6. Parent(p) # 0 => addressOf[Parent(p)] # 0
    BY <2>1 DEF FamilyInv
  <2>7. OnTheWay(d, WalkStep(w), p, n)
    <3>1. /\ WalkStep(w).hub = ParentAddress(p) /\ WalkStep(w).port = Port(p)
          /\ WalkStep(w).route = Append(w.route, Port(x))
      BY <2>3
    <3> QED BY <3>1, <2>4, <2>5, <2>6 DEF OnTheWay
  <2> QED BY <2>1, <2>7
<1> QED BY <1>1, <1>2

\* From the hub and the port of a device, the walk finds its path.
LEMMA WalkFindsPath ==
  ASSUME MapType, FamilyType, FamilyInv, DeviceInv, NEW d \in Devices,
         dzHubAddress = ParentAddress(d), dzPortOnHub = Port(d), Parent(d) # 0 => addressOf[Parent(d)] # 0
  PROVE  Append(Walk.route, Walk.port) = PathOf[d]
<1>1. OnTheWay(d, Walk0, d, 2 * 16)
  <2>1. <<>> \in Seq(Ports) /\ <<>> \o PathOf[d] = PathOf[d]
    BY PathType, ConcatEmptySeq
  <2>2. d < 2 * 16
    BY Sizes DEF Devices
  <2> QED BY <2>1, <2>2 DEF OnTheWay, Walk0
<1>2. PICK x1 \in Devices : OnTheWay(d, Walk1, x1, 2 * 8)
  <2>1. \E y \in Devices : OnTheWay(d, Walk1, y, 16)
    BY <1>1, WalkUp DEF Walk1
  <2> QED BY <2>1
<1>3. PICK x2 \in Devices : OnTheWay(d, Walk2, x2, 2 * 4)
  <2>1. \E y \in Devices : OnTheWay(d, Walk2, y, 8)
    BY <1>2, WalkUp DEF Walk2
  <2> QED BY <2>1
<1>4. PICK x3 \in Devices : OnTheWay(d, Walk3, x3, 2 * 2)
  <2>1. \E y \in Devices : OnTheWay(d, Walk3, y, 4)
    BY <1>3, WalkUp DEF Walk3
  <2> QED BY <2>1
<1>5. PICK x4 \in Devices : OnTheWay(d, Walk4, x4, 2 * 1)
  <2>1. \E y \in Devices : OnTheWay(d, Walk4, y, 2)
    BY <1>4, WalkUp DEF Walk4
  <2> QED BY <2>1
<1>6. PICK x5 \in Devices : OnTheWay(d, Walk5, x5, 1)
  <2>1. \E y \in Devices : OnTheWay(d, Walk5, y, 1)
    BY <1>5, WalkUp DEF Walk5
  <2> QED BY <2>1
<1>7. Parent(x5) = 0 /\ PathOf[x5] = <<Port(x5)>>
  <2>1. ~(x5 < 1)
    BY DEF Devices
  <2>2. Parent(x5) = 0
    BY <1>6, <2>1 DEF OnTheWay
  <2> QED BY <2>2, PathStep
<1>8. Walk.route \in Seq(Ports) /\ Walk.port = Port(x5) /\ Walk.route \o <<Port(x5)>> = PathOf[d]
  BY <1>6, <1>7, WalkIsFiveSteps DEF OnTheWay
<1> QED BY <1>8, AppendIsConcat

-----------------------------------------------------------------------------
(* Types.                                                                  *)

\* The fields of the family's records.
LEMMA Fields ==
  ASSUME EnumType, DelType
  PROVE  /\ enum = [pc |-> enum.pc, dev |-> enum.dev, ep |-> 0, slot |-> enum.slot, addr |-> enum.addr]
         /\ enum.pc \in EnumPcs /\ enum.dev \in 0 .. NumDevices /\ enum.slot \in 0 .. NumSlots
            /\ enum.addr \in Entries
         /\ del = [pc |-> del.pc, dev |-> del.dev, ep |-> del.ep, slot |-> del.slot, addr |-> del.addr]
         /\ del.pc \in {"idle", "disable", "disabled"} /\ del.dev \in 0 .. NumDevices
         /\ del.ep \in 0 .. NumEndpoints /\ del.slot \in 0 .. NumSlots /\ del.addr \in Entries
BY DEF EnumType, DelType

\* Idle is of both types.
LEMMA IdleTypes ==
  /\ Idle = [pc |-> "idle", dev |-> 0, ep |-> 0, slot |-> 0, addr |-> 0]
  /\ 0 \in 0 .. NumDevices /\ 0 \in 0 .. NumEndpoints /\ 0 \in 0 .. NumSlots /\ 0 \in Entries /\ 0 \in 0 .. RootHub
  /\ 0 \in 0 .. 2
BY Sizes DEF Idle, Entries, RootHub

\* Goto changes nothing of the enumeration but where it is.
LEMMA GotoKeeps ==
  ASSUME EnumType, DelType, NEW pc \in EnumPcs, Goto(pc)
  PROVE  EnumType' /\ enum' = [pc |-> pc, dev |-> enum.dev, ep |-> 0, slot |-> enum.slot, addr |-> enum.addr]
<1>1. enum' = [pc |-> pc, dev |-> enum.dev, ep |-> 0, slot |-> enum.slot, addr |-> enum.addr]
  BY Fields DEF Goto
<1> QED BY <1>1, Fields DEF EnumType

\* The hub a device is plugged into has an address.
LEMMA ParentAddressType ==
  ASSUME FamilyType, NEW d \in Devices
  PROVE  ParentAddress(d) \in 0 .. RootHub
<1>1. RootHub \in 0 .. RootHub /\ \A a \in Entries : a \in 0 .. RootHub
  BY Sizes DEF RootHub, Entries
<1> QED BY <1>1, Parents DEF ParentAddress, FamilyType

\* The slot of an address.
LEMMA GetSlotIDType ==
  ASSUME MapType, NEW a
  PROVE  /\ GetSlotID(a) \in 0 .. NumSlots
         /\ GetSlotID(a) # 0 => /\ a \in Entries /\ Active[a] /\ GetSlotID(a) = Slot[a]
                                /\ GetSlotID(a) \in SlotIds
BY IdleTypes, Sizes DEF GetSlotID, MapType, Entries, SlotIds

\* What DeconfigureEndpoint does: in slot s only, it may drop endpoint e; an endpoint beside e
\* and the control endpoint stays configured.
Deconfigures(s, e) ==
  /\ hwEps' \in [SlotIds -> SUBSET Endpoints] /\ hwCtxNum' \in [SlotIds -> Nat]
  /\ \A t \in SlotIds : t # s => hwEps'[t] = hwEps[t] /\ hwCtxNum'[t] = hwCtxNum[t]
  /\ hwEps'[s] \subseteq hwEps[s]
  /\ \A f \in ring[s] \ {1, e} :
       f \in hwEps[s] /\ f <= hwCtxNum[s] => f \in hwEps'[s] /\ f <= hwCtxNum'[s]

\* The number of contexts without endpoint e is no less than any endpoint before e that has a
\* ring.
LEMMA NumCtxType ==
  ASSUME SlotType, HwType, NEW s \in SlotIds, NEW e \in Endpoints
  PROVE  /\ NumCtx(s, e) \in Nat
         /\ hwCtxNum[s] # e => NumCtx(s, e) = hwCtxNum[s]
         /\ \A f \in ring[s] : f < e /\ hwCtxNum[s] = e => f <= NumCtx(s, e)
<1> DEFINE below == {1} \cup {x \in ring[s] : x < e}
<1>1. below \in SUBSET (0 .. NumEndpoints) /\ below # {} /\ NumEndpoints \in Nat
  <2>1. ring[s] \in SUBSET Endpoints
    BY DEF SlotType
  <2> QED BY <2>1, Sizes DEF Endpoints
<1>2. Max(below) \in below /\ \A x \in below : x <= Max(below)
  <2> HIDE DEF below
  <2> QED BY <1>1, MaxIsGreatest
<1>3. Max(below) \in Nat
  BY <1>1, <1>2
<1>4. NumCtx(s, e) = IF hwCtxNum[s] = e THEN Max(below) ELSE hwCtxNum[s]
  BY DEF NumCtx
<1>5. hwCtxNum[s] \in Nat
  BY DEF HwType
<1> QED BY <1>2, <1>3, <1>4, <1>5

\* DeconfigureEndpoint does that.
LEMMA DeconfigureDoes ==
  ASSUME SlotType, HwType, NEW s \in SlotIds, NEW e \in Endpoints, DeconfigureEndpoint(s, e)
  PROVE  Deconfigures(s, e)
<1>1. CASE UNCHANGED hwEpVars
  BY <1>1 DEF hwEpVars, HwType, Deconfigures
<1>2. CASE /\ hwEps' = [hwEps EXCEPT ![s] = IF NumCtx(s, e) = 1 THEN {} ELSE @ \ {e}]
           /\ hwCtxNum' = [hwCtxNum EXCEPT ![s] = NumCtx(s, e)]
  <2> DEFINE n == NumCtx(s, e)
  <2>1. /\ n \in Nat /\ (hwCtxNum[s] # e => n = hwCtxNum[s])
        /\ \A f \in ring[s] : f < e /\ hwCtxNum[s] = e => f <= n
    BY NumCtxType
  <2> HIDE DEF n
  <2>2. /\ hwEps' = [hwEps EXCEPT ![s] = IF n = 1 THEN {} ELSE hwEps[s] \ {e}]
        /\ hwCtxNum' = [hwCtxNum EXCEPT ![s] = n]
    BY <1>2 DEF n
  <2>3. hwEps'[s] = (IF n = 1 THEN {} ELSE hwEps[s] \ {e}) /\ hwCtxNum'[s] = n
    BY <2>2 DEF HwType
  <2>4. hwEps' \in [SlotIds -> SUBSET Endpoints] /\ hwCtxNum' \in [SlotIds -> Nat]
    BY <2>1, <2>2 DEF HwType
  <2>5. \A t \in SlotIds : t # s => hwEps'[t] = hwEps[t] /\ hwCtxNum'[t] = hwCtxNum[t]
    BY <2>2 DEF HwType
  <2>6. ASSUME NEW f \in ring[s] \ {1, e}, f \in hwEps[s], f <= hwCtxNum[s]
        PROVE  f \in hwEps'[s] /\ f <= hwCtxNum'[s]
    <3>1. f \in Nat /\ f >= 1 /\ f # 1 /\ f # e /\ hwCtxNum[s] \in Nat /\ e \in Nat
      BY Sizes DEF SlotType, HwType, Endpoints
    <3>2. f <= n
      BY <2>1, <2>6, <3>1
    <3> QED BY <2>1, <2>3, <2>6, <3>1, <3>2
  <2> QED BY <2>3, <2>4, <2>5, <2>6 DEF Deconfigures
<1> QED BY <1>1, <1>2 DEF DeconfigureEndpoint

\* What the family knows stays of its type when it is done with an endpoint.
LEMMA DeletedTypes ==
  ASSUME EnumType, DelType, FamilyType, NEW k \in 0 .. NumDevices, NEW e, Deleted(k, e)
  PROVE  EnumType' /\ FamilyType'
<1>1. CASE k = 0
  BY <1>1, IdleTypes DEF Deleted, EnumType, EnumPcs, FamilyType, familyVars
<1>2. CASE k # 0
  <2>1. k \in Devices /\ enum' = enum /\ eps' = [eps EXCEPT ![k] = @ \ {e}]
        /\ addressOf' \in {[addressOf EXCEPT ![k] = 0], addressOf}
    BY <1>2, Sizes DEF Deleted, Devices
  <2> QED BY <2>1, IdleTypes DEF EnumType, FamilyType
<1> QED BY <1>1, <1>2

\* Nothing takes back what was ignored.
LEMMA UpsetStays == [Next]_vars => upset \subseteq upset'
BY DEF Next, vars, EnableSlot, StatusStage, EnableAddressEndpoints, CreateControlEndpoint, CleanupControlEndpoint,
       SetAddress, MapAddress, SetAddressStatus, GetActualDeviceAddress, CreateEndpoint, DeleteEndpoint, DeleteEnd,
       EnableAllEndpoints, HwEnableSlot, HwAddressDevice, HwDisableSlot, DisableSlot, Upset

\* Every step keeps the types.
LEMMA TypeStep == TypeOK /\ [Next]_vars => TypeOK'
<1> SUFFICES ASSUME TypeOK, [Next]_vars PROVE TypeOK'
  OBVIOUS
<1>a. /\ MapType /\ ZeroType /\ SlotType /\ EnumType /\ DelType /\ FamilyType /\ HwType
      /\ upset \subseteq Upsets
  BY DEF TypeOK
<1>b. \A s : (s \in SlotIds => s \in 0 .. NumSlots) /\ (s \in 0 .. NumSlots /\ s # 0 => s \in SlotIds)
  BY Sizes DEF SlotIds
<1>c. \A d : (d \in Devices => d \in 0 .. NumDevices) /\ (d \in 0 .. NumDevices /\ d # 0 => d \in Devices)
  BY Sizes DEF Devices
<1>d. \A a : a \in Addresses => a \in Entries
  BY Sizes DEF Addresses, Entries
<1>1. ASSUME NEW d \in Devices, EnableSlot(d) PROVE TypeOK'
  <2>1. enum' = [pc |-> "enable", dev |-> d, ep |-> 0, slot |-> 0, addr |-> 0]
    BY <1>1, IdleTypes DEF EnableSlot
  <2>2. EnumType'
    BY <2>1, <1>c, IdleTypes DEF EnumType, EnumPcs
  <2>3. ZeroType'
    BY <1>1, <1>a, <1>c, ParentAddressType, PortType DEF EnableSlot, ZeroType, Ports
  <2> QED BY <1>1, <1>a, <2>2, <2>3 DEF EnableSlot, TypeOK, mapVars, slotVars, familyVars, hwVars, hwEpVars,
                                       MapType, SlotType, DelType, FamilyType, HwType
<1>2. CASE CreateControlEndpoint
  <2>1. EnumType'
    BY <1>2, <1>a, GotoKeeps DEF CreateControlEndpoint, AddressDevice, EnumPcs
  <2>2. MapType' /\ SlotType'
    <3>1. CASE UNCHANGED <<mapVars, slotVars>>
      BY <3>1, <1>a DEF mapVars, slotVars, MapType, SlotType
    <3>2. CASE /\ Slot' = [Slot EXCEPT ![0] = enum.slot] /\ Active' = [Active EXCEPT ![0] = TRUE]
               /\ ring' = [ring EXCEPT ![enum.slot] = @ \cup {1}] /\ ctx' = [ctx EXCEPT ![enum.slot] = TRUE]
               /\ UNCHANGED <<HubAddress, PortOnHub>>
      <4>1. 1 \in Endpoints
        BY Sizes DEF Endpoints
      <4> QED BY <3>2, <4>1, <1>a, Fields DEF MapType, SlotType
    <3> QED BY <1>2, <3>1, <3>2 DEF CreateControlEndpoint
  <2> QED BY <1>2, <1>a, <2>1, <2>2 DEF CreateControlEndpoint, TypeOK, zeroVars, familyVars, hwVars, hwEpVars,
                                       ZeroType, DelType, FamilyType, HwType
<1>3. CASE CleanupControlEndpoint
  <2>1. EnumType'
    BY <1>3, <1>a, GotoKeeps DEF CleanupControlEndpoint, EnumPcs
  <2>2. MapType' /\ SlotType'
    BY <1>3, <1>a, IdleTypes DEF CleanupControlEndpoint, DropZero, MapType, SlotType
  <2> QED BY <1>3, <1>a, <2>1, <2>2 DEF CleanupControlEndpoint, TypeOK, zeroVars, familyVars, hwVars, hwEpVars,
                                       ZeroType, DelType, FamilyType, HwType
<1>4. CASE SetAddress
  <2>1. PICK a \in Addresses :
          IF GetSlotID(0) = 0 THEN Goto("failed") /\ UNCHANGED isBeingAddressed
          ELSE /\ isBeingAddressed' = TRUE
               /\ enum' = [enum EXCEPT !.pc = IF RouteFound THEN "address" ELSE "failed", !.addr = a]
    BY <1>4 DEF SetAddress
  <2>2. EnumType' /\ isBeingAddressed' \in BOOLEAN
    <3>1. CASE Goto("failed") /\ UNCHANGED isBeingAddressed
      <4>1. EnumType'
        BY <3>1, <1>a, GotoKeeps DEF EnumPcs
      <4>2. isBeingAddressed' \in BOOLEAN
        BY <3>1, <1>a DEF ZeroType
      <4> QED BY <4>1, <4>2
    <3>2. CASE /\ isBeingAddressed' = TRUE
               /\ enum' = [enum EXCEPT !.pc = IF RouteFound THEN "address" ELSE "failed", !.addr = a]
      BY <3>2, <1>a, <1>d, Fields DEF EnumType, EnumPcs
    <3> QED BY <2>1, <3>1, <3>2
  <2> QED BY <1>4, <1>a, <2>2 DEF SetAddress, TypeOK, mapVars, slotVars, familyVars, hwVars, hwEpVars,
                                 MapType, ZeroType, SlotType, DelType, FamilyType, HwType
<1>5. CASE MapAddress
  <2>1. EnumType'
    BY <1>5, <1>a, GotoKeeps DEF MapAddress, EnumPcs
  <2>2. MapType' /\ ZeroType'
    BY <1>5, <1>a, Fields, IdleTypes DEF MapAddress, MapEntry, MapType, ZeroType
  <2> QED BY <1>5, <1>a, <2>1, <2>2 DEF MapAddress, TypeOK, slotVars, familyVars, hwVars, hwEpVars,
                                       SlotType, DelType, FamilyType, HwType
<1>6. CASE SetAddressStatus
  <2>1. EnumType'
    BY <1>6, <1>a, GotoKeeps DEF SetAddressStatus, EnumPcs
  <2>2. MapType' /\ isBeingAddressed' \in BOOLEAN
    BY <1>6, <1>a, IdleTypes DEF SetAddressStatus, DropZero, mapVars, MapType, ZeroType
  <2>3. FamilyType'
    <3>1. 1 \in Endpoints
      BY Sizes DEF Endpoints
    <3>2. \/ UNCHANGED familyVars
          \/ /\ addressOf' = [addressOf EXCEPT ![enum.dev] = enum.addr]
             /\ eps' = [eps EXCEPT ![enum.dev] = {1}]
      BY <1>6 DEF SetAddressStatus
    <3> QED BY <3>1, <3>2, <1>a, Fields DEF FamilyType, familyVars
  <2>4. upset' \subseteq Upsets
    BY <1>6, <1>a DEF SetAddressStatus, Upset, Upsets
  <2>5. UNCHANGED <<dzHubAddress, dzPortOnHub, slotVars, del, hwVars, hwEpVars>>
    BY <1>6 DEF SetAddressStatus
  <2> QED BY <1>a, <2>1, <2>2, <2>3, <2>4, <2>5 DEF TypeOK, slotVars, hwVars, hwEpVars,
                                       ZeroType, SlotType, DelType, HwType
<1>7. CASE GetActualDeviceAddress
  <2> DEFINE current == enum.addr
             s == GetSlotID(current)
             a == IF s = 0 THEN 0 ELSE hwAddress[s]
  <2>1. EnumType'
    BY <1>7, <1>a, GotoKeeps DEF GetActualDeviceAddress, EnumPcs
  <2>2. a \in Entries /\ current \in Entries
    BY <1>a, GetSlotIDType, IdleTypes, Fields DEF HwType
  <2>3. \/ UNCHANGED <<mapVars, addressOf, upset>>
        \/ /\ Slot' = Moved(Slot, current, a, 0) /\ Active' = Moved(Active, current, a, FALSE)
           /\ HubAddress' = Moved(HubAddress, current, a, 0) /\ PortOnHub' = Moved(PortOnHub, current, a, 0)
           /\ addressOf' = [addressOf EXCEPT ![enum.dev] = a]
           /\ upset' \subseteq upset \cup {"overwritten"}
    BY <1>7 DEF GetActualDeviceAddress, Upset
  <2> HIDE DEF a, s, current
  <2>4. MapType' /\ addressOf' \in [Devices -> Entries] /\ upset' \subseteq Upsets
    <3>1. CASE UNCHANGED <<mapVars, addressOf, upset>>
      BY <3>1, <1>a DEF mapVars, MapType, FamilyType
    <3>2. CASE /\ Slot' = Moved(Slot, current, a, 0) /\ Active' = Moved(Active, current, a, FALSE)
               /\ HubAddress' = Moved(HubAddress, current, a, 0) /\ PortOnHub' = Moved(PortOnHub, current, a, 0)
               /\ addressOf' = [addressOf EXCEPT ![enum.dev] = a]
               /\ upset' \subseteq upset \cup {"overwritten"}
      <4>1. MapType'
        BY <3>2, <2>2, <1>a, IdleTypes DEF Moved, MapType
      <4> QED BY <3>2, <2>2, <1>a, <4>1 DEF FamilyType, Upsets
    <3> QED BY <2>3, <3>1, <3>2
  <2>5. UNCHANGED <<eps, zeroVars, slotVars, del, hwVars, hwEpVars>>
    BY <1>7 DEF GetActualDeviceAddress
  <2> QED BY <1>a, <2>1, <2>4, <2>5 DEF TypeOK, zeroVars, slotVars, hwVars, hwEpVars,
                                       ZeroType, SlotType, DelType, FamilyType, HwType
<1>8. ASSUME NEW d \in Devices, NEW e \in Endpoints, CreateEndpoint(d, e) PROVE TypeOK'
  <2> DEFINE s == GetSlotID(addressOf[d])
  <2>1. s \in SlotIds
    BY <1>8, <1>a, GetSlotIDType DEF CreateEndpoint
  <2>2. /\ ring' \in {ring, [ring EXCEPT ![s] = @ \cup {e}]}
        /\ \/ UNCHANGED <<hwEpVars, eps>>
           \/ /\ hwEps' = [hwEps EXCEPT ![s] = @ \cup {e}]
              /\ hwCtxNum' = [hwCtxNum EXCEPT ![s] = IF @ < e THEN e ELSE @]
              /\ eps' = [eps EXCEPT ![d] = @ \cup {e}]
        /\ UNCHANGED <<mapVars, zeroVars, ctx, enum, del, addressOf, hwVars, upset>>
    BY <1>8 DEF CreateEndpoint
  <2> HIDE DEF s
  <2>3. e \in Nat
    BY Sizes DEF Endpoints
  <2>4. SlotType'
    BY <2>1, <2>2, <1>a DEF SlotType
  <2>5. FamilyType' /\ hwEps' \in [SlotIds -> SUBSET Endpoints] /\ hwCtxNum' \in [SlotIds -> Nat]
    BY <2>1, <2>2, <2>3, <1>a DEF FamilyType, HwType, hwEpVars
  <2> QED BY <1>a, <2>2, <2>4, <2>5 DEF TypeOK, mapVars, zeroVars, hwVars, MapType, ZeroType, EnumType, DelType,
                                        HwType
<1>9. ASSUME NEW k \in 0 .. NumDevices, NEW e \in Endpoints, DeleteEndpoint(k, e) PROVE TypeOK'
  <2> DEFINE a == IF k = 0 THEN 0 ELSE addressOf[k]
             s == GetSlotID(a)
  <2>1. a \in Entries /\ (s # 0 => s \in SlotIds)
    BY <1>a, <1>c, GetSlotIDType, IdleTypes DEF FamilyType
  <2>2. \/ s # 0 /\ DeconfigureEndpoint(s, e) /\ DeleteRing(k, e, a, s)
           /\ upset' \subseteq upset \cup {"notDropped", "leftover"}
        \/ s = 0 /\ Deleted(k, e) /\ Upset("notDeleted", k # 0) /\ UNCHANGED <<ring, del, hwEpVars, failures>>
    BY <1>9 DEF DeleteEndpoint
  <2>3. UNCHANGED <<mapVars, zeroVars, ctx, hwVars, countVars>>
    BY <1>9 DEF DeleteEndpoint
  <2> HIDE DEF a, s
  <2>4. CASE s # 0 /\ DeconfigureEndpoint(s, e) /\ DeleteRing(k, e, a, s)
             /\ upset' \subseteq upset \cup {"notDropped", "leftover"}
    <3>1. hwEps' \in [SlotIds -> SUBSET Endpoints] /\ hwCtxNum' \in [SlotIds -> Nat]
      BY <2>1, <2>4, <1>a, DeconfigureDoes DEF Deconfigures
    <3>2. ring' \in [SlotIds -> SUBSET Endpoints]
      BY <2>1, <2>4, <1>a DEF DeleteRing, SlotType
    <3>3. \/ del' = [pc |-> "disable", dev |-> k, ep |-> e, slot |-> s, addr |-> a] /\ UNCHANGED <<enum, familyVars>>
          \/ Deleted(k, e) /\ UNCHANGED del
      BY <2>4 DEF DeleteRing
    <3>4. EnumType' /\ DelType' /\ FamilyType'
      <4>1. e \in 0 .. NumEndpoints /\ (s \in SlotIds => s \in 0 .. NumSlots)
        BY <1>b, Sizes DEF Endpoints
      <4>2. CASE del' = [pc |-> "disable", dev |-> k, ep |-> e, slot |-> s, addr |-> a]
                 /\ UNCHANGED <<enum, familyVars>>
        BY <2>1, <2>4, <4>1, <4>2, <1>a DEF familyVars, EnumType, DelType, FamilyType
      <4>3. CASE Deleted(k, e) /\ UNCHANGED del
        BY <4>3, <1>a, DeletedTypes DEF DelType
      <4> QED BY <3>3, <4>2, <4>3
    <3>5. upset' \subseteq Upsets
      BY <2>4, <1>a DEF Upsets
    <3> QED BY <1>a, <2>3, <3>1, <3>2, <3>4, <3>5 DEF TypeOK, mapVars, zeroVars, hwVars, MapType, ZeroType,
                                                      SlotType, HwType
  <2>5. CASE s = 0 /\ Deleted(k, e) /\ Upset("notDeleted", k # 0) /\ UNCHANGED <<ring, del, hwEpVars, failures>>
    <3>1. EnumType' /\ FamilyType'
      BY <2>5, <1>a, DeletedTypes
    <3>2. upset' \subseteq Upsets
      BY <2>5, <1>a DEF Upset, Upsets
    <3> QED BY <1>a, <2>3, <2>5, <3>1, <3>2 DEF TypeOK, mapVars, zeroVars, hwVars, hwEpVars, MapType, ZeroType,
                                               SlotType, DelType, HwType
  <2> QED BY <2>2, <2>4, <2>5
<1>10. CASE DeleteEnd
  <2>1. EnumType' /\ FamilyType'
    BY <1>10, <1>a, Fields, DeletedTypes DEF DeleteEnd
  <2>2. DelType'
    BY <1>10, IdleTypes DEF DeleteEnd, DelType
  <2>3. MapType' /\ SlotType'
    BY <1>10, <1>a, IdleTypes DEF DeleteEnd, MapEntry, MapType, SlotType
  <2> QED BY <1>10, <1>a, <2>1, <2>2, <2>3 DEF DeleteEnd, TypeOK, zeroVars, hwVars, hwEpVars, ZeroType, HwType
<1>11. ASSUME NEW d \in Devices, StatusStage(d) PROVE TypeOK'
  <2>1. MapType' /\ ZeroType'
    BY <1>11, <1>a, IdleTypes DEF StatusStage, DropZero, MapType, ZeroType
  <2>2. upset' \subseteq Upsets
    BY <1>11, <1>a DEF StatusStage, Upset, Upsets
  <2> QED BY <1>11, <1>a, <2>1, <2>2 DEF StatusStage, TypeOK, slotVars, familyVars, hwVars, hwEpVars,
                                       SlotType, EnumType, DelType, FamilyType, HwType
<1>12. ASSUME NEW d \in Devices, NEW on \in BOOLEAN, EnableAddressEndpoints(d, on) PROVE TypeOK'
  <2>1. MapType'
    BY <1>12, <1>a DEF EnableAddressEndpoints, MapType
  <2> QED BY <1>12, <1>a, <2>1 DEF EnableAddressEndpoints, TypeOK, zeroVars, slotVars, familyVars, hwVars, hwEpVars,
                                  ZeroType, SlotType, EnumType, DelType, FamilyType, HwType
<1>13. CASE EnableAllEndpoints
  <2>1. MapType'
    BY <1>13, <1>a DEF EnableAllEndpoints, MapType, Entries
  <2> QED BY <1>13, <1>a, <2>1 DEF EnableAllEndpoints, TypeOK, zeroVars, slotVars, familyVars, hwVars, hwEpVars,
                                  ZeroType, SlotType, EnumType, DelType, FamilyType, HwType
<1>14. CASE HwEnableSlot
  <2>1. \/ \E s \in SlotIds : /\ hwState' = [hwState EXCEPT ![s] = "enabled"]
                              /\ enum' = [enum EXCEPT !.pc = "enabled", !.slot = s]
        \/ Goto("failed") /\ UNCHANGED hwState
    BY <1>14 DEF HwEnableSlot
  <2>2. EnumType' /\ hwState' \in [SlotIds -> {"disabled", "enabled", "default", "addressed"}]
    <3>1. CASE Goto("failed") /\ UNCHANGED hwState
      <4>1. EnumType'
        BY <3>1, <1>a, GotoKeeps DEF EnumPcs
      <4> QED BY <3>1, <4>1, <1>a DEF HwType
    <3>2. ASSUME NEW s \in SlotIds, hwState' = [hwState EXCEPT ![s] = "enabled"],
                 enum' = [enum EXCEPT !.pc = "enabled", !.slot = s]
          PROVE  EnumType' /\ hwState' \in [SlotIds -> {"disabled", "enabled", "default", "addressed"}]
      <4>1. EnumType'
        BY <3>2, <1>a, <1>b, Fields DEF EnumType, EnumPcs
      <4> QED BY <3>2, <4>1, <1>a DEF HwType
    <3> QED BY <2>1, <3>1, <3>2
  <2> QED BY <1>14, <1>a, <2>2 DEF HwEnableSlot, TypeOK, mapVars, zeroVars, slotVars, familyVars, hwEpVars,
                                  MapType, ZeroType, SlotType, DelType, FamilyType, HwType
<1>15. CASE HwAddressDevice
  <2>1. EnumType'
    BY <1>15, <1>a, GotoKeeps DEF HwAddressDevice, EnumPcs
  <2>2. /\ hwState' \in [SlotIds -> {"disabled", "enabled", "default", "addressed"}]
        /\ DOMAIN hwPath' = SlotIds /\ hwAddress' \in [SlotIds -> Entries]
    <3>1. CASE UNCHANGED hwVars
      BY <3>1, <1>a DEF hwVars, HwType
    <3>2. CASE ~UNCHANGED hwVars
      <4>1. /\ hwPath' = [hwPath EXCEPT ![enum.slot] = Append(Walk.route, Walk.port)]
            /\ \/ hwState' = [hwState EXCEPT ![enum.slot] = "default"] /\ UNCHANGED hwAddress
               \/ \E a \in Addresses : /\ hwState' = [hwState EXCEPT ![enum.slot] = "addressed"]
                                       /\ hwAddress' = [hwAddress EXCEPT ![enum.slot] = a]
        BY <1>15, <3>2 DEF HwAddressDevice
      <4> QED BY <4>1, <1>a, <1>d DEF HwType
    <3> QED BY <3>1, <3>2
  <2> QED BY <1>15, <1>a, <2>1, <2>2 DEF HwAddressDevice, TypeOK, mapVars, zeroVars, slotVars, familyVars, hwEpVars,
                                        MapType, ZeroType, SlotType, DelType, FamilyType, HwType
<1>16. CASE HwDisableSlot
  <2>1. PICK s : DisableSlot(s)
    BY <1>16 DEF HwDisableSlot
  <2>2. HwType' /\ upset' \subseteq Upsets
    <3>1. CASE Disabled(s) /\ UNCHANGED upset
      <4>1. hwState' \in [SlotIds -> {"disabled", "enabled", "default", "addressed"}] /\ DOMAIN hwPath' = SlotIds
        BY <3>1, <1>a DEF Disabled, HwType
      <4>2. hwAddress' \in [SlotIds -> Entries] /\ hwEps' \in [SlotIds -> SUBSET Endpoints]
            /\ hwCtxNum' \in [SlotIds -> Nat]
        BY <3>1, <1>a, IdleTypes DEF Disabled, HwType
      <4> QED BY <3>1, <1>a, <4>1, <4>2 DEF HwType
    <3>2. CASE Upset("notDisabled", TRUE) /\ UNCHANGED <<hwVars, hwEpVars>>
      BY <3>2, <1>a DEF Upset, Upsets, HwType, hwVars, hwEpVars
    <3> QED BY <2>1, <3>1, <3>2 DEF DisableSlot
  <2>3. EnumType' /\ DelType'
    <3>1. CASE enum' = Idle /\ UNCHANGED del
      BY <3>1, <1>a, IdleTypes DEF EnumType, EnumPcs, DelType
    <3>2. CASE del' = [del EXCEPT !.pc = "disabled"] /\ UNCHANGED enum
      BY <3>2, <1>a, Fields DEF EnumType, DelType
    <3> QED BY <1>16, <3>1, <3>2 DEF HwDisableSlot
  <2> QED BY <1>16, <1>a, <2>2, <2>3 DEF HwDisableSlot, TypeOK, mapVars, zeroVars, slotVars, familyVars,
                                        MapType, ZeroType, SlotType, FamilyType
<1>17. CASE UNCHANGED vars
  BY <1>17, <1>a DEF vars, TypeOK, mapVars, zeroVars, slotVars, familyVars, hwVars, hwEpVars,
                     MapType, ZeroType, SlotType, EnumType, DelType, FamilyType, HwType
<1> QED BY <1>1, <1>2, <1>3, <1>4, <1>5, <1>6, <1>7, <1>8, <1>9, <1>10, <1>11, <1>12, <1>13, <1>14, <1>15, <1>16,
           <1>17 DEF Next

-----------------------------------------------------------------------------
(* Each step keeps the invariant.                                          *)

\* What is known of a slot that is mapped from a device's address: it is no one else's.
Owned(d) ==
  LET a == addressOf[d]
      s == Slot[a]
  IN  /\ a \in Addresses /\ a \in Entries /\ a # 0 /\ s \in SlotIds /\ Slot[0] # s
      /\ \A x \in Devices : addressOf[x] # 0 /\ x # d => addressOf[x] # a /\ Slot[addressOf[x]] # s
      /\ \A b \in Entries : Slot[b] = s => b = a
      /\ enum.pc \in {"enabled", "disable", "address0", "default", "address", "addressed", "status"} => s # enum.slot
      /\ enum.pc \in {"status", "remap"} /\ d # enum.dev => s # enum.slot /\ a # enum.addr
      /\ del.dev # d /\ del.pc # "idle" => s # del.slot /\ a # del.addr

\* So is each device's.
LEMMA EachOwned ==
  ASSUME TypeOK, Sound, NEW d \in Devices, addressOf[d] # 0
  PROVE  Owned(d)
<1> DEFINE a == addressOf[d]
           s == Slot[a]
<1>a. MapInv /\ FamilyInv /\ DeviceInv /\ EnumInv /\ DelInv /\ MapType /\ FamilyType /\ EnumType /\ DelType
  BY DEF Sound, TypeOK
<1>b. \A x \in Entries : x # 0 => x \in Addresses
  BY Sizes DEF Entries, Addresses
<1>1. a \in Entries /\ a \in Addresses /\ a # 0
  BY <1>a, <1>b DEF FamilyType
<1>2. s \in SlotIds /\ s # 0
  <2>1. s # 0
    BY <1>a DEF DeviceInv
  <2> QED BY <2>1, <1>1, <1>a, Sizes DEF MapType, SlotIds
<1>3. enum.pc = "status" => a # enum.addr
  BY <1>a DEF EnumInv
<1>4. Slot[0] # s
  BY <1>1, <1>2, <1>3, <1>a DEF MapInv
<1>5. \A b \in Entries : Slot[b] = s => b = a
  BY <1>1, <1>2, <1>4, <1>a, <1>b DEF MapInv
<1>6. ASSUME NEW x \in Devices, addressOf[x] # 0, x # d PROVE addressOf[x] # a /\ Slot[addressOf[x]] # s
  <2>1. addressOf[x] # a
    BY <1>6, <1>a DEF FamilyInv
  <2>2. addressOf[x] \in Entries
    BY <1>a DEF FamilyType
  <2> QED BY <2>1, <2>2, <1>5
<1>7. enum.pc \in {"enabled", "disable", "address0", "default", "address", "addressed"} => s # enum.slot
  BY <1>1, <1>a DEF EnumInv
<1>8. enum.pc \in {"status", "remap"} => Slot[enum.addr] = enum.slot /\ enum.addr \in Entries
  BY <1>a, Fields DEF EnumInv
<1>9. enum.pc = "remap" => addressOf[enum.dev] = enum.addr /\ enum.addr # 0 /\ enum.dev \in Devices
  <2>1. enum.pc = "remap" => enum.dev # 0
    BY <1>a DEF EnumInv
  <2> QED BY <2>1, <1>a, Fields, Sizes DEF EnumInv, Devices
<1>10. enum.pc = "remap" /\ d # enum.dev => a # enum.addr
  BY <1>6, <1>9
<1>11. del.pc # "idle" => Slot[del.addr] = del.slot /\ del.addr \in Entries
  BY <1>a, Fields DEF DelInv
<1>12. del.pc # "idle" /\ del.dev # d => a # del.addr
  <2>1. CASE del.dev = 0
    BY <2>1, <1>1, <1>a DEF DelInv
  <2>2. CASE del.dev # 0
    <3>1. del.dev \in Devices
      BY <2>2, <1>a, Fields, Sizes DEF Devices
    <3>2. del.pc # "idle" => del.addr = addressOf[del.dev] /\ del.addr # 0
      BY <2>2, <1>a DEF DelInv
    <3> QED BY <3>1, <3>2, <1>6
  <2> QED BY <2>1, <2>2
<1> HIDE DEF a, s
<1>13. /\ enum.pc \in {"enabled", "disable", "address0", "default", "address", "addressed", "status"} => s # enum.slot
       /\ enum.pc \in {"status", "remap"} /\ d # enum.dev => s # enum.slot /\ a # enum.addr
       /\ del.dev # d /\ del.pc # "idle" => s # del.slot /\ a # del.addr
  BY <1>3, <1>5, <1>7, <1>8, <1>10, <1>11, <1>12
<1> QED BY <1>1, <1>2, <1>4, <1>5, <1>6, <1>13 DEF Owned, a, s

\* What the mapper and the xHC have of a device.
Mapped(d) == Slot[addressOf[d]] # 0 /\ HubAddress[addressOf[d]] = ParentAddress(d) /\ PortOnHub[addressOf[d]] = Port(d)
Served(d) ==
  LET s == Slot[addressOf[d]]
  IN  /\ ctx[s] /\ hwPath[s] = PathOf[d] /\ eps[d] \subseteq ring[s]
      /\ \A e \in eps[d] \ {1} : e \in hwEps[s] /\ e <= hwCtxNum[s]

\* DeviceInv says so.
LEMMA DeviceInvSays ==
  DeviceInv <=> \A d \in Devices : addressOf[d] # 0 => Mapped(d) /\ (del.dev # d => Served(d))
BY DEF DeviceInv, Mapped, Served

\* A step that leaves the family's devices and what the mapper has of them alone keeps DeviceInv
\* if it leaves what is in their slots alone.
LEMMA DevicesKept ==
  ASSUME TypeOK, Sound, UNCHANGED <<addressOf, eps>>,
         \A a \in Addresses : UNCHANGED <<Slot[a], HubAddress[a], PortOnHub[a]>>,
         \A d \in Devices : addressOf[d] # 0 /\ del'.dev # d =>
           /\ del.dev # d
           /\ UNCHANGED <<ctx[Slot[addressOf[d]]], hwPath[Slot[addressOf[d]]], ring[Slot[addressOf[d]]],
                          hwEps[Slot[addressOf[d]]], hwCtxNum[Slot[addressOf[d]]]>>
  PROVE  DeviceInv'
<1> SUFFICES ASSUME NEW d \in Devices, addressOf[d] # 0 PROVE Mapped(d)' /\ (del'.dev # d => Served(d)')
  BY DeviceInvSays DEF DeviceInv, Mapped, Served
<1>1. Owned(d) /\ Mapped(d) /\ (del.dev # d => Served(d))
  BY EachOwned, DeviceInvSays DEF Sound
<1>2. addressOf'[d] = addressOf[d] /\ addressOf[d] \in Addresses
  BY <1>1 DEF Owned
<1>3. /\ Slot'[addressOf[d]] = Slot[addressOf[d]] /\ HubAddress'[addressOf[d]] = HubAddress[addressOf[d]]
      /\ PortOnHub'[addressOf[d]] = PortOnHub[addressOf[d]]
  BY <1>2
<1>4. ParentAddress(d)' = ParentAddress(d)
  BY DEF ParentAddress
<1>5. Mapped(d)'
  BY <1>1, <1>2, <1>3, <1>4 DEF Mapped
<1>6. ASSUME del'.dev # d PROVE Served(d)'
  BY <1>1, <1>2, <1>3, <1>6 DEF Served
<1> QED BY <1>5, <1>6

\* An enumeration begins at a device without an address, behind a hub that has one.
LEMMA EnableSlotKeeps == ASSUME TypeOK, Sound, NEW d \in Devices, EnableSlot(d) PROVE Sound'
<1>a. /\ MapInv /\ SlotInv /\ FamilyInv /\ DeviceInv /\ ZeroInv /\ EnumInv /\ DelInv /\ AddressInv /\ LostInv
      /\ MapType /\ FamilyType /\ EnumType /\ DelType
  BY DEF Sound, TypeOK
<1>1. /\ enum' = [pc |-> "enable", dev |-> d, ep |-> 0, slot |-> 0, addr |-> 0]
      /\ dzHubAddress' = ParentAddress(d) /\ dzPortOnHub' = Port(d)
      /\ enum.pc = "idle" /\ del.pc = "idle" /\ addressOf[d] = 0
      /\ Parent(d) # 0 => addressOf[Parent(d)] # 0
  BY <1>a, Fields, IdleTypes DEF EnableSlot, GateFree, Usable
<1>2. /\ UNCHANGED <<mapVars, isBeingAddressed, slotVars, del, familyVars, hwVars, hwEpVars, upset>>
  BY DEF EnableSlot
<1>3. Slot[0] = 0 /\ enum.slot = 0
  BY <1>1, <1>a DEF ZeroInv, EnumInv
<1>4. enum'.pc = "enable" /\ enum'.dev = d /\ enum'.slot = 0 /\ d # 0
  BY <1>1, Parents
<1> USE DEF mapVars, slotVars, familyVars, hwVars, hwEpVars
<1>5. MapInv'
  BY <1>2, <1>3, <1>a DEF MapInv
<1>6. SlotInv' /\ FamilyInv'
  BY <1>2, <1>a DEF SlotInv, FamilyInv
<1>7. DeviceInv'
  BY <1>2, DevicesKept
<1>8. ZeroInv'
  BY <1>2, <1>3, <1>a DEF ZeroInv
<1>9. EnumInv'
  <2>1. ParentAddress(d)' = ParentAddress(d)
    BY <1>2 DEF ParentAddress
  <2> QED BY <1>1, <1>2, <1>4, <2>1 DEF EnumInv
<1>10. DelInv'
  BY <1>1, <1>2, <1>a DEF DelInv
<1>11. AddressInv'
  BY <1>1, <1>2, <1>4, <1>a DEF AddressInv
<1>12. LostInv'
  BY <1>1, <1>2, <1>3, <1>4, <1>a DEF LostInv
<1> QED BY <1>5, <1>6, <1>7, <1>8, <1>9, <1>10, <1>11, <1>12 DEF Sound

\* The Enable Slot command gives the enumeration a slot that no address is mapped to.
LEMMA HwEnableSlotKeeps == ASSUME TypeOK, Sound, HwEnableSlot PROVE Sound'
<1>a. /\ MapInv /\ SlotInv /\ FamilyInv /\ DeviceInv /\ ZeroInv /\ EnumInv /\ DelInv /\ AddressInv /\ LostInv
      /\ MapType /\ FamilyType /\ EnumType /\ DelType /\ HwType
  BY DEF Sound, TypeOK
<1>1. enum.pc = "enable" /\ enum.slot = 0 /\ addressOf[enum.dev] = 0 /\ enum.dev # 0 /\ del.pc = "idle"
  BY <1>a, Fields DEF HwEnableSlot, EnumInv, DelInv
<1>2. UNCHANGED <<mapVars, zeroVars, slotVars, del, familyVars, hwPath, hwAddress, hwEpVars, upset>>
  BY DEF HwEnableSlot
<1>3. Slot[0] = 0
  BY <1>1, <1>a DEF ZeroInv
<1> USE DEF mapVars, slotVars, familyVars, hwVars, hwEpVars, zeroVars
<1>4. CASE Goto("failed") /\ UNCHANGED hwState
  <2>1. enum' = [pc |-> "failed", dev |-> enum.dev, ep |-> 0, slot |-> enum.slot, addr |-> enum.addr]
    BY <1>4, <1>a, GotoKeeps DEF EnumPcs
  <2>2. enum'.pc = "failed" /\ enum'.dev = enum.dev /\ enum'.slot = 0 /\ enum'.addr = enum.addr
    BY <1>1, <2>1
  <2>3. MapInv' /\ SlotInv' /\ FamilyInv'
    BY <1>2, <1>3, <1>4, <1>a DEF MapInv, SlotInv, FamilyInv
  <2>4. DeviceInv'
    BY <1>2, DevicesKept
  <2>5. ZeroInv' /\ DelInv'
    BY <1>1, <1>2, <1>3, <1>4, <2>2, <1>a DEF ZeroInv, DelInv
  <2>6. EnumInv'
    BY <1>1, <1>2, <2>2, <1>a DEF EnumInv
  <2>7. AddressInv' /\ LostInv'
    BY <1>1, <1>2, <1>4, <2>2, <1>a DEF AddressInv, LostInv
  <2> QED BY <2>3, <2>4, <2>5, <2>6, <2>7 DEF Sound
<1>5. ASSUME NEW s \in SlotIds, hwState[s] = "disabled", hwState' = [hwState EXCEPT ![s] = "enabled"],
             enum' = [enum EXCEPT !.pc = "enabled", !.slot = s]
      PROVE  Sound'
  <2>1. enum'.pc = "enabled" /\ enum'.dev = enum.dev /\ enum'.slot = s /\ enum'.addr = enum.addr
    BY <1>5, <1>a, Fields
  <2>2. s # 0 /\ hwState'[s] = "enabled" /\ \A t \in SlotIds : t # s => hwState'[t] = hwState[t]
    BY <1>5, <1>a DEF HwType, SlotIds
  <2>3. \A b \in Entries : Slot[b] # s
    BY <1>1, <1>5, <2>2, <1>a DEF MapInv
  <2>4. \A b \in Entries : Slot[b] # 0 => Slot[b] \in SlotIds /\ hwState'[Slot[b]] = hwState[Slot[b]]
    <3>1. \A b \in Entries : Slot[b] # 0 => Slot[b] \in SlotIds
      BY <1>a, Sizes DEF MapType, SlotIds
    <3> QED BY <3>1, <2>2, <2>3
  <2>5. MapInv'
    BY <1>2, <1>3, <2>4, <1>a DEF MapInv
  <2>6. SlotInv' /\ FamilyInv'
    BY <1>2, <2>2, <1>a DEF SlotInv, FamilyInv
  <2>7. DeviceInv'
    BY <1>2, DevicesKept
  <2>8. ZeroInv' /\ DelInv'
    BY <1>1, <1>2, <1>3, <1>a DEF ZeroInv, DelInv
  <2>9. EnumInv'
    <3>1. ring[s] = {} /\ \A b \in Addresses : Slot[b] # s
      BY <1>5, <2>3, <1>a, Sizes DEF SlotInv, Addresses, Entries
    <3>2. ParentAddress(enum.dev)' = ParentAddress(enum.dev)
      BY <1>2, <2>1 DEF ParentAddress
    <3> QED BY <1>1, <1>2, <2>1, <2>2, <3>1, <3>2, <1>a DEF EnumInv
  <2>10. AddressInv'
    BY <1>1, <1>2, <2>1, <1>a DEF AddressInv
  <2>11. LostInv'
    <3>1. \A t \in SlotIds : hwState'[t] # "disabled" => t = s \/ hwState[t] # "disabled"
      BY <2>2
    <3>2. \A t \in SlotIds : t # 0
      BY DEF SlotIds
    <3> QED BY <1>1, <1>2, <2>1, <3>1, <3>2, <1>a DEF LostInv
  <2> QED BY <2>5, <2>6, <2>7, <2>8, <2>9, <2>10, <2>11 DEF Sound
<1> QED BY <1>4, <1>5 DEF HwEnableSlot

\* Address 0 is mapped to the slot of the enumeration.
LEMMA CreateControlEndpointKeeps == ASSUME TypeOK, Sound, CreateControlEndpoint PROVE Sound'
<1>a. /\ MapInv /\ SlotInv /\ FamilyInv /\ DeviceInv /\ ZeroInv /\ EnumInv /\ DelInv /\ AddressInv /\ LostInv
      /\ MapType /\ FamilyType /\ EnumType /\ DelType /\ HwType /\ SlotType
  BY DEF Sound, TypeOK
<1> DEFINE s == enum.slot
<1>1. /\ enum.pc = "enabled" /\ s # 0 /\ hwState[s] # "disabled" /\ ring[s] = {}
      /\ addressOf[enum.dev] = 0 /\ enum.dev # 0 /\ del.pc = "idle"
      /\ \A b \in Addresses : Slot[b] # s
  BY <1>a, Fields DEF CreateControlEndpoint, EnumInv, DelInv
<1>2. s \in SlotIds
  BY <1>1, <1>a, Fields, Sizes DEF SlotIds
<1>3. /\ Slot' = [Slot EXCEPT ![0] = s] /\ Active' = [Active EXCEPT ![0] = TRUE]
      /\ ring' = [ring EXCEPT ![s] = @ \cup {1}] /\ ctx' = [ctx EXCEPT ![s] = TRUE]
      /\ UNCHANGED <<HubAddress, PortOnHub>>
      /\ UNCHANGED <<zeroVars, del, familyVars, hwVars, hwEpVars, upset>>
  BY <1>1 DEF CreateControlEndpoint
<1>4. PICK pc \in {"address0", "failed"} : Goto(pc)
  BY <1>1 DEF CreateControlEndpoint, AddressDevice
<1>5. enum'.pc = pc /\ enum'.dev = enum.dev /\ enum'.slot = s /\ enum'.addr = enum.addr
  BY <1>4, <1>a, GotoKeeps DEF EnumPcs
<1> HIDE DEF s
<1> USE DEF slotVars, familyVars, hwVars, hwEpVars, zeroVars
<1>6. /\ 0 \in Entries /\ Slot'[0] = s /\ Active'[0] = TRUE
      /\ \A b \in Entries : b # 0 => Slot'[b] = Slot[b] /\ Active'[b] = Active[b]
      /\ \A b \in Addresses : b \in Entries /\ b # 0
  BY <1>3, <1>a, IdleTypes, Sizes DEF MapType, Addresses, Entries
<1>7. /\ ring'[s] = {1} /\ ctx'[s] = TRUE
      /\ \A t \in SlotIds : t # s => ring'[t] = ring[t] /\ ctx'[t] = ctx[t]
  BY <1>1, <1>2, <1>3, <1>a DEF SlotType
<1>8. MapInv'
  BY <1>1, <1>3, <1>6, <1>a DEF MapInv
<1>9. SlotInv' /\ FamilyInv'
  BY <1>1, <1>2, <1>3, <1>7, <1>a DEF SlotInv, FamilyInv
<1>10. DeviceInv'
  <2>1. ASSUME NEW d \in Devices, addressOf[d] # 0 PROVE Slot[addressOf[d]] \in SlotIds /\ Slot[addressOf[d]] # s
    BY <2>1, <1>1, EachOwned DEF Owned, s
  <2>2. \A b \in Addresses : UNCHANGED <<Slot[b], HubAddress[b], PortOnHub[b]>>
    BY <1>3, <1>6
  <2>3. \A d \in Devices : addressOf[d] # 0 =>
          UNCHANGED <<ctx[Slot[addressOf[d]]], hwPath[Slot[addressOf[d]]], ring[Slot[addressOf[d]]],
                      hwEps[Slot[addressOf[d]]], hwCtxNum[Slot[addressOf[d]]]>>
    <3> SUFFICES ASSUME NEW d \in Devices, addressOf[d] # 0
                 PROVE  UNCHANGED <<ctx[Slot[addressOf[d]]], hwPath[Slot[addressOf[d]]], ring[Slot[addressOf[d]]],
                                    hwEps[Slot[addressOf[d]]], hwCtxNum[Slot[addressOf[d]]]>>
      OBVIOUS
    <3>1. Slot[addressOf[d]] \in SlotIds /\ Slot[addressOf[d]] # s /\ addressOf[d] \in Addresses
      BY <2>1, EachOwned DEF Owned
    <3>2. addressOf'[d] = addressOf[d] /\ Slot'[addressOf[d]] = Slot[addressOf[d]]
      BY <3>1, <2>2, <1>3
    <3> QED BY <1>3, <1>7, <3>1, <3>2
  <2> QED BY <1>3, <2>2, <2>3, DevicesKept
<1>11. ZeroInv' /\ DelInv'
  BY <1>1, <1>3, <1>5, <1>6, <1>7, <1>a DEF ZeroInv, DelInv
<1>12. EnumInv'
  <2>1. ParentAddress(enum.dev)' = ParentAddress(enum.dev)
    BY <1>3, <1>5 DEF ParentAddress
  <2> QED BY <1>1, <1>3, <1>5, <1>6, <1>7, <2>1, <1>a DEF EnumInv
<1>13. AddressInv'
  BY <1>1, <1>3, <1>5, <1>6, <1>a DEF AddressInv
<1>14. LostInv'
  <2>1. \A d \in Devices : addressOf[d] # 0 => Slot'[addressOf[d]] = Slot[addressOf[d]]
    BY <1>6, <1>a DEF FamilyType
  <2> QED BY <1>1, <1>3, <1>5, <1>6, <2>1, <1>a DEF LostInv, s
<1> QED BY <1>8, <1>9, <1>10, <1>11, <1>12, <1>13, <1>14 DEF Sound

\* A failed UIMCreateControlEndpoint leaves its slot to be disabled.
LEMMA CleanupControlEndpointKeeps == ASSUME TypeOK, Sound, CleanupControlEndpoint PROVE Sound'
<1>a. /\ MapInv /\ SlotInv /\ FamilyInv /\ DeviceInv /\ ZeroInv /\ EnumInv /\ DelInv /\ AddressInv /\ LostInv
      /\ MapType /\ FamilyType /\ EnumType /\ DelType /\ HwType /\ SlotType
  BY DEF Sound, TypeOK
<1> DEFINE s == enum.slot
<1>1. /\ enum.pc = "enabled" /\ s # 0 /\ hwState[s] # "disabled" /\ ring[s] = {}
      /\ addressOf[enum.dev] = 0 /\ enum.dev # 0 /\ del.pc = "idle"
      /\ \A b \in Addresses : Slot[b] # s
  BY <1>a, Fields DEF CleanupControlEndpoint, EnumInv, DelInv
<1>2. /\ Slot[0] = 0 /\ Active[0] = FALSE /\ 0 \in Entries
  BY <1>1, <1>a, IdleTypes DEF ZeroInv, MapType
<1>3. Slot' = Slot /\ Active' = Active
  BY <1>2, <1>a DEF CleanupControlEndpoint, DropZero, MapType
<1>4. /\ ctx' = [ctx EXCEPT ![s] = FALSE] /\ Goto("disable")
      /\ UNCHANGED <<HubAddress, PortOnHub, zeroVars, ring, del, familyVars, hwVars, hwEpVars, upset>>
  BY DEF CleanupControlEndpoint, DropZero
<1>5. enum'.pc = "disable" /\ enum'.dev = enum.dev /\ enum'.slot = s /\ enum'.addr = enum.addr
  BY <1>4, <1>a, GotoKeeps DEF EnumPcs
<1> HIDE DEF s
<1> USE DEF familyVars, hwVars, hwEpVars, zeroVars
<1>8. MapInv' /\ SlotInv' /\ FamilyInv'
  BY <1>2, <1>3, <1>4, <1>a DEF MapInv, SlotInv, FamilyInv
<1>10. DeviceInv'
  <2>1. ASSUME NEW d \in Devices, addressOf[d] # 0 PROVE Slot[addressOf[d]] \in SlotIds /\ Slot[addressOf[d]] # s
    BY <2>1, <1>1, EachOwned DEF Owned, s
  <2>2. \A t \in SlotIds : t # s => ctx'[t] = ctx[t]
    BY <1>4, <1>a DEF SlotType
  <2> QED BY <1>3, <1>4, <2>1, <2>2, DevicesKept
<1>11. ZeroInv' /\ DelInv'
  BY <1>1, <1>2, <1>3, <1>4, <1>5, <1>a DEF ZeroInv, DelInv
<1>12. EnumInv'
  BY <1>1, <1>3, <1>4, <1>5, <1>a DEF EnumInv, s
<1>13. AddressInv'
  BY <1>1, <1>3, <1>4, <1>5, <1>a DEF AddressInv
<1>14. LostInv'
  BY <1>1, <1>3, <1>4, <1>5, <1>a DEF LostInv, s
<1> QED BY <1>8, <1>10, <1>11, <1>12, <1>13, <1>14 DEF Sound

\* The Address Device command gives the slot of the enumeration the path to its device, and an
\* address that no slot has.
LEMMA HwAddressDeviceKeeps == ASSUME TypeOK, Sound, HwAddressDevice PROVE Sound'
<1>a. /\ MapInv /\ SlotInv /\ FamilyInv /\ DeviceInv /\ ZeroInv /\ EnumInv /\ DelInv /\ AddressInv /\ LostInv
      /\ MapType /\ FamilyType /\ EnumType /\ DelType /\ HwType /\ SlotType
  BY DEF Sound, TypeOK
<1> DEFINE s == enum.slot
           d == enum.dev
<1>1. /\ enum.pc \in {"address0", "address"} /\ s # 0 /\ hwState[s] # "disabled" /\ ring[s] = {1} /\ ctx[s]
      /\ addressOf[d] = 0 /\ d # 0 /\ del.pc = "idle"
      /\ dzHubAddress = ParentAddress(d) /\ dzPortOnHub = Port(d) /\ (Parent(d) # 0 => addressOf[Parent(d)] # 0)
      /\ \A b \in Addresses : Slot[b] # s
  BY <1>a, Fields DEF HwAddressDevice, EnumInv, DelInv
<1>2. s \in SlotIds /\ d \in Devices
  BY <1>1, <1>a, Fields, Sizes DEF SlotIds, Devices
<1>3. UNCHANGED <<mapVars, zeroVars, slotVars, del, familyVars, hwEpVars, upset>>
  BY DEF HwAddressDevice
<1> USE DEF mapVars, slotVars, familyVars, hwVars, hwEpVars, zeroVars
<1>4. CASE Goto("failed") /\ UNCHANGED hwVars
  <2>1. enum'.pc = "failed" /\ enum'.dev = enum.dev /\ enum'.slot = enum.slot /\ enum'.addr = enum.addr
    BY <1>4, <1>a, GotoKeeps DEF EnumPcs
  <2>2. MapInv' /\ SlotInv' /\ FamilyInv'
    BY <1>1, <1>3, <1>4, <1>a DEF MapInv, SlotInv, FamilyInv
  <2>3. DeviceInv'
    BY <1>3, <1>4, DevicesKept
  <2>4. ZeroInv' /\ DelInv'
    BY <1>1, <1>3, <1>4, <2>1, <1>a DEF ZeroInv, DelInv
  <2>5. EnumInv'
    BY <1>1, <1>3, <1>4, <2>1, <1>a DEF EnumInv
  <2>6. AddressInv' /\ LostInv'
    BY <1>1, <1>3, <1>4, <2>1, <1>a DEF AddressInv, LostInv
  <2> QED BY <2>2, <2>3, <2>4, <2>5, <2>6 DEF Sound
<1>5. ASSUME NEW pc \in {"default", "addressed"}, Goto(pc),
             hwPath' = [hwPath EXCEPT ![s] = Append(Walk.route, Walk.port)],
             NEW state \in {"default", "addressed"}, hwState' = [hwState EXCEPT ![s] = state],
             NEW a \in Entries, hwAddress' = [hwAddress EXCEPT ![s] = a],
             \/ pc = "default" /\ a = hwAddress[s]
             \/ enum.pc = "address" /\ pc = "addressed" /\ a \in Addresses \ {hwAddress[t] : t \in SlotIds}
      PROVE  Sound'
  <2>1. enum'.pc = pc /\ enum'.dev = enum.dev /\ enum'.slot = enum.slot /\ enum'.addr = enum.addr
    BY <1>5, <1>a, GotoKeeps DEF EnumPcs
  <2> DEFINE path == Append(Walk.route, Walk.port)
  <2>2. path = PathOf[d]
    BY <1>1, <1>2, <1>a, WalkFindsPath
  <2> HIDE DEF path
  <2>3. /\ hwPath'[s] = path /\ hwState'[s] # "disabled" /\ hwAddress'[s] = a
        /\ \A t \in SlotIds : t # s => /\ hwPath'[t] = hwPath[t] /\ hwState'[t] = hwState[t]
                                       /\ hwAddress'[t] = hwAddress[t]
    BY <1>2, <1>5, <1>a DEF HwType, path
  <2>4. \A b \in Entries : Slot[b] # 0 => /\ Slot[b] \in SlotIds
                                          /\ hwState'[Slot[b]] = "disabled" => hwState[Slot[b]] = "disabled"
    <3>1. \A b \in Entries : Slot[b] # 0 => Slot[b] \in SlotIds
      BY <1>a, Sizes DEF MapType, SlotIds
    <3> QED BY <3>1, <2>3
  <2>5. MapInv'
    BY <1>1, <1>3, <2>4, <1>a DEF MapInv
  <2>6. SlotInv'
    <3>1. \A t \in SlotIds : hwState'[t] = "disabled" => ring'[t] = {} /\ hwAddress'[t] = 0
      BY <1>3, <2>3, <1>a DEF SlotInv
    <3>2. pc = "addressed" => a # 0 /\ \A t \in SlotIds : hwAddress[t] # a
      BY <1>5 DEF Addresses
    <3>3. \A t, u \in SlotIds : hwAddress'[t] # 0 /\ hwAddress'[t] = hwAddress'[u] => t = u
      BY <1>5, <2>3, <3>2, <1>a DEF SlotInv
    <3> QED BY <1>3, <3>1, <3>3, <1>a DEF SlotInv
  <2>7. FamilyInv'
    BY <1>3, <1>a DEF FamilyInv
  <2>8. DeviceInv'
    <3>1. ASSUME NEW x \in Devices, addressOf[x] # 0 PROVE Slot[addressOf[x]] \in SlotIds /\ Slot[addressOf[x]] # s
      BY <3>1, <1>1, EachOwned DEF Owned
    <3> QED BY <1>3, <2>3, <3>1, DevicesKept
  <2>9. ZeroInv' /\ DelInv'
    BY <1>1, <1>3, <1>5, <2>1, <1>a DEF ZeroInv, DelInv
  <2>10. EnumInv'
    <3>1. ParentAddress(d)' = ParentAddress(d)
      BY <1>3, <2>1 DEF ParentAddress
    <3>2. pc = "addressed" => a # 0
      BY <1>5 DEF Addresses
    <3>3. pc = "addressed" => enum.pc = "address"
      BY <1>5
    <3>4. /\ enum'.pc \in {"default", "addressed"} /\ d' = d /\ s' = s
          /\ enum'.pc = "addressed" => enum.pc = "address" /\ hwAddress'[s] # 0 /\ hwPath'[s] = PathOf[d]
      BY <1>5, <2>1, <2>2, <2>3, <3>2, <3>3
    <3> QED BY <1>1, <1>3, <2>1, <2>3, <3>1, <3>4, <1>a DEF EnumInv
  <2>11. AddressInv'
    <3>1. \A b \in Addresses : Slot[b] # 0 => hwAddress'[Slot[b]] = hwAddress[Slot[b]]
      <4>1. \A b \in Addresses : b \in Entries
        BY Sizes DEF Addresses, Entries
      <4> QED BY <1>1, <2>3, <2>4, <4>1
    <3> QED BY <1>1, <1>3, <1>5, <2>1, <3>1, <1>a DEF AddressInv
  <2>12. LostInv'
    <3>1. \A t \in SlotIds : hwState'[t] # "disabled" => t = s \/ hwState[t] # "disabled"
      BY <2>3
    <3> QED BY <1>1, <1>3, <1>5, <2>1, <3>1, <1>a DEF LostInv
  <2> QED BY <2>5, <2>6, <2>7, <2>8, <2>9, <2>10, <2>11, <2>12 DEF Sound
<1>6. CASE ~(Goto("failed") /\ UNCHANGED hwVars)
  <2>1. /\ hwPath' = [hwPath EXCEPT ![s] = Append(Walk.route, Walk.port)]
        /\ IF enum.pc = "address0" THEN hwState' = [hwState EXCEPT ![s] = "default"] /\ UNCHANGED hwAddress
           ELSE \E a \in Addresses \ {hwAddress[t] : t \in SlotIds} :
                  /\ hwState' = [hwState EXCEPT ![s] = "addressed"]
                  /\ hwAddress' = [hwAddress EXCEPT ![s] = a]
        /\ Goto(IF enum.pc = "address0" THEN "default" ELSE "addressed")
    BY <1>6 DEF HwAddressDevice
  <2>2. CASE enum.pc = "address0"
    <3>1. hwAddress' = [hwAddress EXCEPT ![s] = hwAddress[s]] /\ hwAddress[s] \in Entries
      BY <1>2, <2>1, <2>2, <1>a DEF HwType
    <3>2. Goto("default") /\ hwState' = [hwState EXCEPT ![s] = "default"]
      BY <2>1, <2>2
    <3> HIDE DEF s
    <3> QED BY <1>5, <2>1, <3>1, <3>2
  <2>3. CASE enum.pc = "address"
    <3>1. PICK a \in Addresses \ {hwAddress[t] : t \in SlotIds} :
            hwState' = [hwState EXCEPT ![s] = "addressed"] /\ hwAddress' = [hwAddress EXCEPT ![s] = a]
      BY <2>1, <2>3
    <3>2. Goto("addressed") /\ a \in Entries
      BY <2>1, <2>3, Sizes DEF Addresses, Entries
    <3> HIDE DEF s
    <3> QED BY <1>5, <2>1, <2>3, <3>1, <3>2
  <2> QED BY <1>1, <2>2, <2>3
<1> QED BY <1>4, <1>6

\* The setup stage of Set Address: the enumeration has an address that no device has.
LEMMA SetAddressKeeps == ASSUME TypeOK, Sound, SetAddress PROVE Sound'
<1>a. /\ MapInv /\ SlotInv /\ FamilyInv /\ DeviceInv /\ ZeroInv /\ EnumInv /\ DelInv /\ AddressInv /\ LostInv
      /\ MapType /\ FamilyType /\ EnumType /\ DelType /\ HwType /\ SlotType
  BY DEF Sound, TypeOK
<1> DEFINE s == enum.slot
           d == enum.dev
<1>1. /\ enum.pc = "default" /\ s # 0 /\ hwState[s] # "disabled" /\ ring[s] = {1} /\ ctx[s]
      /\ addressOf[d] = 0 /\ d # 0 /\ del.pc = "idle"
      /\ dzHubAddress = ParentAddress(d) /\ dzPortOnHub = Port(d) /\ (Parent(d) # 0 => addressOf[Parent(d)] # 0)
      /\ \A b \in Addresses : Slot[b] # s
  BY <1>a, Fields DEF SetAddress, GateFree, EnumInv, DelInv
<1>2. UNCHANGED <<mapVars, dzHubAddress, dzPortOnHub, slotVars, del, familyVars, hwVars, hwEpVars, upset>>
  BY DEF SetAddress
<1>3. PICK a \in Addresses \ {addressOf[x] : x \in Devices}, pc \in {"address", "failed"} :
        /\ enum'.pc = pc /\ enum'.dev = d /\ enum'.slot = s
        /\ pc = "address" => isBeingAddressed' = TRUE /\ enum'.addr = a
  <2>1. PICK a \in Addresses \ {addressOf[x] : x \in Devices} :
          IF GetSlotID(0) = 0 THEN Goto("failed") /\ UNCHANGED isBeingAddressed
          ELSE /\ isBeingAddressed' = TRUE
               /\ enum' = [enum EXCEPT !.pc = IF RouteFound THEN "address" ELSE "failed", !.addr = a]
    BY DEF SetAddress
  <2>2. CASE Goto("failed")
    BY <2>2, <1>a, GotoKeeps DEF EnumPcs
  <2>3. CASE /\ isBeingAddressed' = TRUE
             /\ enum' = [enum EXCEPT !.pc = IF RouteFound THEN "address" ELSE "failed", !.addr = a]
    <3>1. PICK q \in {"address", "failed"} : q = IF RouteFound THEN "address" ELSE "failed"
      OBVIOUS
    <3>2. enum' = [enum EXCEPT !.pc = q, !.addr = a]
      BY <2>3, <3>1
    <3>3. enum' = [pc |-> q, dev |-> d, ep |-> 0, slot |-> s, addr |-> a]
      BY <3>2, <1>a DEF EnumType
    <3> QED BY <2>3, <3>3
  <2> QED BY <2>1, <2>2, <2>3
<1> HIDE DEF s, d
<1> USE DEF mapVars, slotVars, familyVars, hwVars, hwEpVars
<1>4. a # 0 /\ \A x \in Devices : addressOf[x] # a
  BY <1>3 DEF Addresses
<1>5. MapInv' /\ SlotInv' /\ FamilyInv'
  BY <1>1, <1>2, <1>a DEF MapInv, SlotInv, FamilyInv
<1>6. DeviceInv'
  BY <1>2, DevicesKept
<1>7. ZeroInv' /\ DelInv'
  BY <1>1, <1>2, <1>3, <1>a DEF ZeroInv, DelInv, s, d
<1>8. EnumInv'
  <2>1. ParentAddress(enum.dev)' = ParentAddress(enum.dev)
    BY <1>2, <1>3 DEF ParentAddress, d
  <2>2. CASE pc = "failed"
    BY <1>1, <1>2, <1>3, <2>2, <1>a DEF EnumInv, d
  <2>3. CASE pc = "address"
    BY <1>1, <1>2, <1>3, <1>4, <2>1, <2>3 DEF EnumInv, s, d
  <2> QED BY <2>2, <2>3
<1>9. AddressInv' /\ LostInv'
  BY <1>1, <1>2, <1>3, <1>a DEF AddressInv, LostInv, s
<1> QED BY <1>5, <1>6, <1>7, <1>8, <1>9 DEF Sound

\* The address is mapped to the slot of the enumeration, by the hub and the port of address 0.
LEMMA MapAddressKeeps == ASSUME TypeOK, Sound, MapAddress PROVE Sound'
<1>a. /\ MapInv /\ SlotInv /\ FamilyInv /\ DeviceInv /\ ZeroInv /\ EnumInv /\ DelInv /\ AddressInv /\ LostInv
      /\ MapType /\ FamilyType /\ EnumType /\ DelType /\ HwType /\ SlotType
  BY DEF Sound, TypeOK
<1> DEFINE s == enum.slot
           d == enum.dev
           a == enum.addr
<1>1. /\ enum.pc = "addressed" /\ s # 0 /\ hwState[s] # "disabled" /\ ring[s] = {1} /\ ctx[s]
      /\ addressOf[d] = 0 /\ d # 0 /\ del.pc = "idle" /\ a # 0 /\ (isBeingAddressed \/ Slot[0] = 0)
      /\ dzHubAddress = ParentAddress(d) /\ dzPortOnHub = Port(d) /\ (Parent(d) # 0 => addressOf[Parent(d)] # 0)
      /\ \A b \in Addresses : Slot[b] # s
      /\ \A x \in Devices : addressOf[x] # a
      /\ hwAddress[s] # 0 /\ hwPath[s] = PathOf[d]
  BY <1>a, Fields DEF MapAddress, EnumInv, DelInv
<1>2. UNCHANGED <<isBeingAddressed, slotVars, del, familyVars, hwVars, hwEpVars, upset>>
  BY DEF MapAddress
<1>3. enum'.pc = "status" /\ enum'.dev = d /\ enum'.slot = s /\ enum'.addr = a
  BY <1>a, GotoKeeps DEF MapAddress, EnumPcs
<1>4. a \in Entries /\ s \in 0 .. NumSlots
  BY <1>a, Fields
<1>5. /\ Slot'[a] = s /\ Active'[a] = TRUE /\ HubAddress'[a] = ParentAddress(d) /\ PortOnHub'[a] = Port(d)
      /\ \A b \in Entries : b # a => /\ Slot'[b] = Slot[b] /\ Active'[b] = Active[b]
                                     /\ HubAddress'[b] = HubAddress[b] /\ PortOnHub'[b] = PortOnHub[b]
  BY <1>1, <1>4, <1>a DEF MapAddress, MapEntry, MapType
<1> HIDE DEF s, d, a
<1> USE DEF slotVars, familyVars, hwVars, hwEpVars
<1>6. 0 \in Entries /\ \A b : b \in Addresses <=> b \in Entries /\ b # 0
  BY IdleTypes, Sizes DEF Addresses, Entries
<1>7. MapInv'
  <2>1. ASSUME NEW b \in Entries
        PROVE  /\ Active'[b] => Slot'[b] # 0
               /\ Slot'[b] # 0 /\ hwState'[Slot'[b]] = "disabled" => del'.pc = "disabled" /\ b = del'.addr
    BY <1>1, <1>2, <1>5, <1>a DEF MapInv
  <2>2. ASSUME NEW b \in Addresses, Slot'[b] # 0
        PROVE  /\ \A c \in Addresses : Slot'[c] = Slot'[b] => c = b
               /\ Slot'[0] = Slot'[b] => b = a
    BY <2>2, <1>1, <1>5, <1>6, <1>a DEF MapInv
  <2> QED BY <2>1, <2>2, <1>3 DEF MapInv
<1>8. SlotInv' /\ FamilyInv'
  BY <1>2, <1>a DEF SlotInv, FamilyInv
<1>9. DeviceInv'
  <2> SUFFICES ASSUME NEW x \in Devices, addressOf[x] # 0 PROVE Mapped(x)' /\ (del'.dev # x => Served(x)')
    BY <1>2, DeviceInvSays DEF DeviceInv, Mapped, Served
  <2>1. Owned(x) /\ Mapped(x) /\ (del.dev # x => Served(x))
    BY <1>a, EachOwned, DeviceInvSays
  <2>2. addressOf[x] \in Entries /\ addressOf[x] # a
    BY <2>1, <1>1 DEF Owned
  <2>3. ParentAddress(x)' = ParentAddress(x)
    BY <1>2 DEF ParentAddress
  <2> QED BY <1>2, <1>5, <2>1, <2>2, <2>3 DEF Mapped, Served
<1>10. ZeroInv' /\ DelInv'
  BY <1>1, <1>2, <1>3, <1>5, <1>6, <1>a DEF ZeroInv, DelInv, s
<1>11. EnumInv'
  <2>1. ParentAddress(enum.dev)' = ParentAddress(enum.dev)
    BY <1>2, <1>3 DEF ParentAddress, d
  <2> QED BY <1>1, <1>2, <1>3, <1>5, <1>6, <2>1 DEF EnumInv, s, d, a
<1>12. AddressInv'
  BY <1>1, <1>2, <1>3, <1>5, <1>6, <1>a DEF AddressInv, s
<1>13. LostInv'
  <2>1. \A x \in Devices : addressOf[x] # 0 => Slot'[addressOf[x]] = Slot[addressOf[x]]
    BY <1>1, <1>5, <1>a DEF FamilyType
  <2> QED BY <1>1, <1>2, <1>3, <2>1, <1>a DEF LostInv, s
<1> QED BY <1>7, <1>8, <1>9, <1>10, <1>11, <1>12, <1>13 DEF Sound

\* The status stage of Set Address gives address 0 up; then the family knows the device.
LEMMA SetAddressStatusKeeps == ASSUME TypeOK, Sound, SetAddressStatus PROVE Sound'
<1>a. /\ MapInv /\ SlotInv /\ FamilyInv /\ DeviceInv /\ ZeroInv /\ EnumInv /\ DelInv /\ AddressInv /\ LostInv
      /\ MapType /\ FamilyType /\ EnumType /\ DelType /\ HwType /\ SlotType /\ ZeroType
  BY DEF Sound, TypeOK
<1> DEFINE s == enum.slot
           d == enum.dev
           a == enum.addr
<1>1. /\ enum.pc = "status" /\ s # 0 /\ ring[s] = {1} /\ ctx[s]
      /\ addressOf[d] = 0 /\ d # 0 /\ del.pc = "idle" /\ a # 0 /\ (isBeingAddressed \/ Slot[0] = 0)
      /\ Parent(d) # 0 => addressOf[Parent(d)] # 0
      /\ \A x \in Devices : addressOf[x] # a
      /\ hwAddress[s] # 0 /\ hwPath[s] = PathOf[d]
      /\ HubAddress[a] = ParentAddress(d) /\ PortOnHub[a] = Port(d) /\ Slot[a] = s /\ Active[a]
  BY <1>a, Fields DEF SetAddressStatus, GateFree, EnumInv, DelInv
<1>2. UNCHANGED <<dzHubAddress, dzPortOnHub, slotVars, del, hwVars, hwEpVars>>
  BY DEF SetAddressStatus
<1>3. a \in Entries /\ s \in SlotIds /\ d \in Devices /\ 0 \in Entries
  BY <1>1, <1>a, Fields, IdleTypes, Sizes DEF SlotIds, Devices
<1>4. PICK pc \in {"remap", "failed"} :
        /\ Goto(pc)
        /\ pc = "remap" => /\ addressOf' = [addressOf EXCEPT ![d] = a] /\ eps' = [eps EXCEPT ![d] = {1}]
                           /\ UNCHANGED upset
        /\ pc = "failed" => /\ UNCHANGED familyVars
                            /\ (Slot[0] = 0 /\ UNCHANGED upset) \/ upset' = upset \cup {"unknown"}
  <2>1. GetSlotID(0) = 0 => Slot[0] = 0
    BY <1>3, <1>a DEF GetSlotID, ZeroInv, Entries
  <2> QED BY <2>1 DEF SetAddressStatus, Upset
<1>5. /\ Slot'[0] = 0 /\ Active'[0] = FALSE /\ UNCHANGED <<HubAddress, PortOnHub>>
      /\ \A b \in Entries : b # 0 => Slot'[b] = Slot[b] /\ Active'[b] = Active[b]
  <2>1. Slot[0] = 0 => Active[0] = FALSE
    BY <1>3, <1>a DEF ZeroInv, MapType
  <2>2. CASE UNCHANGED mapVars
    <3>1. Slot[0] = 0
      <4>1. CASE GetSlotID(0) = 0
        BY <4>1, <1>3, <1>a DEF GetSlotID, ZeroInv, Entries
      <4>2. CASE GetSlotID(0) # 0 /\ isBeingAddressed
        <5>1. DropZero
          BY <4>2 DEF SetAddressStatus
        <5>2. Slot'[0] = 0
          BY <5>1, <1>3, <1>a DEF DropZero, MapType
        <5> QED BY <2>2, <5>2 DEF mapVars
      <4> QED BY <1>1, <4>1, <4>2
    <3> QED BY <2>1, <2>2, <3>1 DEF mapVars
  <2>3. CASE DropZero
    BY <2>3, <1>3, <1>a DEF DropZero, MapType
  <2> QED BY <2>2, <2>3 DEF SetAddressStatus
<1>6. enum'.pc = pc /\ enum'.dev = d /\ enum'.slot = s /\ enum'.addr = a
  BY <1>4, <1>a, GotoKeeps DEF EnumPcs
<1> HIDE DEF s, d, a
<1> USE DEF slotVars, familyVars, hwVars, hwEpVars
<1>7. \A b : b \in Addresses <=> b \in Entries /\ b # 0
  BY Sizes DEF Addresses, Entries
<1>8. MapInv'
  <2>1. ASSUME NEW b \in Entries
        PROVE  /\ Active'[b] => Slot'[b] # 0
               /\ Slot'[b] # 0 /\ hwState'[Slot'[b]] = "disabled" => del'.pc = "disabled" /\ b = del'.addr
    BY <1>1, <1>2, <1>5, <1>a DEF MapInv
  <2>2. ASSUME NEW b \in Addresses, Slot'[b] # 0
        PROVE  /\ \A c \in Addresses : Slot'[c] = Slot'[b] => c = b
               /\ Slot'[0] # Slot'[b]
    BY <2>2, <1>5, <1>7, <1>a DEF MapInv
  <2> QED BY <2>1, <2>2 DEF MapInv
<1>9. upset \subseteq upset' /\ (upset' \cap {"unknown", "stolen"} = {} => upset' = upset)
  BY <1>4
<1>10. SlotInv'
  BY <1>2, <1>9, <1>a DEF SlotInv
<1>u. upset' \cap {"unknown", "stolen"} = {} => Slot[0] = s
  BY <1>1, <1>9, <1>a DEF AddressInv, s
<1>k. ASSUME NEW x \in Devices, addressOf[x] # 0
      PROVE  /\ x # d /\ addressOf'[x] = addressOf[x] /\ eps'[x] = eps[x] /\ ParentAddress(x)' = ParentAddress(x)
             /\ Parent(x) # d
  <2>1. x # d /\ (Parent(x) # 0 => addressOf[Parent(x)] # 0 /\ Parent(x) \in Devices)
    BY <1>k, <1>1, <1>a, Parents DEF FamilyInv
  <2>2. Parent(x) # d
    BY <2>1, <1>1
  <2>3. addressOf'[x] = addressOf[x] /\ eps'[x] = eps[x]
        /\ (Parent(x) # 0 => addressOf'[Parent(x)] = addressOf[Parent(x)])
    BY <1>4, <2>1, <2>2, <1>a DEF FamilyType
  <2> QED BY <2>1, <2>2, <2>3 DEF ParentAddress
<1>l. DeviceInv' /\ FamilyInv' /\ EnumInv'
  <2>1. CASE pc = "failed"
    <3>1. DeviceInv'
      <4> SUFFICES ASSUME NEW x \in Devices, addressOf[x] # 0 PROVE Mapped(x)' /\ (del'.dev # x => Served(x)')
        BY <1>4, <2>1, DeviceInvSays DEF DeviceInv, Mapped, Served
      <4>1. Owned(x) /\ Mapped(x) /\ (del.dev # x => Served(x))
        BY <1>a, EachOwned, DeviceInvSays
      <4> QED BY <1>2, <1>5, <1>k, <4>1 DEF Mapped, Served, Owned
    <3>2. FamilyInv'
      BY <1>4, <2>1, <1>a DEF FamilyInv
    <3>3. EnumInv'
      BY <1>1, <1>4, <1>6, <2>1 DEF EnumInv
    <3> QED BY <3>1, <3>2, <3>3
  <2>2. CASE pc = "remap"
    <3>1. addressOf'[d] = a /\ eps'[d] = {1} /\ \A x \in Devices : x # d => addressOf'[x] = addressOf[x]
          /\ eps'[x] = eps[x]
      BY <1>3, <1>4, <2>2, <1>a DEF FamilyType
    <3>2. ASSUME NEW x, x = d
          PROVE  ParentAddress(x)' = ParentAddress(x) /\ (Parent(x) # 0 => addressOf'[Parent(x)] # 0)
      <4>1. Parent(x) # x /\ (Parent(x) # 0 => Parent(x) \in Devices)
        BY <1>3, <3>2, Parents
      <4> QED BY <3>1, <3>2, <4>1, <1>1 DEF ParentAddress
    <3>3. DeviceInv'
      <4> SUFFICES ASSUME NEW x \in Devices, addressOf'[x] # 0 PROVE Mapped(x)' /\ (del'.dev # x => Served(x)')
        BY DEF DeviceInv, Mapped, Served
      <4>1. CASE x = d
        <5>1. addressOf'[x] = a /\ eps'[x] = {1} /\ Slot'[a] = s /\ UNCHANGED <<HubAddress, PortOnHub>>
          BY <1>1, <1>3, <1>5, <3>1, <4>1
        <5>2. HubAddress[a] = ParentAddress(x) /\ PortOnHub[a] = Port(x) /\ s # 0 /\ ctx[s] /\ hwPath[s] = PathOf[x]
              /\ ring[s] = {1}
          BY <1>1, <4>1
        <5> QED BY <1>2, <5>1, <5>2, <3>2, <4>1 DEF Mapped, Served
      <4>2. CASE x # d
        <5>1. addressOf[x] # 0
          BY <4>2, <3>1
        <5>2. Owned(x) /\ Mapped(x) /\ (del.dev # x => Served(x))
          BY <5>1, <1>a, EachOwned, DeviceInvSays
        <5> QED BY <1>2, <1>5, <1>k, <5>1, <5>2 DEF Mapped, Served, Owned
      <4> QED BY <4>1, <4>2
    <3>4. FamilyInv'
      <4>1. ASSUME NEW x \in Devices, addressOf'[x] = 0 PROVE eps'[x] = {}
        BY <4>1, <1>1, <3>1, <1>a DEF FamilyInv
      <4>2. ASSUME NEW x \in Devices, addressOf'[x] # 0
            PROVE  /\ 1 \in eps'[x] /\ (Parent(x) # 0 => addressOf'[Parent(x)] # 0)
                   /\ \A y \in Devices : addressOf'[y] = addressOf'[x] => y = x
        <5>1. CASE x = d
          BY <5>1, <1>1, <3>1, <3>2
        <5>2. CASE x # d
          <6>1. addressOf[x] # 0 /\ addressOf[x] # a
            BY <4>2, <5>2, <3>1, <1>1
          <6>2. Parent(x) # 0 => addressOf'[Parent(x)] # 0
            BY <6>1, <1>k, <3>1, <1>a, Parents DEF FamilyInv
          <6> QED BY <5>2, <6>1, <6>2, <3>1, <1>a DEF FamilyInv
        <5> QED BY <5>1, <5>2
      <4> QED BY <4>1, <4>2 DEF FamilyInv
    <3>5. EnumInv'
      <4>1. \A x \in Devices : Parent(x) = d => addressOf'[x] = 0
        <5> SUFFICES ASSUME NEW x \in Devices, Parent(x) = d, addressOf'[x] # 0 PROVE FALSE
          OBVIOUS
        <5>1. x # d
          BY Parents
        <5> QED BY <5>1, <3>1, <1>k
      <4> QED BY <1>1, <1>2, <1>3, <1>5, <1>6, <2>2, <3>1, <3>2, <4>1 DEF EnumInv
    <3> QED BY <3>3, <3>4, <3>5
  <2> QED BY <2>1, <2>2
<1>11. ZeroInv' /\ DelInv'
  BY <1>1, <1>2, <1>5, <1>6, <1>a DEF ZeroInv, DelInv
<1>12. AddressInv'
  <2> SUFFICES ASSUME upset' \cap {"unknown", "stolen"} = {} PROVE AddressInv'
    BY DEF AddressInv
  <2>1. upset' = upset /\ pc = "remap"
    <3>1. pc = "failed" => Slot[0] = 0
      BY <1>4
    <3> QED BY <1>9, <1>u, <3>1, <1>1
  <2>2. ASSUME NEW b \in Addresses, Slot'[b] # 0 PROVE hwAddress'[Slot'[b]] = b \/ b = a
    <3>1. Slot'[b] = Slot[b]
      BY <1>5, <1>7
    <3> QED BY <1>1, <1>2, <2>1, <2>2, <3>1, <1>a DEF AddressInv, a
  <2> QED BY <1>6, <2>1, <2>2 DEF AddressInv
<1>13. LostInv'
  <2> SUFFICES ASSUME upset' \cap {"notDisabled", "notDeleted", "stolen", "unknown", "leftover"} = {} PROVE LostInv'
    BY DEF LostInv
  <2>1. upset' \cap {"unknown", "stolen"} = {}
    OBVIOUS
  <2>2. upset' = upset /\ pc = "remap"
    <3>1. pc = "failed" => Slot[0] = 0
      BY <1>4, <2>1
    <3> QED BY <2>1, <1>9, <1>u, <3>1, <1>1
  <2>3. \A x \in Devices : addressOf[x] # 0 => addressOf'[x] # 0 /\ Slot'[addressOf'[x]] = Slot[addressOf[x]]
    BY <1>k, <1>5, <1>a DEF FamilyType
  <2> QED BY <1>1, <1>2, <1>6, <2>2, <2>3, <1>a DEF LostInv, s
<1> QED BY <1>8, <1>10, <1>l, <1>11, <1>12, <1>13 DEF Sound

\* UIMGetActualDeviceAddress moves the entry of the device to the address that the xHC chose.
\* The entry of another address is only overwritten if an enumeration was cut short before.
LEMMA GetActualDeviceAddressKeeps ==
  ASSUME TypeOK, Sound, GetActualDeviceAddress, "overwritten" \notin upset
  PROVE  IF "overwritten" \in upset' THEN upset' \cap {"unknown", "stolen"} # {} ELSE Sound'
<1>a. /\ MapInv /\ SlotInv /\ FamilyInv /\ DeviceInv /\ ZeroInv /\ EnumInv /\ DelInv /\ AddressInv /\ LostInv
      /\ MapType /\ FamilyType /\ EnumType /\ DelType /\ HwType /\ SlotType /\ ZeroType
  BY DEF Sound, TypeOK
<1>0. PICK s, d, c : s = enum.slot /\ d = enum.dev /\ c = enum.addr
  OBVIOUS
<1>1. /\ enum.pc = "remap" /\ s # 0 /\ d # 0 /\ c # 0 /\ del.pc = "idle" /\ addressOf[d] = c
      /\ Slot[c] = s /\ Active[c] /\ hwAddress[s] # 0
      /\ Parent(d) # 0 => addressOf[Parent(d)] # 0
      /\ \A x \in Devices : Parent(x) = d => addressOf[x] = 0
  BY <1>0, <1>a, Fields DEF GetActualDeviceAddress, GateFree, EnumInv, DelInv
<1>2. c \in Entries /\ c \in Addresses /\ s \in SlotIds /\ d \in Devices /\ 0 \in Entries
  BY <1>0, <1>1, <1>a, Fields, IdleTypes, Sizes DEF SlotIds, Devices, Entries, Addresses
<1>3. PICK a \in Entries : a = hwAddress[s] /\ a # 0 /\ a \in Addresses
  BY <1>1, <1>2, <1>a, Sizes DEF HwType, Entries, Addresses
<1>4. GetSlotID(c) = s
  BY <1>1, <1>2 DEF GetSlotID, Entries
<1>5. UNCHANGED <<eps, zeroVars, slotVars, del, hwVars, hwEpVars>> /\ Goto("failed")
  BY DEF GetActualDeviceAddress
<1>6. enum'.pc = "failed" /\ enum'.dev = d /\ enum'.slot = s /\ enum'.addr = c
  BY <1>0, <1>5, <1>a, GotoKeeps DEF EnumPcs
<1>7. IF a = c \/ Active[a] THEN UNCHANGED <<mapVars, addressOf, upset>>
      ELSE /\ Slot' = Moved(Slot, c, a, 0) /\ Active' = Moved(Active, c, a, FALSE)
           /\ HubAddress' = Moved(HubAddress, c, a, 0) /\ PortOnHub' = Moved(PortOnHub, c, a, 0)
           /\ addressOf' = [addressOf EXCEPT ![d] = a]
           /\ upset' = IF Slot[a] # 0 THEN upset \cup {"overwritten"} ELSE upset
  BY <1>0, <1>1, <1>3, <1>4 DEF GetActualDeviceAddress, InUse, Upset
<1>8. Slot[0] = 0
  BY <1>1, <1>a DEF ZeroInv
<1>9. \A b : b \in Addresses <=> b \in Entries /\ b # 0
  BY Sizes DEF Addresses, Entries
<1>10. \* The address that the xHC chose is no one else's, unless an enumeration was cut short.
       ASSUME upset \cap {"unknown", "stolen"} = {}, a # c PROVE Slot[a] = 0
  <2> SUFFICES ASSUME Slot[a] # 0 PROVE FALSE
    OBVIOUS
  <2>1. hwAddress[Slot[a]] = a
    BY <1>0, <1>1, <1>3, <1>10, <1>a DEF AddressInv
  <2>2. Slot[a] \in SlotIds
    BY <1>a, Sizes DEF MapType, SlotIds
  <2>3. Slot[a] = s
    BY <1>1, <1>2, <1>3, <2>1, <2>2, <1>a DEF SlotInv
  <2> QED BY <1>1, <1>2, <1>3, <1>10, <2>3, <1>a DEF MapInv
<1> USE DEF slotVars, hwVars, hwEpVars, zeroVars
<1>11. CASE a = c \/ Active[a]
  <2>1. UNCHANGED <<mapVars, addressOf, upset>>
    BY <1>7, <1>11
  <2> USE DEF mapVars
  <2>2. upset \cap {"unknown", "stolen"} = {} => a = c
    <3>1. Active[a] => Slot[a] # 0
      BY <1>3, <1>a DEF MapInv
    <3> QED BY <1>10, <1>11, <3>1
  <2>3. MapInv' /\ SlotInv' /\ FamilyInv'
    BY <1>5, <1>8, <2>1, <1>a DEF MapInv, SlotInv, FamilyInv
  <2>4. DeviceInv'
    BY <1>5, <2>1, DevicesKept
  <2>5. ZeroInv' /\ DelInv'
    BY <1>1, <1>5, <1>6, <1>8, <2>1, <1>a DEF ZeroInv, DelInv
  <2>6. EnumInv'
    BY <1>1, <1>5, <1>6, <2>1 DEF EnumInv
  <2>7. AddressInv'
    BY <1>0, <1>1, <1>3, <1>5, <1>6, <2>1, <2>2, <1>a DEF AddressInv
  <2>8. LostInv'
    BY <1>0, <1>1, <1>5, <1>6, <2>1, <1>a DEF LostInv
  <2> QED BY <2>1, <2>3, <2>4, <2>5, <2>6, <2>7, <2>8 DEF Sound
<1>12. CASE a # c /\ ~Active[a] /\ Slot[a] # 0
  BY <1>7, <1>10, <1>12
<1>13. CASE a # c /\ ~Active[a] /\ Slot[a] = 0
  <2>1. /\ Slot' = Moved(Slot, c, a, 0) /\ Active' = Moved(Active, c, a, FALSE)
        /\ HubAddress' = Moved(HubAddress, c, a, 0) /\ PortOnHub' = Moved(PortOnHub, c, a, 0)
        /\ addressOf' = [addressOf EXCEPT ![d] = a] /\ upset' = upset
    BY <1>7, <1>13
  <2>2. /\ Slot'[a] = s /\ Slot'[c] = 0 /\ \A b \in Entries : b # a /\ b # c => Slot'[b] = Slot[b]
        /\ Active'[a] = TRUE /\ Active'[c] = FALSE /\ \A b \in Entries : b # a /\ b # c => Active'[b] = Active[b]
    BY <1>1, <1>2, <1>13, <2>1, <1>a DEF Moved, MapType
  <2>3. /\ HubAddress'[a] = HubAddress[c] /\ \A b \in Entries : b # a /\ b # c => HubAddress'[b] = HubAddress[b]
        /\ PortOnHub'[a] = PortOnHub[c] /\ \A b \in Entries : b # a /\ b # c => PortOnHub'[b] = PortOnHub[b]
    BY <1>2, <1>13, <2>1, <1>a DEF Moved, MapType
  <2>4. /\ addressOf'[d] = a /\ \A x \in Devices : x # d => addressOf'[x] = addressOf[x]
    BY <1>2, <2>1, <1>a DEF FamilyType
  <2>5. ASSUME NEW x \in Devices, addressOf'[x] # 0
        PROVE  /\ addressOf[x] # 0 /\ Parent(x) # d /\ ParentAddress(x)' = ParentAddress(x)
               /\ x # d => addressOf[x] # a /\ addressOf[x] # c
               /\ Parent(x) # 0 => addressOf'[Parent(x)] # 0
    <3>1. addressOf[x] # 0
      BY <1>1, <2>4, <2>5
    <3>2. Parent(x) # d /\ (Parent(x) # 0 => Parent(x) \in Devices /\ addressOf[Parent(x)] # 0)
      BY <1>1, <3>1, <1>a, Parents DEF FamilyInv
    <3>3. x # d => addressOf[x] # a /\ addressOf[x] # c
      BY <1>1, <1>2, <1>13, <3>1, <1>a DEF FamilyInv, DeviceInv
    <3> QED BY <2>4, <3>1, <3>2, <3>3 DEF ParentAddress
  <2>6. MapInv'
    <3>1. ASSUME NEW b \in Entries
          PROVE  /\ Active'[b] => Slot'[b] # 0
                 /\ Slot'[b] # 0 /\ hwState'[Slot'[b]] = "disabled" => del'.pc = "disabled" /\ b = del'.addr
      BY <1>1, <1>2, <1>5, <2>2, <1>a DEF MapInv
    <3>2. ASSUME NEW b \in Addresses, Slot'[b] # 0
          PROVE  /\ \A e \in Addresses : Slot'[e] = Slot'[b] => e = b
                 /\ Slot'[0] # Slot'[b]
      BY <3>2, <1>1, <1>2, <1>3, <1>8, <1>9, <2>2, <1>a DEF MapInv
    <3> QED BY <3>1, <3>2 DEF MapInv
  <2>7. SlotInv'
    BY <1>5, <2>1, <1>a DEF SlotInv
  <2>8. FamilyInv'
    <3>1. ASSUME NEW x \in Devices, addressOf'[x] = 0 PROVE eps'[x] = {}
      BY <3>1, <1>3, <1>5, <2>4, <1>a DEF FamilyInv
    <3>2. ASSUME NEW x \in Devices, addressOf'[x] # 0
          PROVE  /\ 1 \in eps'[x] /\ (Parent(x) # 0 => addressOf'[Parent(x)] # 0)
                 /\ \A y \in Devices : addressOf'[y] = addressOf'[x] => y = x
      <4>1. addressOf[x] # 0 /\ (Parent(x) # 0 => addressOf'[Parent(x)] # 0)
        BY <2>5, <3>2
      <4>2. ASSUME NEW y \in Devices, addressOf'[y] = addressOf'[x] PROVE y = x
        BY <2>4, <2>5, <3>2, <4>1, <4>2, <1>a DEF FamilyInv
      <4> QED BY <1>5, <4>1, <4>2, <1>a DEF FamilyInv
    <3> QED BY <3>1, <3>2 DEF FamilyInv
  <2>9. DeviceInv'
    <3> SUFFICES ASSUME NEW x \in Devices, addressOf'[x] # 0 PROVE Mapped(x)' /\ (del'.dev # x => Served(x)')
      BY DEF DeviceInv, Mapped, Served
    <3>1. Owned(x) /\ Mapped(x) /\ (del.dev # x => Served(x)) /\ ParentAddress(x)' = ParentAddress(x)
      BY <2>5, <1>a, EachOwned, DeviceInvSays
    <3>2. CASE x = d
      BY <1>1, <1>5, <2>2, <2>3, <2>4, <3>1, <3>2 DEF Mapped, Served
    <3>3. CASE x # d
      <4>1. addressOf'[x] = addressOf[x] /\ addressOf[x] # a /\ addressOf[x] # c /\ addressOf[x] \in Entries
        BY <2>4, <2>5, <3>1, <3>3 DEF Owned
      <4> QED BY <1>5, <2>2, <2>3, <3>1, <4>1 DEF Mapped, Served
    <3> QED BY <3>2, <3>3
  <2>10. Slot'[0] = 0 /\ Active'[0] = FALSE
    <3>1. Active[0] = FALSE
      BY <1>2, <1>8, <1>a DEF ZeroInv, MapType
    <3> QED BY <1>1, <1>2, <1>3, <1>8, <2>2, <3>1
  <2>11. ZeroInv' /\ DelInv'
    BY <1>1, <1>5, <1>6, <2>10, <1>a DEF ZeroInv, DelInv
  <2>12. EnumInv'
    <3>1. Parent(d) # 0 => addressOf'[Parent(d)] # 0
      <4>1. addressOf'[d] # 0
        BY <1>3, <2>4
      <4> QED BY <1>2, <2>5, <4>1
    <3> QED BY <1>1, <1>6, <3>1 DEF EnumInv
  <2>13. AddressInv'
    <3>1. ASSUME upset \cap {"unknown", "stolen"} = {}, NEW b \in Addresses, Slot'[b] # 0
          PROVE  hwAddress'[Slot'[b]] = b
      <4>1. CASE b = a
        BY <1>3, <1>5, <2>2, <4>1
      <4>2. CASE b # a
        BY <1>0, <1>1, <1>5, <1>9, <2>2, <3>1, <4>2, <1>a DEF AddressInv
      <4> QED BY <4>1, <4>2
    <3> QED BY <1>6, <2>1, <3>1 DEF AddressInv
  <2>14. LostInv'
    <3>1. \A x \in Devices : addressOf[x] # 0 => addressOf'[x] # 0 /\ Slot'[addressOf'[x]] = Slot[addressOf[x]]
      <4> SUFFICES ASSUME NEW x \in Devices, addressOf[x] # 0
                   PROVE  addressOf'[x] # 0 /\ Slot'[addressOf'[x]] = Slot[addressOf[x]]
        OBVIOUS
      <4>1. CASE x = d
        BY <1>1, <1>3, <2>2, <2>4, <4>1
      <4>2. CASE x # d
        <5>1. addressOf'[x] = addressOf[x]
          BY <2>4, <4>2
        <5>2. addressOf[x] \in Entries /\ addressOf[x] # a /\ addressOf[x] # c
          BY <2>5, <4>2, <5>1, <1>a DEF FamilyType
        <5> QED BY <2>2, <5>1, <5>2
      <4> QED BY <4>1, <4>2
    <3>2. LostInv' <=> (upset \cap {"notDisabled", "notDeleted", "stolen", "unknown", "leftover"} = {} =>
            /\ \A t \in SlotIds : hwState[t] # "disabled" =>
                 t = s \/ t = del.slot \/ \E x \in Devices : addressOf'[x] # 0 /\ Slot'[addressOf'[x]] = t
            /\ s # 0 => Slot'[0] = s \/ (addressOf'[d] # 0 /\ Slot'[addressOf'[d]] = s))
      BY <1>5, <1>6, <2>1 DEF LostInv
    <3>3. addressOf'[d] # 0 /\ Slot'[addressOf'[d]] = s
      BY <1>3, <2>2, <2>4
    <3> QED BY <1>0, <3>1, <3>2, <3>3, <1>a DEF LostInv
  <2> QED BY <2>1, <2>6, <2>7, <2>8, <2>9, <2>11, <2>12, <2>13, <2>14 DEF Sound
<1> QED BY <1>11, <1>12, <1>13

\* A device in use gets an endpoint more.
LEMMA CreateEndpointKeeps ==
  ASSUME TypeOK, Sound, NEW d \in Devices, NEW e \in Endpoints, CreateEndpoint(d, e)
  PROVE  Sound'
<1>a. /\ MapInv /\ SlotInv /\ FamilyInv /\ DeviceInv /\ ZeroInv /\ EnumInv /\ DelInv /\ AddressInv /\ LostInv
      /\ MapType /\ FamilyType /\ EnumType /\ DelType /\ HwType /\ SlotType
  BY DEF Sound, TypeOK
<1>0. PICK a, s : a = addressOf[d] /\ s = Slot[a]
  OBVIOUS
<1>1. /\ a # 0 /\ enum.dev # d /\ e \notin eps[d] /\ del.pc = "idle" /\ GetSlotID(a) = s /\ s # 0
      /\ enum.pc \in {"idle", "default", "status", "remap", "failed"}
  BY <1>0, <1>a, GetSlotIDType DEF CreateEndpoint, GateFree, Usable
<1>2. Owned(d) /\ Mapped(d) /\ Served(d)
  <2>1. del.dev # d
    BY <1>1, <1>a, Parents DEF DelInv
  <2> QED BY <2>1, <1>0, <1>1, <1>a, EachOwned, DeviceInvSays
<1>3. s \in SlotIds /\ hwState[s] # "disabled" /\ s # Slot[0] /\ a \in Entries
  BY <1>0, <1>1, <1>2, <1>a DEF Owned, MapInv
<1>4. /\ ring' \in {ring, [ring EXCEPT ![s] = @ \cup {e}]}
      /\ \/ UNCHANGED <<hwEpVars, eps>>
         \/ /\ ring' = [ring EXCEPT ![s] = @ \cup {e}]
            /\ hwEps' = [hwEps EXCEPT ![s] = @ \cup {e}]
            /\ hwCtxNum' = [hwCtxNum EXCEPT ![s] = IF @ < e THEN e ELSE @]
            /\ eps' = [eps EXCEPT ![d] = @ \cup {e}]
      /\ UNCHANGED <<mapVars, zeroVars, ctx, enum, del, addressOf, hwVars, upset>>
  BY <1>0, <1>1 DEF CreateEndpoint
<1> USE DEF mapVars, zeroVars, hwVars, hwEpVars
<1>5. /\ ring[s] \subseteq ring'[s] /\ ring'[s] \subseteq ring[s] \cup {e}
      /\ \A t \in SlotIds : t # s => ring'[t] = ring[t] /\ hwEps'[t] = hwEps[t] /\ hwCtxNum'[t] = hwCtxNum[t]
      /\ \A x \in Devices : x # d => eps'[x] = eps[x]
  BY <1>3, <1>4, <1>a DEF SlotType, HwType, FamilyType
<1>6. \/ eps'[d] = eps[d] /\ hwEps'[s] = hwEps[s] /\ hwCtxNum'[s] = hwCtxNum[s]
      \/ /\ eps'[d] = eps[d] \cup {e} /\ hwEps'[s] = hwEps[s] \cup {e} /\ ring'[s] = ring[s] \cup {e}
         /\ hwCtxNum'[s] = IF hwCtxNum[s] < e THEN e ELSE hwCtxNum[s]
  <2>1. CASE UNCHANGED <<hwEpVars, eps>>
    BY <2>1
  <2>2. CASE /\ ring' = [ring EXCEPT ![s] = @ \cup {e}] /\ hwEps' = [hwEps EXCEPT ![s] = @ \cup {e}]
             /\ hwCtxNum' = [hwCtxNum EXCEPT ![s] = IF @ < e THEN e ELSE @]
             /\ eps' = [eps EXCEPT ![d] = @ \cup {e}]
    BY <1>3, <2>2, <1>a DEF SlotType, HwType, FamilyType
  <2> QED BY <1>4, <2>1, <2>2
<1>7. MapInv'
  BY <1>4, <1>a DEF MapInv
<1>8. SlotInv'
  <2>1. \A t \in SlotIds : hwState'[t] = "disabled" => ring'[t] = {} /\ hwAddress'[t] = 0
    BY <1>3, <1>4, <1>5, <1>a DEF SlotInv
  <2>2. "notDropped" \notin upset' => \A t \in SlotIds : hwEps'[t] \subseteq ring'[t]
    BY <1>3, <1>4, <1>5, <1>6, <1>a DEF SlotInv
  <2> QED BY <1>4, <2>1, <2>2, <1>a DEF SlotInv
<1>9. FamilyInv'
  <2>1. \A x \in Devices : eps[x] \subseteq eps'[x] /\ (addressOf[x] = 0 => eps'[x] = eps[x])
    BY <1>0, <1>1, <1>5, <1>6
  <2> QED BY <1>4, <2>1, <1>a DEF FamilyInv
<1>10. DeviceInv'
  <2> SUFFICES ASSUME NEW x \in Devices, addressOf[x] # 0 PROVE Mapped(x)' /\ (del'.dev # x => Served(x)')
    BY <1>4 DEF DeviceInv, Mapped, Served
  <2>1. Owned(x) /\ Mapped(x) /\ (del.dev # x => Served(x))
    BY <1>a, EachOwned, DeviceInvSays
  <2>2. ParentAddress(x)' = ParentAddress(x)
    BY <1>4 DEF ParentAddress
  <2>3. Mapped(x)'
    BY <1>4, <2>1, <2>2 DEF Mapped
  <2>4. ASSUME del.dev # x PROVE Served(x)'
    <3>1. CASE x = d
      <4>1. /\ ctx[s] /\ hwPath[s] = PathOf[x] /\ eps[d] \subseteq ring[s]
            /\ \A f \in eps[d] \ {1} : f \in hwEps[s] /\ f <= hwCtxNum[s]
        BY <1>0, <1>2 , <3>1 DEF Served
      <4>2. hwCtxNum[s] \in Nat /\ e \in Nat /\ \A f \in eps[d] : f \in Nat
        BY <1>3, <1>a, Sizes DEF HwType, FamilyType, Endpoints
      <4>3. /\ eps'[d] \subseteq ring'[s]
            /\ \A f \in eps'[d] \ {1} : f \in hwEps'[s] /\ f <= hwCtxNum'[s]
        BY <1>5, <1>6, <4>1, <4>2
      <4> QED BY <1>0, <1>4, <3>1, <4>1, <4>3 DEF Served
    <3>2. CASE x # d
      <4>1. Slot[addressOf[x]] # s /\ Slot[addressOf[x]] \in SlotIds
        BY <1>0, <1>1, <1>2, <2>1, <3>2 DEF Owned
      <4> QED BY <1>4, <1>5, <2>1, <2>4, <3>2, <4>1 DEF Served
    <3> QED BY <3>1, <3>2
  <2> QED BY <1>4, <2>3, <2>4
<1>11. Slot[0] # 0 => ring'[Slot[0]] = ring[Slot[0]]
  <2>1. Slot[0] # 0 => Slot[0] \in SlotIds
    BY <1>a, IdleTypes, Sizes DEF MapType, SlotIds
  <2> QED BY <1>3, <1>5, <2>1
<1>12. ZeroInv' /\ DelInv'
  BY <1>1, <1>4, <1>11, <1>a DEF ZeroInv, DelInv
<1>13. EnumInv'
  <2>1. enum.pc \in {"default", "status"} => ring'[enum.slot] = ring[enum.slot]
    <3>1. enum.pc \in {"default", "status"} => enum.slot # s /\ enum.slot \in SlotIds
      BY <1>0, <1>2, <1>a, Fields, Sizes DEF Owned, EnumInv, SlotIds
    <3> QED BY <1>5, <3>1
  <2>2. ParentAddress(enum.dev)' = ParentAddress(enum.dev)
    BY <1>4 DEF ParentAddress
  <2> QED BY <1>1, <1>4, <2>1, <2>2, <1>a DEF EnumInv
<1>14. AddressInv' /\ LostInv'
  BY <1>4, <1>a DEF AddressInv, LostInv
<1> QED BY <1>7, <1>8, <1>9, <1>10, <1>12, <1>13, <1>14 DEF Sound

\* Any request's status stage may give address 0 up.
LEMMA StatusStageKeeps == ASSUME TypeOK, Sound, NEW d \in Devices, StatusStage(d) PROVE Sound'
<1>a. /\ MapInv /\ SlotInv /\ FamilyInv /\ DeviceInv /\ ZeroInv /\ EnumInv /\ DelInv /\ AddressInv /\ LostInv
      /\ MapType /\ FamilyType /\ EnumType /\ DelType /\ HwType /\ SlotType
  BY DEF Sound, TypeOK
<1>1. /\ UNCHANGED <<dzHubAddress, dzPortOnHub, slotVars, enum, del, familyVars, hwVars, hwEpVars>>
      /\ isBeingAddressed' = FALSE /\ UNCHANGED <<HubAddress, PortOnHub>> /\ del.pc = "idle"
      /\ upset' = upset \cup {"stolen"}
  BY DEF StatusStage, DropZero, Upset, GateFree
<1>2. /\ Slot'[0] = 0 /\ Active'[0] = FALSE /\ 0 \in Entries
      /\ \A b \in Entries : b # 0 => Slot'[b] = Slot[b] /\ Active'[b] = Active[b]
  BY <1>a, IdleTypes DEF StatusStage, DropZero, MapType
<1>3. \A b : b \in Addresses <=> b \in Entries /\ b # 0
  BY Sizes DEF Addresses, Entries
<1> USE DEF slotVars, familyVars, hwVars, hwEpVars
<1>4. MapInv'
  <2>1. ASSUME NEW b \in Entries
        PROVE  /\ Active'[b] => Slot'[b] # 0
               /\ Slot'[b] # 0 /\ hwState'[Slot'[b]] = "disabled" => del'.pc = "disabled" /\ b = del'.addr
    BY <1>1, <1>2, <1>a DEF MapInv
  <2>2. ASSUME NEW b \in Addresses, Slot'[b] # 0
        PROVE  /\ \A c \in Addresses : Slot'[c] = Slot'[b] => c = b
               /\ Slot'[0] # Slot'[b]
    BY <2>2, <1>2, <1>3, <1>a DEF MapInv
  <2> QED BY <2>1, <2>2 DEF MapInv
<1>5. SlotInv' /\ FamilyInv'
  BY <1>1, <1>a DEF SlotInv, FamilyInv
<1>6. DeviceInv'
  <2>1. \A b \in Addresses : UNCHANGED <<Slot[b], HubAddress[b], PortOnHub[b]>>
    BY <1>1, <1>2, <1>3
  <2>2. ASSUME NEW x \in Devices, addressOf[x] # 0 PROVE Slot'[addressOf'[x]] = Slot[addressOf[x]]
    <3>1. addressOf[x] \in Addresses
      BY <2>2, EachOwned DEF Owned
    <3> QED BY <1>1, <2>1, <3>1
  <2> QED BY <1>1, <2>1, <2>2, DevicesKept
<1>7. ZeroInv' /\ DelInv'
  BY <1>1, <1>2, <1>a DEF ZeroInv, DelInv
<1>8. EnumInv'
  <2>1. ParentAddress(enum.dev)' = ParentAddress(enum.dev)
    BY <1>1 DEF ParentAddress
  <2>2. enum.addr # 0 => Slot'[enum.addr] = Slot[enum.addr] /\ Active'[enum.addr] = Active[enum.addr]
    BY <1>2, <1>a, Fields
  <2> QED BY <1>1, <1>2, <1>3, <2>1, <2>2, <1>a DEF EnumInv
<1>9. AddressInv' /\ LostInv'
  BY <1>1 DEF AddressInv, LostInv
<1> QED BY <1>4, <1>5, <1>6, <1>7, <1>8, <1>9 DEF Sound

\* A step that changes nothing but which addresses are active.
LEMMA ActiveKeeps ==
  ASSUME TypeOK, Sound,
         UNCHANGED <<Slot, HubAddress, PortOnHub, zeroVars, slotVars, enum, del, familyVars, hwVars, hwEpVars,
                     upset>>,
         \A b \in Entries : Active'[b] => Slot[b] # 0,
         Active'[0] <=> Slot[0] # 0,
         enum.pc \in {"status", "remap"} => Active'[enum.addr]
  PROVE  Sound'
<1>a. /\ MapInv /\ SlotInv /\ FamilyInv /\ DeviceInv /\ ZeroInv /\ EnumInv /\ DelInv /\ AddressInv /\ LostInv
      /\ MapType /\ FamilyType /\ EnumType /\ DelType /\ HwType /\ SlotType
  BY DEF Sound, TypeOK
<1> USE DEF zeroVars, slotVars, familyVars, hwVars, hwEpVars
<1>1. MapInv'
  BY <1>a DEF MapInv
<1>2. SlotInv' /\ FamilyInv'
  BY <1>a DEF SlotInv, FamilyInv
<1>3. DeviceInv'
  BY DevicesKept
<1>4. ZeroInv' /\ DelInv'
  BY <1>a DEF ZeroInv, DelInv
<1>5. EnumInv'
  <2>1. ParentAddress(enum.dev)' = ParentAddress(enum.dev)
    BY DEF ParentAddress
  <2> QED BY <2>1, <1>a DEF EnumInv
<1>6. AddressInv' /\ LostInv'
  BY <1>a DEF AddressInv, LostInv
<1> QED BY <1>1, <1>2, <1>3, <1>4, <1>5, <1>6 DEF Sound

\* UIMEnableAddressEndpoints does.
LEMMA EnableAddressEndpointsKeeps ==
  ASSUME TypeOK, Sound, NEW d \in Devices, NEW on \in BOOLEAN, EnableAddressEndpoints(d, on)
  PROVE  Sound'
<1>a. MapInv /\ ZeroInv /\ EnumInv /\ MapType /\ FamilyType /\ EnumType /\ DelType
  BY DEF Sound, TypeOK
<1>1. /\ addressOf[d] # 0 /\ enum.dev # d /\ Slot[addressOf[d]] # 0
      /\ Active' = [Active EXCEPT ![addressOf[d]] = on]
      /\ UNCHANGED <<Slot, HubAddress, PortOnHub, zeroVars, slotVars, enum, del, familyVars, hwVars, hwEpVars, upset>>
  BY DEF EnableAddressEndpoints, Usable
<1>2. Owned(d)
  BY <1>1, EachOwned
<1>3. \A b \in Entries : b # addressOf[d] => Active'[b] = Active[b]
  BY <1>1, <1>a DEF MapType
<1>4. \A b \in Entries : Active'[b] => Slot[b] # 0
  BY <1>1, <1>3, <1>a DEF MapInv
<1>5. Active'[0] <=> Slot[0] # 0
  <2>1. 0 \in Entries /\ Active'[0] = Active[0]
    BY <1>1, <1>3, IdleTypes
  <2> QED BY <2>1, <1>a DEF ZeroInv
<1>6. enum.pc \in {"status", "remap"} => Active'[enum.addr]
  <2>1. enum.pc \in {"status", "remap"} => enum.addr # addressOf[d] /\ enum.addr \in Entries /\ Active[enum.addr]
    BY <1>1, <1>2, <1>a, Fields DEF Owned, EnumInv
  <2> QED BY <1>3, <2>1
<1> QED BY <1>1, <1>4, <1>5, <1>6, ActiveKeeps

\* So does UIMEnableAllEndpoints.
LEMMA EnableAllEndpointsKeeps == ASSUME TypeOK, Sound, EnableAllEndpoints PROVE Sound'
<1>a. EnumInv /\ EnumType /\ DelType
  BY DEF Sound, TypeOK
<1>1. /\ Active' = [b \in Entries |-> Slot[b] # 0]
      /\ UNCHANGED <<Slot, HubAddress, PortOnHub, zeroVars, slotVars, enum, del, familyVars, hwVars, hwEpVars, upset>>
  BY DEF EnableAllEndpoints, Entries
<1>2. 0 \in Entries /\ enum.addr \in Entries
  BY <1>a, Fields, IdleTypes
<1>3. enum.pc \in {"status", "remap"} => Slot[enum.addr] # 0
  BY <1>a DEF EnumInv
<1>4. \A b \in Entries : Active'[b] <=> Slot[b] # 0
  BY <1>1
<1> QED BY <1>1, <1>2, <1>3, <1>4, ActiveKeeps

\* A Disable Slot command that fails leaves the slot, with its context and mapping about to go;
\* that the slot is lost is all that becomes wrong.
LEMMA DisableSlotFails ==
  ASSUME TypeOK, Sound, Upset("notDisabled", TRUE),
         UNCHANGED <<mapVars, zeroVars, slotVars, familyVars, hwVars, hwEpVars>>,
         \/ enum.pc = "disable" /\ enum' = Idle /\ UNCHANGED del
         \/ del.pc = "disable" /\ del' = [del EXCEPT !.pc = "disabled"] /\ UNCHANGED enum
  PROVE  Sound'
<1>a. /\ MapInv /\ SlotInv /\ FamilyInv /\ DeviceInv /\ ZeroInv /\ EnumInv /\ DelInv /\ AddressInv
      /\ FamilyType /\ EnumType /\ DelType
  BY DEF Sound, TypeOK
<1> USE DEF mapVars, zeroVars, slotVars, familyVars, hwVars, hwEpVars
<1>1. /\ "notDisabled" \in upset' /\ ("notDropped" \in upset' <=> "notDropped" \in upset)
      /\ upset' \cap {"unknown", "stolen"} = upset \cap {"unknown", "stolen"}
  BY DEF Upset
<1>2. SlotInv' /\ FamilyInv' /\ LostInv'
  BY <1>1, <1>a DEF SlotInv, FamilyInv, LostInv
<1>3. CASE enum.pc = "disable" /\ enum' = Idle /\ UNCHANGED del
  <2>1. enum'.pc = "idle" /\ enum'.dev = 0 /\ enum'.slot = 0 /\ enum'.addr = 0 /\ Slot[0] = 0 /\ del.pc = "idle"
    BY <1>3, <1>a, IdleTypes, Fields DEF ZeroInv, DelInv
  <2>2. MapInv' /\ DeviceInv'
    BY <1>3, <2>1, <1>a DEF MapInv, DeviceInv, ParentAddress
  <2>3. ZeroInv' /\ EnumInv' /\ DelInv' /\ AddressInv'
    BY <1>1, <1>3, <2>1, <1>a DEF ZeroInv, EnumInv, DelInv, AddressInv
  <2> QED BY <1>2, <2>2, <2>3 DEF Sound
<1>4. CASE del.pc = "disable" /\ del' = [del EXCEPT !.pc = "disabled"] /\ UNCHANGED enum
  <2>1. /\ del'.pc = "disabled" /\ del'.dev = del.dev /\ del'.slot = del.slot /\ del'.addr = del.addr
        /\ del'.ep = del.ep
    BY <1>4, <1>a, Fields
  <2>2. MapInv' /\ DeviceInv'
    BY <1>4, <2>1, <1>a DEF MapInv, DeviceInv, ParentAddress
  <2>3. ZeroInv' /\ EnumInv'
    BY <1>4, <2>1, <1>a DEF ZeroInv, EnumInv, ParentAddress
  <2>4. DelInv' /\ AddressInv'
    BY <1>1, <1>4, <2>1, <1>a DEF DelInv, AddressInv
  <2> QED BY <1>2, <2>2, <2>3, <2>4 DEF Sound
<1> QED BY <1>3, <1>4

\* The Disable Slot command leaves nothing of a slot, which is that of an enumeration that no
\* address is mapped to, or that of the deletion under way.
LEMMA HwDisableSlotKeeps == ASSUME TypeOK, Sound, HwDisableSlot PROVE Sound'
<1>a. /\ MapInv /\ SlotInv /\ FamilyInv /\ DeviceInv /\ ZeroInv /\ EnumInv /\ DelInv /\ AddressInv /\ LostInv
      /\ MapType /\ FamilyType /\ EnumType /\ DelType /\ HwType /\ SlotType
  BY DEF Sound, TypeOK
<1>1. UNCHANGED <<mapVars, zeroVars, slotVars, familyVars>>
  BY DEF HwDisableSlot
<1>b. \A b \in Entries : Slot[b] # 0 => Slot[b] \in SlotIds
  BY <1>a, Sizes DEF MapType, SlotIds
<1>c. \A b : b \in Addresses <=> b \in Entries /\ b # 0
  BY Sizes DEF Addresses, Entries
<1> USE DEF mapVars, zeroVars, slotVars, familyVars
<1>d. ASSUME NEW s \in SlotIds, Disabled(s), UNCHANGED upset, ring[s] = {}
      PROVE  /\ SlotInv'
             /\ hwState'[s] = "disabled"
             /\ \A t \in SlotIds : t # s => /\ hwState'[t] = hwState[t] /\ hwPath'[t] = hwPath[t]
                                            /\ hwAddress'[t] = hwAddress[t] /\ hwEps'[t] = hwEps[t]
                                            /\ hwCtxNum'[t] = hwCtxNum[t]
  <2>1. /\ hwState'[s] = "disabled" /\ hwAddress'[s] = 0 /\ hwEps'[s] = {}
        /\ \A t \in SlotIds : t # s => /\ hwState'[t] = hwState[t] /\ hwPath'[t] = hwPath[t]
                                       /\ hwAddress'[t] = hwAddress[t] /\ hwEps'[t] = hwEps[t]
                                       /\ hwCtxNum'[t] = hwCtxNum[t]
    BY <1>d, <1>a DEF Disabled, HwType
  <2>2. SlotInv'
    BY <1>1, <1>d, <2>1, <1>a DEF SlotInv
  <2> QED BY <2>1, <2>2
<1>2. CASE enum.pc = "disable" /\ Disabled(enum.slot) /\ UNCHANGED upset /\ enum' = Idle /\ UNCHANGED del
  <2>0. PICK s : s = enum.slot
    OBVIOUS
  <2>1. /\ s \in SlotIds /\ ring[s] = {} /\ del.pc = "idle" /\ \A b \in Addresses : Slot[b] # s
    BY <1>2, <2>0, <1>a, Fields, Sizes DEF EnumInv, DelInv, SlotIds
  <2>2. Slot[0] = 0
    BY <1>2, <1>a DEF ZeroInv
  <2>3. /\ SlotInv' /\ hwState'[s] = "disabled"
        /\ \A t \in SlotIds : t # s => /\ hwState'[t] = hwState[t] /\ hwPath'[t] = hwPath[t]
                                       /\ hwAddress'[t] = hwAddress[t] /\ hwEps'[t] = hwEps[t]
                                       /\ hwCtxNum'[t] = hwCtxNum[t]
    BY <1>2, <1>d, <2>0, <2>1
  <2>4. enum'.pc = "idle" /\ enum'.dev = 0 /\ enum'.slot = 0 /\ enum'.addr = 0
    BY <1>2, IdleTypes
  <2>5. MapInv'
    <3>1. \A b \in Entries : Slot[b] # 0 => hwState'[Slot[b]] = hwState[Slot[b]]
      BY <1>b, <1>c, <2>1, <2>2, <2>3
    <3> QED BY <1>1, <1>2, <2>2, <3>1, <1>a DEF MapInv
  <2>6. FamilyInv'
    BY <1>1, <1>a DEF FamilyInv
  <2>7. DeviceInv'
    <3>1. ASSUME NEW x \in Devices, addressOf[x] # 0 PROVE Slot[addressOf[x]] \in SlotIds /\ Slot[addressOf[x]] # s
      BY <3>1, <2>1, EachOwned DEF Owned
    <3> QED BY <1>1, <1>2, <2>3, <3>1, DevicesKept
  <2>8. ZeroInv' /\ DelInv' /\ EnumInv'
    BY <1>1, <1>2, <2>1, <2>2, <2>4, <1>a DEF ZeroInv, DelInv, EnumInv
  <2>9. AddressInv'
    <3>1. \A b \in Addresses : Slot[b] # 0 => hwAddress'[Slot[b]] = hwAddress[Slot[b]]
      BY <1>b, <1>c, <2>1, <2>3
    <3> QED BY <1>1, <1>2, <2>1, <2>4, <3>1, <1>a DEF AddressInv
  <2>10. LostInv'
    <3>1. \A t \in SlotIds : hwState'[t] # "disabled" => t # s /\ hwState[t] # "disabled"
      BY <2>3
    <3> QED BY <1>1, <1>2, <2>0, <2>4, <3>1, <1>a DEF LostInv
  <2> QED BY <2>3, <2>5, <2>6, <2>7, <2>8, <2>9, <2>10 DEF Sound
<1>3. CASE /\ del.pc = "disable" /\ Disabled(del.slot) /\ UNCHANGED upset
          /\ del' = [del EXCEPT !.pc = "disabled"] /\ UNCHANGED enum
  <2>0. PICK s, a : s = del.slot /\ a = del.addr
    OBVIOUS
  <2>1. /\ s \in SlotIds /\ ring[s] = {} /\ a \in Entries /\ Slot[a] = s
        /\ enum.pc \in {"idle", "default", "status", "remap", "failed"}
        /\ IF del.dev = 0 THEN a = 0 /\ enum.pc = "failed"
           ELSE /\ del.dev \in Devices /\ a = addressOf[del.dev] /\ a # 0 /\ enum.dev # del.dev
    BY <1>3, <2>0, <1>a, Fields, Sizes DEF DelInv, SlotIds, Devices
  <2>2. del'.pc = "disabled" /\ del'.dev = del.dev /\ del'.slot = s /\ del'.addr = a /\ del'.ep = del.ep
    BY <1>3, <2>0, <1>a, Fields
  <2>3. /\ SlotInv' /\ hwState'[s] = "disabled"
        /\ \A t \in SlotIds : t # s => /\ hwState'[t] = hwState[t] /\ hwPath'[t] = hwPath[t]
                                       /\ hwAddress'[t] = hwAddress[t] /\ hwEps'[t] = hwEps[t]
                                       /\ hwCtxNum'[t] = hwCtxNum[t]
    BY <1>3, <1>d, <2>0, <2>1
  <2>4. \* No other address is mapped to the slot.
        \A b \in Entries : Slot[b] = s => b = a
    <3>1. CASE del.dev = 0
      BY <1>c, <2>1, <3>1, <1>a DEF MapInv, SlotIds
    <3>2. CASE del.dev # 0
      <4>1. Owned(del.dev)
        BY <2>1, <3>2, EachOwned
      <4> QED BY <2>1, <3>2, <4>1 DEF Owned
    <3> QED BY <3>1, <3>2
  <2>5. \* Nor is it that of the enumeration.
        enum.pc \in {"default", "status", "remap"} => enum.slot # s
    <3>1. CASE del.dev = 0
      BY <2>1, <3>1
    <3>2. CASE del.dev # 0
      <4>1. Owned(del.dev)
        BY <2>1, <3>2, EachOwned
      <4> QED BY <2>1, <3>2, <4>1 DEF Owned
    <3> QED BY <3>1, <3>2
  <2>6. MapInv'
    <3>1. \A b \in Entries : Slot[b] # 0 => b = a \/ hwState'[Slot[b]] = hwState[Slot[b]]
      BY <1>b, <2>3, <2>4
    <3>2. ASSUME NEW b \in Entries
          PROVE  /\ Active[b] => Slot[b] # 0
                 /\ Slot[b] # 0 /\ hwState'[Slot[b]] = "disabled" => b = a
      BY <1>3, <3>1, <1>a DEF MapInv
    <3>3. \A b \in Addresses : Slot[b] # 0 =>
            /\ \A c \in Addresses : Slot[c] = Slot[b] => c = b
            /\ Slot[0] = Slot[b] => enum.pc = "status" /\ b = enum.addr
      BY <1>a DEF MapInv
    <3> QED BY <1>1, <1>3, <2>2, <3>2, <3>3 DEF MapInv
  <2>7. FamilyInv'
    BY <1>1, <1>a DEF FamilyInv
  <2>8. DeviceInv'
    <3>1. ASSUME NEW x \in Devices, addressOf[x] # 0, del'.dev # x
          PROVE  Slot[addressOf[x]] \in SlotIds /\ Slot[addressOf[x]] # s
      BY <1>3, <3>1, <2>0, <2>2, EachOwned DEF Owned
    <3> QED BY <1>1, <2>2, <2>3, <3>1, DevicesKept
  <2>9. ZeroInv'
    BY <1>1, <1>3, <2>2, <1>a DEF ZeroInv
  <2>10. DelInv'
    BY <1>1, <1>3, <2>0, <2>2, <2>3, <1>a DEF DelInv
  <2>11. EnumInv'
    <3>1. enum.pc \in {"default", "status", "remap"} => enum.slot \in SlotIds
      BY <1>a, Fields, Sizes DEF EnumInv, SlotIds
    <3>2. enum.pc \in {"default", "status", "remap"} =>
            /\ hwState'[enum.slot] = hwState[enum.slot] /\ hwPath'[enum.slot] = hwPath[enum.slot]
            /\ hwAddress'[enum.slot] = hwAddress[enum.slot]
      BY <2>3, <2>5, <3>1
    <3>3. ParentAddress(enum.dev)' = ParentAddress(enum.dev)
      BY <1>1, <1>3 DEF ParentAddress
    <3> QED BY <1>1, <1>3, <2>1, <3>2, <3>3, <1>a DEF EnumInv
  <2>12. AddressInv'
    <3>1. \A b \in Addresses : Slot[b] # 0 => b = a \/ hwAddress'[Slot[b]] = hwAddress[Slot[b]]
      BY <1>b, <1>c, <2>3, <2>4
    <3> QED BY <1>1, <1>3, <2>2, <3>1, <1>a DEF AddressInv
  <2>13. LostInv'
    <3>1. \A t \in SlotIds : hwState'[t] # "disabled" => hwState[t] # "disabled"
      BY <2>3
    <3> QED BY <1>1, <1>3, <2>0, <2>2, <3>1, <1>a DEF LostInv
  <2> QED BY <2>3, <2>6, <2>7, <2>8, <2>9, <2>10, <2>11, <2>12, <2>13 DEF Sound
<1>4. CASE Upset("notDisabled", TRUE) /\ UNCHANGED <<hwVars, hwEpVars>>
  <2>1. \/ enum.pc = "disable" /\ enum' = Idle /\ UNCHANGED del
        \/ del.pc = "disable" /\ del' = [del EXCEPT !.pc = "disabled"] /\ UNCHANGED enum
    BY DEF HwDisableSlot
  <2> QED BY <1>1, <1>4, <2>1, DisableSlotFails
<1> QED BY <1>2, <1>3, <1>4 DEF HwDisableSlot, DisableSlot

\* The family forgets at most a device that no other device it knows or enumerates is behind.
LEMMA LeafForgotten ==
  ASSUME TypeOK, Sound, NEW k \in Devices, addressOf[k] # 0, enum.dev # k, Leaf(k), UNCHANGED enum,
         addressOf' \in {addressOf, [addressOf EXCEPT ![k] = 0]},
         \A x \in Devices : x # k => eps'[x] = eps[x],
         IF addressOf'[k] = 0 THEN eps'[k] = {} ELSE 1 \in eps'[k]
  PROVE  /\ FamilyInv'
         /\ \A x \in Devices : x # k => addressOf'[x] = addressOf[x]
         /\ \A x \in Devices : addressOf'[x] # 0 => /\ addressOf'[x] = addressOf[x]
                                                    /\ ParentAddress(x)' = ParentAddress(x)
         /\ enum.pc # "idle" => /\ enum.dev \in Devices /\ addressOf'[enum.dev] = addressOf[enum.dev]
                                /\ ParentAddress(enum.dev)' = ParentAddress(enum.dev)
                                /\ Parent(enum.dev) # 0 => addressOf'[Parent(enum.dev)] # 0
<1>a. FamilyInv /\ EnumInv /\ FamilyType /\ EnumType /\ DelType
  BY DEF Sound, TypeOK
<1>1. \A x \in Devices : x # k => addressOf'[x] = addressOf[x]
  BY <1>a DEF FamilyType
<1>2. addressOf'[k] \in {addressOf[k], 0}
  BY <1>a DEF FamilyType
<1>3. ASSUME NEW x \in Devices, addressOf'[x] # 0
      PROVE  /\ addressOf'[x] = addressOf[x] /\ ParentAddress(x)' = ParentAddress(x)
             /\ Parent(x) # 0 => addressOf'[Parent(x)] # 0
  <2>1. addressOf'[x] = addressOf[x]
    BY <1>1, <1>2, <1>3
  <2>2. Parent(x) # k
    BY <1>3, <2>1 DEF Leaf
  <2>3. Parent(x) # 0 => addressOf'[Parent(x)] = addressOf[Parent(x)]
    BY <1>1, <2>2, Parents
  <2>4. Parent(x) # 0 => addressOf[Parent(x)] # 0
    BY <1>3, <2>1, <1>a DEF FamilyInv
  <2> QED BY <2>1, <2>3, <2>4 DEF ParentAddress
<1>4. ASSUME enum.pc # "idle"
      PROVE  /\ enum.dev \in Devices /\ addressOf'[enum.dev] = addressOf[enum.dev]
             /\ ParentAddress(enum.dev)' = ParentAddress(enum.dev)
             /\ Parent(enum.dev) # 0 => addressOf'[Parent(enum.dev)] # 0
  <2>1. enum.dev \in Devices
    BY <1>4, <1>a, Fields, Sizes DEF EnumInv, Devices
  <2>2. Parent(enum.dev) # k
    BY <2>1 DEF Leaf
  <2>3. Parent(enum.dev) # 0 => addressOf'[Parent(enum.dev)] = addressOf[Parent(enum.dev)]
    BY <1>1, <2>1, <2>2, Parents
  <2>4. Parent(enum.dev) # 0 => addressOf[Parent(enum.dev)] # 0
    BY <1>4, <1>a DEF EnumInv
  <2> QED BY <1>1, <2>1, <2>3, <2>4 DEF ParentAddress
<1>5. FamilyInv'
  <2>1. ASSUME NEW x \in Devices, addressOf'[x] = 0 PROVE eps'[x] = {}
    BY <1>1, <2>1, <1>a DEF FamilyInv
  <2>2. ASSUME NEW x \in Devices, addressOf'[x] # 0
        PROVE  /\ 1 \in eps'[x] /\ (Parent(x) # 0 => addressOf'[Parent(x)] # 0)
               /\ \A y \in Devices : addressOf'[y] = addressOf'[x] => y = x
    <3>1. 1 \in eps'[x]
      <4>1. CASE x = k
        BY <2>2, <4>1
      <4>2. CASE x # k
        BY <1>1, <2>2, <4>2, <1>a DEF FamilyInv
      <4> QED BY <4>1, <4>2
    <3>2. ASSUME NEW y \in Devices, addressOf'[y] = addressOf'[x] PROVE y = x
      <4>1. addressOf[y] = addressOf[x] /\ addressOf[x] # 0
        BY <1>3, <2>2, <3>2
      <4> QED BY <4>1, <1>a DEF FamilyInv
    <3> QED BY <1>3, <2>2, <3>1, <3>2
  <2> QED BY <2>1, <2>2 DEF FamilyInv
<1> QED BY <1>1, <1>3, <1>4, <1>5

\* A deletion waits for the Disable Slot command: the last ring of the slot is released.
LEMMA DeleteBegins ==
  ASSUME TypeOK, Sound, NEW k \in 0 .. NumDevices, NEW e \in Endpoints, NEW a \in Entries, NEW s \in SlotIds,
         s = Slot[a], del.pc = "idle", enum.pc \in {"idle", "default", "status", "remap", "failed"},
         IF k = 0 THEN a = 0 /\ enum.pc = "failed"
         ELSE a = addressOf[k] /\ a # 0 /\ e \in eps[k] /\ enum.dev # k /\ Leaf(k),
         Deconfigures(s, e), ring' = [ring EXCEPT ![s] = @ \ {e}], ring'[s] = {},
         del' = [pc |-> "disable", dev |-> k, ep |-> e, slot |-> s, addr |-> a],
         upset \subseteq upset', "notDropped" \notin upset' => e \notin hwEps'[s],
         UNCHANGED <<enum, familyVars, mapVars, zeroVars, ctx, hwVars>>
  PROVE  Sound'
<1>a. /\ MapInv /\ SlotInv /\ FamilyInv /\ DeviceInv /\ ZeroInv /\ EnumInv /\ DelInv /\ AddressInv /\ LostInv
      /\ MapType /\ FamilyType /\ EnumType /\ DelType /\ HwType /\ SlotType
  BY DEF Sound, TypeOK
<1> USE DEF familyVars, mapVars, zeroVars, hwVars
<1>1. del'.pc = "disable" /\ del'.dev = k /\ del'.ep = e /\ del'.slot = s /\ del'.addr = a /\ s # 0
  BY DEF SlotIds
<1>2. ring[s] \subseteq {e} /\ \A t \in SlotIds : t # s => ring'[t] = ring[t]
  BY <1>a DEF SlotType
<1>3. \A t \in SlotIds : t # s => hwEps'[t] = hwEps[t] /\ hwCtxNum'[t] = hwCtxNum[t]
  BY DEF Deconfigures
<1>4. \A x \in Devices : del.dev # x
  BY <1>a, Parents DEF DelInv
<1>5. k # 0 => /\ k \in Devices /\ Owned(k) /\ eps[k] = {e}
  <2> SUFFICES ASSUME k # 0 PROVE k \in Devices /\ Owned(k) /\ eps[k] = {e}
    OBVIOUS
  <2>1. k \in Devices
    BY Sizes DEF Devices
  <2>2. Owned(k) /\ Served(k)
    BY <2>1, <1>4, <1>a, EachOwned, DeviceInvSays
  <2> QED BY <1>2, <2>1, <2>2 DEF Served
<1>6. \A x \in Devices : addressOf[x] # 0 /\ x # k => Slot[addressOf[x]] \in SlotIds /\ Slot[addressOf[x]] # s
  <2> SUFFICES ASSUME NEW x \in Devices, addressOf[x] # 0, x # k
               PROVE  Slot[addressOf[x]] \in SlotIds /\ Slot[addressOf[x]] # s
    OBVIOUS
  <2>1. Owned(x)
    BY EachOwned
  <2> QED BY <2>1, <1>5 DEF Owned
<1>7. MapInv' /\ FamilyInv'
  BY <1>a DEF MapInv, FamilyInv
<1>8. SlotInv'
  <2>1. \A t \in SlotIds : hwState'[t] = "disabled" => ring'[t] = {} /\ hwAddress'[t] = 0
    BY <1>2, <1>a DEF SlotInv
  <2>2. ASSUME "notDropped" \notin upset', NEW t \in SlotIds PROVE hwEps'[t] \subseteq ring'[t]
    <3>1. hwEps[t] \subseteq ring[t]
      BY <2>2, <1>a DEF SlotInv
    <3>2. hwEps'[s] \subseteq hwEps[s]
      BY DEF Deconfigures
    <3> QED BY <1>2, <1>3, <2>2, <3>1, <3>2
  <2> QED BY <2>1, <2>2, <1>a DEF SlotInv
<1>9. DeviceInv'
  <2>1. ASSUME NEW x \in Devices, addressOf[x] # 0, del'.dev # x
        PROVE  /\ del.dev # x
               /\ UNCHANGED <<ctx[Slot[addressOf[x]]], hwPath[Slot[addressOf[x]]], ring[Slot[addressOf[x]]],
                              hwEps[Slot[addressOf[x]]], hwCtxNum[Slot[addressOf[x]]]>>
    BY <1>1, <1>2, <1>3, <1>4, <1>6, <2>1
  <2> QED BY <2>1, DevicesKept
<1>10. ZeroInv'
  <2>1. CASE k = 0
    BY <1>1, <2>1, <1>a DEF ZeroInv
  <2>2. CASE k # 0
    <3>1. Slot[0] # s /\ (Slot[0] # 0 => Slot[0] \in SlotIds)
      BY <1>5, <2>2, <1>a, IdleTypes, Sizes DEF Owned, MapType, SlotIds
    <3> QED BY <1>1, <1>2, <2>2, <3>1, <1>a DEF ZeroInv
  <2> QED BY <2>1, <2>2
<1>11. EnumInv'
  <2>1. enum.pc \in {"default", "status"} => enum.slot # s /\ enum.slot \in SlotIds
    BY <1>5, <1>a, Fields, Sizes DEF Owned, EnumInv, SlotIds
  <2>2. enum.pc \in {"default", "status"} => ring'[enum.slot] = ring[enum.slot]
    BY <1>2, <2>1
  <2>3. ParentAddress(enum.dev)' = ParentAddress(enum.dev)
    BY DEF ParentAddress
  <2> QED BY <2>2, <2>3, <1>a DEF EnumInv
<1>12. DelInv'
  BY <1>1, <1>5 DEF DelInv, Leaf
<1>13. AddressInv' /\ LostInv'
  <2>1. AddressInv'
    BY <1>1, <1>a DEF AddressInv
  <2>2. LostInv'
    <3>1. \A t \in SlotIds : t # 0
      BY DEF SlotIds
    <3>2. del.slot = 0
      BY <1>a DEF DelInv
    <3> QED BY <1>1, <3>1, <3>2, <1>a DEF LostInv
  <2> QED BY <2>1, <2>2
<1> QED BY <1>7, <1>8, <1>9, <1>10, <1>11, <1>12, <1>13 DEF Sound

\* The family is done with an endpoint of a device, without a Disable Slot command: either other
\* endpoints of the slot have rings, or the address is not active.
LEMMA EndpointDeleted ==
  ASSUME TypeOK, Sound, NEW k \in Devices, NEW e \in Endpoints, NEW a \in Entries, NEW s \in SlotIds,
         a = addressOf[k], s = Slot[a], a # 0, del.pc = "idle",
         enum.pc \in {"idle", "default", "status", "remap", "failed"},
         e \in eps[k], enum.dev # k, Leaf(k), e = 1 => eps[k] = {1},
         Deconfigures(s, e), ring' \in {ring, [ring EXCEPT ![s] = @ \ {e}]},
         upset \subseteq upset', "notDropped" \notin upset' => hwEps'[s] \subseteq ring'[s],
         eps' = [eps EXCEPT ![k] = @ \ {e}],
         addressOf' = IF eps'[k] = {} THEN [addressOf EXCEPT ![k] = 0] ELSE addressOf,
         eps'[k] = {} => upset' \cap {"leftover", "notDeleted"} # {},
         UNCHANGED <<enum, del, mapVars, zeroVars, ctx, hwVars>>
  PROVE  Sound'
<1>a. /\ MapInv /\ SlotInv /\ FamilyInv /\ DeviceInv /\ ZeroInv /\ EnumInv /\ DelInv /\ AddressInv /\ LostInv
      /\ MapType /\ FamilyType /\ EnumType /\ DelType /\ HwType /\ SlotType
  BY DEF Sound, TypeOK
<1> USE DEF mapVars, zeroVars, hwVars
<1>1. Owned(k) /\ Mapped(k) /\ Served(k)
  <2>1. del.dev # k
    BY <1>a, Parents DEF DelInv
  <2> QED BY <2>1, <1>a, EachOwned, DeviceInvSays
<1>2. /\ \A t \in SlotIds : ring'[t] \subseteq ring[t] /\ (t # s => ring'[t] = ring[t])
      /\ ring[s] \ {e} \subseteq ring'[s]
  BY <1>a DEF SlotType
<1>3. /\ \A t \in SlotIds : t # s => hwEps'[t] = hwEps[t] /\ hwCtxNum'[t] = hwCtxNum[t]
      /\ hwEps'[s] \subseteq hwEps[s]
      /\ \A f \in ring[s] \ {1, e} : f \in hwEps[s] /\ f <= hwCtxNum[s] => f \in hwEps'[s] /\ f <= hwCtxNum'[s]
  BY DEF Deconfigures
<1>4. eps'[k] = eps[k] \ {e} /\ \A x \in Devices : x # k => eps'[x] = eps[x]
  BY <1>a DEF FamilyType
<1>5. IF addressOf'[k] = 0 THEN eps'[k] = {} ELSE 1 \in eps'[k]
  <2>1. CASE eps'[k] = {}
    BY <2>1, <1>a DEF FamilyType
  <2>2. CASE eps'[k] # {}
    <3>1. addressOf'[k] = a /\ 1 \in eps[k] /\ e # 1
      BY <2>2, <1>4, <1>a DEF FamilyInv
    <3> QED BY <1>4, <3>1
  <2> QED BY <2>1, <2>2
<1>6. /\ FamilyInv'
      /\ \A x \in Devices : x # k => addressOf'[x] = addressOf[x]
      /\ \A x \in Devices : addressOf'[x] # 0 => /\ addressOf'[x] = addressOf[x]
                                                 /\ ParentAddress(x)' = ParentAddress(x)
      /\ enum.pc # "idle" => /\ enum.dev \in Devices /\ addressOf'[enum.dev] = addressOf[enum.dev]
                             /\ ParentAddress(enum.dev)' = ParentAddress(enum.dev)
                             /\ Parent(enum.dev) # 0 => addressOf'[Parent(enum.dev)] # 0
  BY <1>4, <1>5, LeafForgotten
<1>7. \A x \in Devices : addressOf'[x] \in {addressOf[x], 0}
  BY <1>6
<1>8. MapInv'
  BY <1>a DEF MapInv
<1>9. SlotInv'
  <2>1. \A t \in SlotIds : hwState'[t] = "disabled" => ring'[t] = {} /\ hwAddress'[t] = 0
    BY <1>2, <1>a DEF SlotInv
  <2>2. ASSUME "notDropped" \notin upset', NEW t \in SlotIds PROVE hwEps'[t] \subseteq ring'[t]
    BY <1>2, <1>3, <2>2, <1>a DEF SlotInv
  <2> QED BY <2>1, <2>2, <1>a DEF SlotInv
<1>10. DeviceInv'
  <2> SUFFICES ASSUME NEW x \in Devices, addressOf'[x] # 0 PROVE Mapped(x)' /\ Served(x)'
    BY DEF DeviceInv, Mapped, Served
  <2>1. addressOf'[x] = addressOf[x] /\ ParentAddress(x)' = ParentAddress(x)
    BY <1>6
  <2>2. Owned(x) /\ Mapped(x) /\ Served(x)
    <3>1. del.dev # x
      BY <1>a, Parents DEF DelInv
    <3> QED BY <2>1, <3>1, <1>a, EachOwned, DeviceInvSays
  <2>3. Mapped(x)'
    BY <2>1, <2>2 DEF Mapped
  <2>4. Served(x)'
    <3>1. CASE x = k
      <4>1. /\ ctx[s] /\ hwPath[s] = PathOf[k] /\ eps[k] \subseteq ring[s]
            /\ \A f \in eps[k] \ {1} : f \in hwEps[s] /\ f <= hwCtxNum[s]
        BY <1>1 DEF Served
      <4>2. eps'[k] \subseteq ring'[s] /\ \A f \in eps'[k] \ {1} : f \in hwEps'[s] /\ f <= hwCtxNum'[s]
        BY <1>2, <1>3, <1>4, <4>1
      <4> QED BY <2>1, <3>1, <4>1, <4>2 DEF Served
    <3>2. CASE x # k
      <4>1. Slot[addressOf[x]] # s /\ Slot[addressOf[x]] \in SlotIds
        BY <1>1, <2>1, <2>2, <3>2 DEF Owned
      <4> QED BY <1>2, <1>3, <1>4, <2>1, <2>2, <3>2, <4>1 DEF Served
    <3> QED BY <3>1, <3>2
  <2> QED BY <2>3, <2>4
<1>11. Slot[0] # s /\ (Slot[0] # 0 => Slot[0] \in SlotIds)
  BY <1>1, <1>a, IdleTypes, Sizes DEF Owned, MapType, SlotIds
<1>12. ZeroInv'
  <2>1. Slot[0] # 0 => ring'[Slot[0]] = ring[Slot[0]]
    BY <1>2, <1>11
  <2>2. enum.pc = "failed" => addressOf'[enum.dev] = addressOf[enum.dev]
    BY <1>6
  <2> QED BY <2>1, <2>2, <1>a DEF ZeroInv
<1>13. EnumInv'
  <2>1. enum.pc \in {"default", "status"} => enum.slot # s /\ enum.slot \in SlotIds
    BY <1>1, <1>a, Fields, Sizes DEF Owned, EnumInv, SlotIds
  <2>2. enum.pc \in {"default", "status"} => ring'[enum.slot] = ring[enum.slot]
    BY <1>2, <2>1
  <2>3. enum.addr # 0 /\ (\A d \in Devices : addressOf[d] # enum.addr) => \A d \in Devices : addressOf'[d] # enum.addr
    BY <1>7
  <2>4. (\A d \in Devices : Parent(d) = enum.dev => addressOf[d] = 0)
        => \A d \in Devices : Parent(d) = enum.dev => addressOf'[d] = 0
    BY <1>7
  <2>5. enum.pc # "idle" => /\ addressOf'[enum.dev] = addressOf[enum.dev]
                            /\ ParentAddress(enum.dev)' = ParentAddress(enum.dev)
                            /\ Parent(enum.dev) # 0 => addressOf'[Parent(enum.dev)] # 0
    BY <1>6
  <2>6. enum'.pc = enum.pc /\ enum'.dev = enum.dev /\ enum'.slot = enum.slot /\ enum'.addr = enum.addr
    OBVIOUS
  <2> QED BY <2>2, <2>3, <2>4, <2>5, <2>6, <1>a DEF EnumInv
<1>14. DelInv' /\ AddressInv'
  BY <1>a DEF DelInv, AddressInv
<1>15. LostInv'
  <2>1. CASE eps'[k] = {}
    BY <2>1 DEF LostInv
  <2>2. CASE eps'[k] # {}
    <3>1. UNCHANGED addressOf
      BY <2>2
    <3> QED BY <3>1, <1>a DEF LostInv
  <2> QED BY <2>1, <2>2
<1> QED BY <1>6, <1>8, <1>9, <1>10, <1>12, <1>13, <1>14, <1>15 DEF Sound

\* So UIMDeleteEndpoint keeps the invariant. It ends an enumeration whose slot is gone at once.
LEMMA DeleteEndpointKeeps ==
  ASSUME TypeOK, Sound, NEW k \in 0 .. NumDevices, NEW e \in Endpoints, DeleteEndpoint(k, e)
  PROVE  Sound'
<1>a. /\ MapInv /\ SlotInv /\ FamilyInv /\ DeviceInv /\ ZeroInv /\ EnumInv /\ DelInv /\ AddressInv /\ LostInv
      /\ MapType /\ FamilyType /\ EnumType /\ DelType /\ HwType /\ SlotType
  BY DEF Sound, TypeOK
<1>0. PICK a, s : a = (IF k = 0 THEN 0 ELSE addressOf[k]) /\ s = GetSlotID(a)
  OBVIOUS
<1>1. /\ del.pc = "idle" /\ enum.pc \in {"idle", "default", "status", "remap", "failed"}
      /\ IF k = 0 THEN enum.pc = "failed" /\ e = 1
         ELSE e \in eps[k] /\ enum.dev # k /\ Leaf(k) /\ (e = 1 => eps[k] = {1})
      /\ UNCHANGED <<mapVars, zeroVars, ctx, hwVars>>
  BY DEF DeleteEndpoint, GateFree
<1>2. /\ IF s # 0
         THEN /\ DeconfigureEndpoint(s, e) /\ DeleteRing(k, e, a, s)
              /\ upset' = upset \cup (IF e \in hwEps'[s] THEN {"notDropped"} ELSE {})
                                \cup (IF ring'[s] # {} /\ (k # 0 => eps'[k] = {}) THEN {"leftover"} ELSE {})
         ELSE Deleted(k, e) /\ Upset("notDeleted", k # 0) /\ UNCHANGED <<ring, del, hwEpVars, failures>>
  BY <1>0 DEF DeleteEndpoint
<1>3. a \in Entries /\ upset \subseteq upset' /\ (k # 0 => k \in Devices)
  BY <1>0, <1>2, <1>a, IdleTypes, Sizes DEF FamilyType, Upset, Devices
<1>4. k # 0 => a # 0
  BY <1>0, <1>1, <1>3, <1>a DEF FamilyInv
<1>5. s # 0 => s \in SlotIds /\ s = Slot[a]
  BY <1>0, <1>a, GetSlotIDType
<1>6. CASE s # 0
  <2>1. Deconfigures(s, e)
    BY <1>2, <1>5, <1>6, <1>a, DeconfigureDoes
  <2>2. ring' = [ring EXCEPT ![s] = @ \ {e}] /\ ring'[s] = ring[s] \ {e}
    BY <1>2, <1>5, <1>6, <1>a DEF DeleteRing, SlotType
  <2>3. "notDropped" \notin upset' => e \notin hwEps'[s]
    BY <1>2, <1>6
  <2>4. CASE ring'[s] = {}
    <3>1. del' = [pc |-> "disable", dev |-> k, ep |-> e, slot |-> s, addr |-> a] /\ UNCHANGED <<enum, familyVars>>
      BY <1>2, <1>6, <2>4 DEF DeleteRing
    <3>2. IF k = 0 THEN a = 0 /\ enum.pc = "failed"
          ELSE a = addressOf[k] /\ a # 0 /\ e \in eps[k] /\ enum.dev # k /\ Leaf(k)
      BY <1>0, <1>1, <1>4
    <3> QED BY <1>1, <1>3, <1>5, <1>6, <2>1, <2>2, <2>3, <2>4, <3>1, <3>2, DeleteBegins
  <2>5. CASE ring'[s] # {}
    <3>1. k # 0
      <4> SUFFICES ASSUME k = 0 PROVE FALSE
        OBVIOUS
      <4>1. ring[Slot[0]] = {1} /\ e = 1 /\ a = 0
        BY <1>0, <1>1, <1>5, <1>6, <1>a DEF ZeroInv
      <4> QED BY <1>5, <1>6, <2>2, <2>5, <4>1
    <3>2. Deleted(k, e) /\ UNCHANGED del
      BY <1>2, <1>6, <2>5 DEF DeleteRing
    <3>3. /\ eps' = [eps EXCEPT ![k] = @ \ {e}] /\ UNCHANGED enum
          /\ addressOf' = IF eps'[k] = {} THEN [addressOf EXCEPT ![k] = 0] ELSE addressOf
      BY <3>1, <3>2 DEF Deleted
    <3>4. "notDropped" \notin upset' => hwEps'[s] \subseteq ring'[s]
      <4> SUFFICES ASSUME "notDropped" \notin upset' PROVE hwEps'[s] \subseteq ring'[s]
        OBVIOUS
      <4>1. hwEps[s] \subseteq ring[s]
        BY <1>3, <1>5, <1>6, <1>a DEF SlotInv
      <4>2. hwEps'[s] \subseteq hwEps[s]
        BY <2>1 DEF Deconfigures
      <4> QED BY <2>2, <2>3, <4>1, <4>2
    <3>5. eps'[k] = {} => upset' \cap {"leftover", "notDeleted"} # {}
      BY <1>2, <1>6, <2>5
    <3>6. a = addressOf[k] /\ e \in eps[k] /\ enum.dev # k /\ Leaf(k) /\ (e = 1 => eps[k] = {1}) /\ k \in Devices
      BY <1>0, <1>1, <1>3, <3>1
    <3> QED BY <1>1, <1>3, <1>4, <1>5, <1>6, <2>1, <2>2, <3>1, <3>2, <3>3, <3>4, <3>5, <3>6, EndpointDeleted
  <2> QED BY <2>4, <2>5
<1>7. CASE s = 0 /\ k # 0
  <2>1. Deleted(k, e) /\ upset' = upset \cup {"notDeleted"} /\ UNCHANGED <<ring, del, hwEps, hwCtxNum>>
    BY <1>2, <1>7 DEF Upset, hwEpVars
  <2>2. /\ eps' = [eps EXCEPT ![k] = @ \ {e}] /\ UNCHANGED enum
        /\ addressOf' = IF eps'[k] = {} THEN [addressOf EXCEPT ![k] = 0] ELSE addressOf
    BY <1>7, <2>1 DEF Deleted
  <2>3. a = addressOf[k] /\ e \in eps[k] /\ enum.dev # k /\ Leaf(k) /\ (e = 1 => eps[k] = {1}) /\ k \in Devices
    BY <1>0, <1>1, <1>3, <1>7
  <2>4. PICK t \in SlotIds : t = Slot[a]
    BY <1>4, <1>7, <2>3, EachOwned DEF Owned
  <2>5. Deconfigures(t, e)
    BY <2>1, <1>a DEF Deconfigures, HwType
  <2>6. "notDropped" \notin upset' => hwEps'[t] \subseteq ring'[t]
    BY <2>1, <1>a DEF SlotInv
  <2> QED BY <1>1, <1>3, <1>4, <1>7, <2>1, <2>2, <2>3, <2>4, <2>5, <2>6, EndpointDeleted
<1>8. CASE s = 0 /\ k = 0
  <2>1. enum' = Idle /\ UNCHANGED <<familyVars, ring, del, hwEpVars, upset>>
    BY <1>2, <1>8 DEF Deleted, Upset
  <2>2. Slot[0] = 0
    BY <1>0, <1>8, <1>a, IdleTypes DEF GetSlotID, ZeroInv, Entries
  <2>3. enum'.pc = "idle" /\ enum'.dev = 0 /\ enum'.slot = 0 /\ enum'.addr = 0 /\ enum.pc = "failed"
    BY <1>1, <1>8, <2>1, IdleTypes
  <2> USE DEF mapVars, zeroVars, hwVars, hwEpVars, familyVars
  <2>4. MapInv' /\ SlotInv' /\ FamilyInv'
    BY <1>1, <2>1, <2>2, <1>a DEF MapInv, SlotInv, FamilyInv
  <2>5. DeviceInv'
    <3>1. \A x \in Devices : del.dev # x
      BY <1>1, <1>a, Parents DEF DelInv
    <3> QED BY <1>1, <2>1, <3>1, DevicesKept
  <2>6. ZeroInv' /\ EnumInv' /\ DelInv'
    BY <1>1, <2>1, <2>2, <2>3, <1>a DEF ZeroInv, EnumInv, DelInv
  <2>7. AddressInv'
    BY <1>1, <2>1, <2>3, <1>a DEF AddressInv
  <2>8. LostInv'
    <3>1. enum.dev \in Devices
      BY <2>3, <1>a, Fields, Sizes DEF EnumInv, Devices
    <3>2. \A t \in SlotIds : t # 0
      BY DEF SlotIds
    <3> QED BY <1>1, <2>1, <2>2, <2>3, <3>1, <3>2, <1>a DEF LostInv
  <2> QED BY <2>4, <2>5, <2>6, <2>7, <2>8 DEF Sound
<1> QED BY <1>6, <1>7, <1>8

\* UIMDeleteEndpoint takes the entry of a slot that is disabled out of the mapper, and the family
\* is done with the device, or with the enumeration.
LEMMA DeleteEndKeeps == ASSUME TypeOK, Sound, DeleteEnd PROVE Sound'
<1>a. /\ MapInv /\ SlotInv /\ FamilyInv /\ DeviceInv /\ ZeroInv /\ EnumInv /\ DelInv /\ AddressInv /\ LostInv
      /\ MapType /\ FamilyType /\ EnumType /\ DelType /\ HwType /\ SlotType
  BY DEF Sound, TypeOK
<1>0. PICK k, e, a, s : k = del.dev /\ e = del.ep /\ a = del.addr /\ s = del.slot
  OBVIOUS
<1>1. /\ del.pc = "disabled" /\ a \in Entries /\ s \in SlotIds /\ s # 0 /\ Slot[a] = s /\ ring[s] = {}
      /\ hwState[s] = "disabled" \/ "notDisabled" \in upset
      /\ enum.pc \in {"idle", "default", "status", "remap", "failed"}
      /\ IF k = 0 THEN a = 0 /\ enum.pc = "failed"
         ELSE /\ k \in Devices /\ a = addressOf[k] /\ a # 0 /\ eps[k] = {e} /\ enum.dev # k /\ Leaf(k)
  BY <1>0, <1>a, Fields, Sizes DEF DeleteEnd, DelInv, SlotIds, Devices, Leaf
<1>2. /\ UNCHANGED <<zeroVars, ring, hwVars, hwEpVars, upset>> /\ del' = Idle /\ Deleted(k, e)
      /\ ctx' = [ctx EXCEPT ![s] = FALSE]
      /\ Slot' = [Slot EXCEPT ![a] = 0] /\ Active' = [Active EXCEPT ![a] = FALSE]
      /\ HubAddress' = [HubAddress EXCEPT ![a] = 0] /\ PortOnHub' = [PortOnHub EXCEPT ![a] = 0]
  BY <1>0 DEF DeleteEnd, MapEntry
<1>3. /\ Slot'[a] = 0 /\ Active'[a] = FALSE
      /\ \A b \in Entries : b # a => /\ Slot'[b] = Slot[b] /\ Active'[b] = Active[b]
                                     /\ HubAddress'[b] = HubAddress[b] /\ PortOnHub'[b] = PortOnHub[b]
      /\ \A t \in SlotIds : t # s => ctx'[t] = ctx[t]
  BY <1>1, <1>2, <1>a DEF MapType, SlotType
<1>4. del'.pc = "idle" /\ del'.dev = 0 /\ del'.slot = 0 /\ del'.addr = 0
  BY <1>2, IdleTypes
<1>5. \A b : b \in Addresses <=> b \in Entries /\ b # 0
  BY Sizes DEF Addresses, Entries
<1>6. \A b \in Entries : Slot[b] # 0 => Slot[b] \in SlotIds
  BY <1>a, Sizes DEF MapType, SlotIds
<1> USE DEF zeroVars, hwVars, hwEpVars
<1>7. MapInv'
  <2>1. ASSUME NEW b \in Entries
        PROVE  /\ Active'[b] => Slot'[b] # 0
               /\ Slot'[b] # 0 /\ hwState'[Slot'[b]] = "disabled" => del'.pc = "disabled" /\ b = del'.addr
    BY <1>0, <1>2, <1>3, <1>a DEF MapInv
  <2>2. ASSUME NEW b \in Addresses, Slot'[b] # 0
        PROVE  /\ \A c \in Addresses : Slot'[c] = Slot'[b] => c = b
               /\ Slot'[0] = Slot'[b] => enum'.pc = "status" /\ b = enum'.addr
    <3>1. /\ b # a /\ Slot'[b] = Slot[b]
          /\ \A c \in Addresses : Slot'[c] = Slot'[b] => c # a /\ Slot'[c] = Slot[c]
      BY <1>3, <1>5, <2>2
    <3>2. Slot'[0] = Slot'[b] => 0 # a /\ Slot'[0] = Slot[0]
      BY <1>3, <2>2, IdleTypes
    <3>3. a # 0 => UNCHANGED enum
      BY <1>1, <1>2 DEF Deleted
    <3> QED BY <2>2, <3>1, <3>2, <3>3, <1>a DEF MapInv
  <2> QED BY <2>1, <2>2 DEF MapInv
<1>8. SlotInv'
  BY <1>2, <1>a DEF SlotInv
<1>9. CASE k = 0
  <2>1. a = 0 /\ enum.pc = "failed" /\ enum' = Idle /\ UNCHANGED <<addressOf, eps>> /\ Slot[0] = s
    BY <1>1, <1>2, <1>9 DEF Deleted, familyVars
  <2>2. enum'.pc = "idle" /\ enum'.dev = 0 /\ enum'.slot = 0 /\ enum'.addr = 0
    BY <2>1, IdleTypes
  <2>3. FamilyInv'
    BY <2>1, <1>a DEF FamilyInv
  <2>4. ASSUME NEW x \in Devices, addressOf[x] # 0
        PROVE  Slot[addressOf[x]] \in SlotIds /\ Slot[addressOf[x]] # s /\ Slot'[addressOf[x]] = Slot[addressOf[x]]
    <3>1. Owned(x)
      BY <2>4, EachOwned
    <3> QED BY <1>3, <2>1, <3>1 DEF Owned
  <2>5. DeviceInv'
    <3>1. \A b \in Addresses : UNCHANGED <<Slot[b], HubAddress[b], PortOnHub[b]>>
      BY <1>3, <1>5, <2>1
    <3>2. ASSUME NEW x \in Devices, addressOf[x] # 0
          PROVE  /\ del.dev # x
                 /\ UNCHANGED <<ctx[Slot[addressOf[x]]], hwPath[Slot[addressOf[x]]], ring[Slot[addressOf[x]]],
                                hwEps[Slot[addressOf[x]]], hwCtxNum[Slot[addressOf[x]]]>>
      <4>1. addressOf'[x] = addressOf[x] /\ x # 0
        BY <2>1, Parents
      <4>2. PICK t \in SlotIds : t = Slot[addressOf[x]] /\ t # s /\ t = Slot'[addressOf'[x]]
        BY <2>4, <3>2, <4>1
      <4>3. ctx'[t] = ctx[t] /\ hwPath'[t] = hwPath[t] /\ ring'[t] = ring[t] /\ hwEps'[t] = hwEps[t]
            /\ hwCtxNum'[t] = hwCtxNum[t]
        BY <1>2, <1>3, <4>2
      <4>4. UNCHANGED <<ctx[Slot[addressOf[x]]], hwPath[Slot[addressOf[x]]], ring[Slot[addressOf[x]]],
                        hwEps[Slot[addressOf[x]]], hwCtxNum[Slot[addressOf[x]]]>>
        BY <4>2, <4>3
      <4> QED BY <1>0, <1>9, <4>1, <4>4
    <3> QED BY <2>1, <3>1, <3>2, DevicesKept
  <2>6. ZeroInv' /\ EnumInv' /\ DelInv'
    BY <1>3, <1>4, <2>1, <2>2, <1>a DEF ZeroInv, EnumInv, DelInv
  <2>7. AddressInv'
    <3>1. ASSUME upset \cap {"unknown", "stolen"} = {}, NEW b \in Addresses, Slot'[b] # 0
          PROVE  hwAddress'[Slot'[b]] = b
      BY <1>0, <1>2, <1>3, <1>5, <2>1, <3>1, <1>a DEF AddressInv
    <3> QED BY <1>2, <2>2, <3>1 DEF AddressInv
  <2>8. LostInv'
    <3>1. ASSUME upset \cap {"notDisabled", "notDeleted", "stolen", "unknown", "leftover"} = {}, NEW t \in SlotIds,
                 hwState[t] # "disabled"
          PROVE  \E x \in Devices : addressOf'[x] # 0 /\ Slot'[addressOf'[x]] = t
      <4>1. t # s
        BY <1>1, <3>1
      <4>2. t # enum.slot
        BY <1>1, <2>1, <4>1, <1>a DEF ZeroInv
      <4>3. PICK x \in Devices : addressOf[x] # 0 /\ Slot[addressOf[x]] = t
        BY <1>0, <3>1, <4>1, <4>2, <1>a DEF LostInv
      <4> QED BY <2>1, <2>4, <4>3
    <3> QED BY <1>2, <2>2, <3>1 DEF LostInv
  <2> QED BY <1>7, <1>8, <2>3, <2>5, <2>6, <2>7, <2>8 DEF Sound
<1>10. CASE k # 0
  <2>1. /\ k \in Devices /\ a = addressOf[k] /\ a # 0 /\ enum.dev # k /\ Leaf(k) /\ UNCHANGED enum
        /\ eps'[k] = {} /\ \A x \in Devices : x # k => eps'[x] = eps[x]
        /\ addressOf' = [addressOf EXCEPT ![k] = 0] /\ addressOf'[k] = 0
    <3>1. eps' = [eps EXCEPT ![k] = @ \ {e}] /\ UNCHANGED enum
          /\ addressOf' = IF eps'[k] = {} THEN [addressOf EXCEPT ![k] = 0] ELSE addressOf
      BY <1>2, <1>10 DEF Deleted
    <3>2. eps'[k] = {} /\ \A x \in Devices : x # k => eps'[x] = eps[x]
      BY <1>1, <1>10, <3>1, <1>a DEF FamilyType
    <3> QED BY <1>1, <1>10, <3>1, <3>2, <1>a DEF FamilyType
  <2>2. /\ FamilyInv'
        /\ \A x \in Devices : x # k => addressOf'[x] = addressOf[x]
        /\ \A x \in Devices : addressOf'[x] # 0 => /\ addressOf'[x] = addressOf[x]
                                                   /\ ParentAddress(x)' = ParentAddress(x)
        /\ enum.pc # "idle" => /\ enum.dev \in Devices /\ addressOf'[enum.dev] = addressOf[enum.dev]
                               /\ ParentAddress(enum.dev)' = ParentAddress(enum.dev)
                               /\ Parent(enum.dev) # 0 => addressOf'[Parent(enum.dev)] # 0
    BY <2>1, LeafForgotten
  <2>3. \A x \in Devices : addressOf'[x] \in {addressOf[x], 0}
    BY <2>2
  <2>4. Owned(k)
    BY <2>1, EachOwned
  <2>5. ASSUME NEW x \in Devices, addressOf[x] # 0, x # k
        PROVE  /\ Slot[addressOf[x]] \in SlotIds /\ Slot[addressOf[x]] # s /\ addressOf[x] \in Entries
               /\ addressOf[x] # a /\ Slot'[addressOf[x]] = Slot[addressOf[x]]
    <3>1. Owned(x)
      BY <2>5, EachOwned
    <3> QED BY <1>1, <1>3, <2>1, <2>4, <2>5, <3>1 DEF Owned
  <2>6. DeviceInv'
    <3> SUFFICES ASSUME NEW x \in Devices, addressOf'[x] # 0 PROVE Mapped(x)' /\ Served(x)'
      BY DEF DeviceInv, Mapped, Served
    <3>1. x # k /\ addressOf'[x] = addressOf[x] /\ ParentAddress(x)' = ParentAddress(x)
      BY <2>1, <2>2
    <3>2. Mapped(x) /\ Served(x)
      BY <1>0, <3>1, <1>a, DeviceInvSays
    <3>3. Mapped(x)'
      BY <1>3, <2>5, <3>1, <3>2 DEF Mapped
    <3>4. Served(x)'
      BY <1>2, <1>3, <2>1, <2>5, <3>1, <3>2 DEF Served
    <3> QED BY <3>3, <3>4
  <2>7. Slot'[0] = Slot[0] /\ Active'[0] = Active[0]
    BY <1>3, <2>1, IdleTypes
  <2>8. ZeroInv'
    <3>1. enum.pc = "failed" => addressOf'[enum.dev] = addressOf[enum.dev]
      BY <2>2
    <3> QED BY <1>0, <1>2, <1>4, <1>10, <2>1, <2>7, <3>1, <1>a DEF ZeroInv
  <2>9. EnumInv'
    <3>1. enum.pc \in {"default", "status"} => enum.slot # s /\ enum.slot \in SlotIds
      BY <1>1, <2>1, <2>4, <1>a, Fields, Sizes DEF Owned, EnumInv, SlotIds
    <3>2. enum.pc \in {"default", "status"} => ctx'[enum.slot] = ctx[enum.slot]
      BY <1>3, <3>1
    <3>3. enum.pc \in {"status", "remap"} => enum.addr # a /\ enum.addr \in Entries
      BY <2>1, <2>4, <1>a, Fields DEF Owned
    <3>4. enum.pc \in {"status", "remap"} =>
            /\ Slot'[enum.addr] = Slot[enum.addr] /\ Active'[enum.addr] = Active[enum.addr]
            /\ HubAddress'[enum.addr] = HubAddress[enum.addr] /\ PortOnHub'[enum.addr] = PortOnHub[enum.addr]
      BY <1>3, <3>3
    <3>5. enum.pc = "default" => enum.slot # 0 /\ \A b \in Addresses : Slot'[b] # enum.slot
      BY <1>3, <1>5, <1>a DEF EnumInv
    <3>6. enum.addr # 0 /\ (\A d \in Devices : addressOf[d] # enum.addr)
          => \A d \in Devices : addressOf'[d] # enum.addr
      BY <2>3
    <3>7. (\A d \in Devices : Parent(d) = enum.dev => addressOf[d] = 0)
          => \A d \in Devices : Parent(d) = enum.dev => addressOf'[d] = 0
      BY <2>3
    <3>8. enum.pc # "idle" => /\ addressOf'[enum.dev] = addressOf[enum.dev]
                              /\ ParentAddress(enum.dev)' = ParentAddress(enum.dev)
                              /\ Parent(enum.dev) # 0 => addressOf'[Parent(enum.dev)] # 0
      BY <2>2
    <3>9. enum'.pc = enum.pc /\ enum'.dev = enum.dev /\ enum'.slot = enum.slot /\ enum'.addr = enum.addr
      BY <2>1
    <3>10. enum.pc \in {"address", "addressed", "status"} => isBeingAddressed' \/ Slot'[0] = 0
      BY <1>2, <2>7, <1>a DEF EnumInv
    <3>11. enum.pc = "default" =>
             /\ enum.slot # 0 /\ hwState'[enum.slot] # "disabled" /\ ring'[enum.slot] = {1} /\ ctx'[enum.slot]
             /\ addressOf'[enum.dev] = 0 /\ \A b \in Addresses : Slot'[b] # enum.slot
             /\ dzHubAddress' = ParentAddress(enum.dev)' /\ dzPortOnHub' = Port(enum.dev)
      BY <1>2, <3>2, <3>5, <3>8, <1>a DEF EnumInv
    <3>12. enum.pc = "status" =>
             /\ addressOf'[enum.dev] = 0 /\ ring'[enum.slot] = {1} /\ ctx'[enum.slot]
             /\ enum.addr # 0 /\ \A d \in Devices : addressOf'[d] # enum.addr
             /\ HubAddress'[enum.addr] = ParentAddress(enum.dev)' /\ PortOnHub'[enum.addr] = Port(enum.dev)
      <4>1. enum.pc = "status" =>
             /\ addressOf[enum.dev] = 0 /\ ring[enum.slot] = {1} /\ ctx[enum.slot]
             /\ enum.addr # 0 /\ \A d \in Devices : addressOf[d] # enum.addr
             /\ HubAddress[enum.addr] = ParentAddress(enum.dev) /\ PortOnHub[enum.addr] = Port(enum.dev)
        BY <1>a DEF EnumInv
      <4> QED BY <1>2, <3>2, <3>4, <3>6, <3>8, <4>1
    <3>13. enum.pc \in {"status", "remap"} =>
             /\ hwAddress'[enum.slot] # 0 /\ hwPath'[enum.slot] = PathOf[enum.dev]
             /\ enum.slot # 0 /\ Slot'[enum.addr] = enum.slot /\ Active'[enum.addr] /\ enum.addr # 0
      BY <1>2, <3>4, <1>a DEF EnumInv
    <3>14. enum.pc = "remap" =>
             /\ addressOf'[enum.dev] = enum.addr
             /\ \A d \in Devices : Parent(d) = enum.dev => addressOf'[d] = 0
      BY <3>7, <3>8, <1>a DEF EnumInv
    <3>15. /\ enum.pc = "idle" <=> enum.dev = 0
           /\ enum.pc = "idle" => enum.slot = 0
      BY <1>a DEF EnumInv
    <3> QED BY <1>1, <3>8, <3>9, <3>10, <3>11, <3>12, <3>13, <3>14, <3>15 DEF EnumInv
  <2>10. DelInv'
    BY <1>4 DEF DelInv
  <2>11. AddressInv'
    <3>1. ASSUME upset \cap {"unknown", "stolen"} = {}, NEW b \in Addresses, Slot'[b] # 0
          PROVE  hwAddress'[Slot'[b]] = b \/ (enum'.pc \in {"status", "remap"} /\ b = enum'.addr)
      BY <1>0, <1>2, <1>3, <1>5, <2>1, <3>1, <1>a DEF AddressInv
    <3> QED BY <1>2, <2>1, <2>7, <3>1, <1>a DEF AddressInv
  <2>12. LostInv'
    <3>1. ASSUME NEW x \in Devices, addressOf[x] # 0, Slot[addressOf[x]] # s
          PROVE  addressOf'[x] # 0 /\ Slot'[addressOf'[x]] = Slot[addressOf[x]]
      <4>1. x # k
        BY <1>1, <2>1, <3>1
      <4> QED BY <2>2, <2>5, <3>1, <4>1
    <3>2. ASSUME upset \cap {"notDisabled", "notDeleted", "stolen", "unknown", "leftover"} = {}, NEW t \in SlotIds,
                 hwState[t] # "disabled"
          PROVE  t = enum.slot \/ \E x \in Devices : addressOf'[x] # 0 /\ Slot'[addressOf'[x]] = t
      <4>1. t # s
        BY <1>1, <3>2
      <4> QED BY <1>0, <3>1, <3>2, <4>1, <1>a DEF LostInv
    <3>3. ASSUME upset \cap {"notDisabled", "notDeleted", "stolen", "unknown", "leftover"} = {}, enum.pc = "failed", enum.slot # 0
          PROVE  \/ Slot'[0] = enum.slot
                 \/ addressOf'[enum.dev] # 0 /\ Slot'[addressOf'[enum.dev]] = enum.slot
      BY <2>1, <2>2, <2>5, <2>7, <3>3, <1>a DEF LostInv
    <3> QED BY <1>2, <2>1, <3>2, <3>3 DEF LostInv
  <2> QED BY <1>7, <1>8, <2>2, <2>6, <2>8, <2>9, <2>10, <2>11, <2>12 DEF Sound
<1> QED BY <1>9, <1>10

-----------------------------------------------------------------------------
(* The theorems.                                                           *)

\* The initial states are sound: nothing is mapped, enabled or under way.
LEMMA InvInit == Init => Inv
<1> SUFFICES ASSUME Init PROVE Inv
  OBVIOUS
<1>1. /\ \A b \in Entries : Slot[b] = 0 /\ Active[b] = FALSE
      /\ \A s \in SlotIds : ring[s] = {} /\ ctx[s] = FALSE /\ hwState[s] = "disabled" /\ hwAddress[s] = 0
         /\ hwEps[s] = {}
      /\ \A d \in Devices : addressOf[d] = 0 /\ eps[d] = {}
      /\ upset = {} /\ enum = Idle /\ del = Idle
  BY DEF Init, Entries
<1>2. \A b \in Addresses : b \in Entries
  BY Sizes DEF Addresses, Entries
<1>3. /\ 0 \in Entries /\ 0 \in 0 .. NumSlots /\ 0 \in 0 .. NumDevices /\ 0 \in 0 .. NumEndpoints
      /\ 0 \in 0 .. RootHub /\ 0 \in 0 .. 2
  BY IdleTypes
<1>4. TypeOK
  <2>1. MapType /\ ZeroType /\ SlotType /\ FamilyType /\ HwType
    BY <1>3 DEF Init, MapType, ZeroType, SlotType, FamilyType, HwType, Entries
  <2>2. EnumType /\ DelType
    BY <1>1, <1>3, IdleTypes DEF EnumType, DelType, EnumPcs
  <2> QED BY <1>1, <2>1, <2>2 DEF TypeOK
<1>5. /\ enum.pc = "idle" /\ enum.dev = 0 /\ enum.slot = 0 /\ enum.addr = 0
      /\ del.pc = "idle" /\ del.dev = 0 /\ del.slot = 0
  BY <1>1, IdleTypes
<1>6. Sound
  <2>1. MapInv /\ SlotInv /\ FamilyInv /\ DeviceInv
    BY <1>1, <1>2, <1>3 DEF MapInv, SlotInv, FamilyInv, DeviceInv
  <2>2. ZeroInv /\ EnumInv /\ DelInv /\ AddressInv /\ LostInv
    BY <1>1, <1>2, <1>3, <1>5 DEF ZeroInv, EnumInv, DelInv, AddressInv, LostInv
  <2> QED BY <2>1, <2>2 DEF Sound
<1> QED BY <1>1, <1>4, <1>6 DEF Inv

\* No step but UIMGetActualDeviceAddress overwrites the entry of an address.
LEMMA OnlyRemapOverwrites ==
  ASSUME [Next]_vars, "overwritten" \in upset' PROVE "overwritten" \in upset \/ GetActualDeviceAddress
<1>1. CASE upset' \subseteq upset \cup {"stolen", "unknown", "notDropped", "leftover", "notDeleted", "notDisabled"}
  BY <1>1
<1>2. ASSUME NEW k \in 0 .. NumDevices, NEW e \in Endpoints, DeleteEndpoint(k, e)
      PROVE  upset' \subseteq upset \cup {"stolen", "unknown", "notDropped", "leftover", "notDeleted", "notDisabled"}
  BY <1>2 DEF DeleteEndpoint, Upset
<1>3. ASSUME NEW d \in Devices, StatusStage(d) \/ SetAddressStatus
      PROVE  upset' \subseteq upset \cup {"stolen", "unknown", "notDropped", "leftover", "notDeleted", "notDisabled"}
  BY <1>3 DEF StatusStage, SetAddressStatus, Upset
<1>4. CASE \E k \in 0 .. NumDevices, e \in Endpoints : DeleteEndpoint(k, e)
  BY <1>1, <1>2, <1>4
<1>5. CASE SetAddressStatus \/ \E d \in Devices : StatusStage(d)
  <2>1. \E d \in Devices : TRUE
    BY Sizes DEF Devices
  <2> QED BY <1>1, <1>3, <1>5, <2>1
<1>6. CASE HwDisableSlot \/ UNCHANGED upset
  BY <1>1, <1>6 DEF HwDisableSlot, DisableSlot, Upset
<1>7. CASE GetActualDeviceAddress
  BY <1>7
<1>8. GetActualDeviceAddress \/ UNCHANGED upset \/ SetAddressStatus \/ (\E d \in Devices : StatusStage(d))
      \/ HwDisableSlot
      \/ \E k \in 0 .. NumDevices, e \in Endpoints : DeleteEndpoint(k, e)
  BY DEF Next, vars, EnableSlot, EnableAddressEndpoints, CreateControlEndpoint, CleanupControlEndpoint, SetAddress,
         MapAddress, CreateEndpoint, DeleteEnd, EnableAllEndpoints, HwEnableSlot, HwAddressDevice
<1> QED BY <1>4, <1>5, <1>6, <1>7, <1>8

\* Every other step of a sound state leads to a sound one.
LEMMA SoundStep ==
  ASSUME TypeOK, Sound, [Next]_vars PROVE Sound' \/ GetActualDeviceAddress
<1>1. CASE UNCHANGED vars
  BY <1>1 DEF vars, mapVars, zeroVars, slotVars, familyVars, hwVars, hwEpVars, Sound, MapInv, SlotInv, FamilyInv,
              DeviceInv, ZeroInv, EnumInv, DelInv, AddressInv, LostInv, ParentAddress
<1>2. CASE \E d \in Devices : EnableSlot(d) \/ StatusStage(d) \/ \E on \in BOOLEAN : EnableAddressEndpoints(d, on)
  BY <1>2, EnableSlotKeeps, StatusStageKeeps, EnableAddressEndpointsKeeps
<1>3. CASE CreateControlEndpoint \/ CleanupControlEndpoint \/ SetAddress \/ MapAddress \/ SetAddressStatus
  BY <1>3, CreateControlEndpointKeeps, CleanupControlEndpointKeeps, SetAddressKeeps, MapAddressKeeps,
     SetAddressStatusKeeps
<1>4. CASE \E d \in Devices, e \in Endpoints : CreateEndpoint(d, e)
  BY <1>4, CreateEndpointKeeps
<1>5. CASE \E k \in 0 .. NumDevices, e \in Endpoints : DeleteEndpoint(k, e)
  BY <1>5, DeleteEndpointKeeps
<1>6. CASE DeleteEnd \/ EnableAllEndpoints
  BY <1>6, DeleteEndKeeps, EnableAllEndpointsKeeps
<1>7. CASE HwEnableSlot \/ HwAddressDevice \/ HwDisableSlot
  BY <1>7, HwEnableSlotKeeps, HwAddressDeviceKeeps, HwDisableSlotKeeps
<1> QED BY <1>1, <1>2, <1>3, <1>4, <1>5, <1>6, <1>7 DEF Next

\* Every step keeps the invariant.
LEMMA InvStep == Inv /\ [Next]_vars => Inv'
<1> SUFFICES ASSUME Inv, [Next]_vars PROVE Inv'
  OBVIOUS
<1>1. TypeOK /\ TypeOK' /\ upset \subseteq upset'
  BY TypeStep, UpsetStays DEF Inv
<1>2. CASE "overwritten" \in upset
  BY <1>1, <1>2 DEF Inv
<1>3. CASE "overwritten" \notin upset
  <2>1. Sound
    BY <1>3 DEF Inv
  <2>2. CASE GetActualDeviceAddress
    BY <1>1, <1>3, <2>1, <2>2, GetActualDeviceAddressKeeps DEF Inv
  <2>3. CASE ~GetActualDeviceAddress
    <3>1. Sound' /\ "overwritten" \notin upset'
      BY <1>1, <1>3, <2>1, <2>3, SoundStep, OnlyRemapOverwrites
    <3> QED BY <1>1, <3>1 DEF Inv
  <2> QED BY <2>2, <2>3
<1> QED BY <1>2, <1>3

\* A sound mapper finds each device in a slot of its own.
LEMMA SoundOwns == Inv => OwnSlot
<1> SUFFICES ASSUME Inv, "overwritten" \notin upset, NEW d \in Devices, addressOf[d] # 0, del.dev # d,
                    NEW a, a = addressOf[d], NEW s, s = Slot[a]
             PROVE  /\ eps[d] \subseteq ring[s] /\ ctx[s] /\ hwPath[s] = PathOf[d]
                    /\ \A b \in 0 .. NumAddresses \ {a} : Slot[b] # s
                    /\ eps[d] \ {1} \subseteq hwEps[s]
                    /\ "notDropped" \notin upset => hwEps[s] \subseteq ring[s]
  BY DEF OwnSlot
<1>1. TypeOK /\ Sound /\ DeviceInv /\ SlotInv
  BY DEF Inv, Sound
<1>2. Owned(d) /\ Served(d)
  BY <1>1, EachOwned, DeviceInvSays
<1>3. s \in SlotIds /\ \A b \in Entries : Slot[b] = s => b = a
  BY <1>2 DEF Owned
<1>4. eps[d] \subseteq ring[s] /\ ctx[s] /\ hwPath[s] = PathOf[d] /\ \A e \in eps[d] \ {1} : e \in hwEps[s]
  BY <1>2 DEF Served
<1>5. "notDropped" \notin upset => hwEps[s] \subseteq ring[s]
  BY <1>1, <1>3 DEF SlotInv
<1> QED BY <1>3, <1>4, <1>5 DEF Entries

\* It has lost no slot; and an address is only overwritten after an enumeration was cut short.
LEMMA SoundLosesNone == Inv => NoSlotLost
<1> SUFFICES ASSUME Inv, upset \cap {"notDisabled", "notDeleted", "stolen", "unknown", "leftover"} = {} PROVE NoSlotLost
  BY DEF NoSlotLost
<1>1. Sound
  BY DEF Inv
<1> QED BY <1>1 DEF Sound, LostInv, NoSlotLost

\* The mapper, the slots of the xHC, the enumeration and the deletion that are under way and
\* what the family knows of its devices agree in every state, however the operations of
\* Slots.cpp interleave, whichever commands fail, and for any number of devices, addresses,
\* slots and endpoints.
THEOREM MapperAgrees == Spec => []Inv
BY InvInit, InvStep, PTL DEF Spec

\* Every device is found by its address in a slot of its own, which the xHC addresses by the
\* way to where the device is plugged in, with a ring for each endpoint it has configured.
THEOREM SlotsOwned == Spec => []OwnSlot
<1>1. Spec => []Inv
  BY MapperAgrees
<1> QED BY <1>1, SoundOwns, PTL

\* Every slot that is enabled can still be disabled, unless one of the five things that lose one has
\* happened: four that the code does, and a Disable Slot command whose failure it passes over.
THEOREM SlotsFound == Spec => []NoSlotLost
<1>1. Spec => []Inv
  BY MapperAgrees
<1> QED BY <1>1, SoundLosesNone, PTL

-----------------------------------------------------------------------------
(* The controller: its life cycle.                                          *)

USE WrapAssumption, LifeBoundsAssumption

LifeTypes ==
  /\ phase \in {"absent", "ready", "on", "stopped", "asleep", "dead"}
  /\ run \in BOOLEAN /\ registers \in BOOLEAN /\ crcr \in BOOLEAN /\ contexts \in BOOLEAN
  /\ invalid \in BOOLEAN /\ held \in BOOLEAN /\ slots \in BOOLEAN
  /\ uimInitialized \in BOOLEAN /\ isSleeping \in BOOLEAN /\ inTestMode \in BOOLEAN

\* What RunsProgrammed does not promise anything after.
Ignored == lifeUpset \cap {"notSaved", "notRestored", "notRestarted", "notStopped", "testMode"} # {}

\* RunsProgrammed with what makes it inductive: an xHC that is gone does not run; memory is
\* held, and slots are in use, only between UIMInitialize and UIMFinalize; the bus runs only
\* while the controller is on; whoever is about to run it has programmed it.
LifeInv ==
  /\ invalid => ~run
  /\ phase # "absent" => held
  /\ phase = "absent" => ~slots
  /\ ~Ignored =>
       /\ run => phase = "on"
       /\ phase = "stopped" /\ uimInitialized => invalid
       /\ phase = "asleep" /\ ~isSleeping => invalid
       /\ phase \in {"ready", "on"} /\ ~invalid => registers /\ crcr /\ (slots => contexts)

\* Nothing takes back what was ignored.
LEMMA IgnoredStays == [LifeNext]_lifeVars /\ Ignored => Ignored'
<1> SUFFICES ASSUME [LifeNext]_lifeVars, Ignored PROVE Ignored'
  OBVIOUS
<1>1. lifeUpset \subseteq lifeUpset'
  BY DEF LifeNext, lifeVars, histVars, readUnchanged, Succeeds, LifeFails, UIMInitialize, UIMInitializeFails, UIMFinalize,
         RestartUSBBus, UseSlots, HwGone, ResetControllerState, RestartControllerFromReset,
         ControllerSleep, SaveControllerStateForSleep, HwPowerLost, RestoreControllerStateFromSleep,
         RestoreSucceeds, RestoreTimesOut, RestoreError, EnterTestMode, PlacePortInMode,
         LeaveTestMode, Tick, FilterCountsWrap, FilterCarries, GetMicroFrameNumber, ReadCounter1, ReadMFIndex,
         ReadCounter2, ReadGivesUp, Torn
<1> QED BY <1>1 DEF Ignored

\* Every reachable state is one the life cycle allows.
THEOREM LifeCycle == LifeSpec => [](LifeTypes /\ LifeInv)
<1>1. LifeInit => LifeTypes /\ LifeInv
  BY DEF LifeInit, LifeTypes, LifeInv
<1>2. LifeTypes /\ LifeInv /\ [LifeNext]_lifeVars => LifeTypes' /\ LifeInv'
  <2> SUFFICES ASSUME LifeTypes, LifeInv, [LifeNext]_lifeVars PROVE LifeTypes' /\ LifeInv'
    OBVIOUS
  <2>a. Ignored => Ignored'
    BY IgnoredStays
  <2>b. ASSUME NEW what, LifeFails(what),
               what \in {"notSaved", "notRestored", "notRestarted", "notStopped", "testMode"}
        PROVE  Ignored'
    BY <2>b DEF LifeFails, Ignored
  <2> USE DEF LifeTypes, LifeInv
  <2>1. CASE UIMInitialize
    BY <2>1, <2>a DEF UIMInitialize
  <2>2. CASE UIMInitializeFails
    BY <2>2, <2>a DEF UIMInitializeFails
  <2>3. CASE UIMFinalize
    BY <2>3, <2>a DEF UIMFinalize, xhcVars
  <2>4. CASE RestartUSBBus
    BY <2>4, <2>a DEF RestartUSBBus, driverVars
  <2>5. CASE UseSlots
    BY <2>5, <2>a DEF UseSlots
  <2>6. CASE HwGone
    BY <2>6, <2>a DEF HwGone, driverVars
  <2>7. CASE ResetControllerState
    <3>1. \/ invalid /\ UNCHANGED <<run, uimInitialized>>
          \/ run' = FALSE /\ uimInitialized' = FALSE
          \/ ~invalid /\ run' = run /\ uimInitialized' = uimInitialized /\ Ignored'
      BY <2>7, <2>b DEF ResetControllerState, StopUSBBus
    <3>2. /\ phase \in {"on", "asleep"} /\ phase' = "stopped"
          /\ UNCHANGED <<isSleeping, inTestMode, held, slots, registers, crcr, contexts, invalid>>
      BY <2>7 DEF ResetControllerState
    <3>3. CASE invalid /\ UNCHANGED <<run, uimInitialized>>
      BY <3>2, <3>3, <2>a
    <3>4. CASE run' = FALSE /\ uimInitialized' = FALSE
      BY <3>2, <3>4, <2>a
    <3>5. CASE ~invalid /\ run' = run /\ uimInitialized' = uimInitialized /\ Ignored'
      BY <3>2, <3>5
    <3> QED BY <3>1, <3>3, <3>4, <3>5
  <2>8. CASE RestartControllerFromReset
    <3>1. phase = "stopped" /\ phase' \in {"ready", "dead"} /\ UNCHANGED <<held, invalid>>
      BY <2>8 DEF RestartControllerFromReset
    <3>2. \/ /\ uimInitialized \/ phase' = "dead"
             /\ UNCHANGED <<run, registers, crcr, contexts, uimInitialized, isSleeping, inTestMode, slots>>
          \/ Reprogram
          \/ ~uimInitialized /\ NotReprogrammed /\ phase' = "dead"
      BY <2>8 DEF RestartControllerFromReset
    <3>3. CASE /\ uimInitialized \/ phase' = "dead"
               /\ UNCHANGED <<run, registers, crcr, contexts, uimInitialized, isSleeping, inTestMode, slots>>
      BY <3>1, <3>3, <2>a
    <3>4. CASE Reprogram
      BY <3>1, <3>4, <2>a DEF Reprogram, NukeSlots
    <3>5. CASE ~uimInitialized /\ NotReprogrammed /\ phase' = "dead"
      BY <3>1, <3>5, <2>a DEF NotReprogrammed
    <3> QED BY <3>2, <3>3, <3>4, <3>5
  <2>9. CASE ControllerSleep
    <3>1. \/ invalid /\ UNCHANGED <<run, isSleeping>>
          \/ run' \in BOOLEAN /\ (run' => run) /\ isSleeping' = isSleeping /\ ~invalid /\ Ignored'
          \/ run' = FALSE /\ isSleeping' = TRUE
      BY <2>9, <2>b DEF ControllerSleep, SaveControllerStateForSleep, StopUSBBus
    <3>2. /\ phase = "on" /\ phase' = "asleep"
          /\ UNCHANGED <<uimInitialized, inTestMode, held, slots, registers, crcr, contexts, invalid>>
      BY <2>9 DEF ControllerSleep
    <3>3. CASE invalid /\ UNCHANGED <<run, isSleeping>>
      BY <3>2, <3>3, <2>a
    <3>4. CASE run' \in BOOLEAN /\ (run' => run) /\ isSleeping' = isSleeping /\ ~invalid /\ Ignored'
      BY <3>2, <3>4
    <3>5. CASE run' = FALSE /\ isSleeping' = TRUE
      BY <3>2, <3>5, <2>a
    <3> QED BY <3>1, <3>3, <3>4, <3>5
  <2>10. CASE HwPowerLost
    BY <2>10, <2>a DEF HwPowerLost, Fresh, driverVars
  <2>11. CASE RestoreControllerStateFromSleep
    <3>1. CASE ~invalid /\ isSleeping /\ RestoreSucceeds
      BY <2>11, <3>1, <2>a DEF RestoreControllerStateFromSleep, RestoreSucceeds, Restored
    <3>2. CASE ~invalid /\ isSleeping /\ RestoreTimesOut
      BY <2>11, <3>2, <2>b DEF RestoreControllerStateFromSleep, RestoreTimesOut, Restored
    <3>3. CASE ~invalid /\ isSleeping /\ RestoreError
      BY <2>11, <3>3, <2>a, <2>b DEF RestoreControllerStateFromSleep, RestoreError, Reprogram, NukeSlots
    <3>4. CASE /\ invalid \/ ~isSleeping
               /\ UNCHANGED <<run, registers, crcr, contexts, uimInitialized, isSleeping, inTestMode, slots>>
      BY <2>11, <3>4, <2>a DEF RestoreControllerStateFromSleep
    <3> QED BY <2>11, <3>1, <3>2, <3>3, <3>4 DEF RestoreControllerStateFromSleep
  <2>12. CASE EnterTestMode
    BY <2>12, <2>a, <2>b DEF EnterTestMode, StopUSBBus
  <2>13. CASE PlacePortInMode
    BY <2>13, <2>a DEF PlacePortInMode, driverVars
  <2>14. CASE LeaveTestMode
    <3>1. Ignored'
      BY <2>14, <2>b DEF LeaveTestMode, Ignored
    <3> QED BY <2>14, <3>1 DEF LeaveTestMode, Fresh
  <2>15. CASE \/ Tick \/ FilterCountsWrap \/ FilterCarries \/ GetMicroFrameNumber \/ ReadCounter1 \/ ReadMFIndex
              \/ ReadCounter2 \/ ReadGivesUp \/ UNCHANGED lifeVars
    <3>1. UNCHANGED <<driverVars, xhcVars, phase>>
      BY <2>15 DEF Tick, FilterCountsWrap, FilterCarries, GetMicroFrameNumber, ReadCounter1, ReadMFIndex,
                   ReadCounter2, ReadGivesUp, readUnchanged, lifeVars
    <3> QED BY <3>1, <2>a DEF driverVars, xhcVars
  <2> QED BY <2>1, <2>2, <2>3, <2>4, <2>5, <2>6, <2>7, <2>8, <2>9, <2>10, <2>11, <2>12, <2>13,
             <2>14, <2>15 DEF LifeNext
<1> QED BY <1>1, <1>2, PTL DEF LifeSpec

\* The xHC never runs on memory given back, on registers that were cleared, without a command
\* ring or beside slots it has no contexts of.
THEOREM RunsOnlyProgrammed == LifeSpec => []RunsProgrammed
<1>1. LifeTypes /\ LifeInv => RunsProgrammed
  BY DEF LifeTypes, LifeInv, RunsProgrammed, Ignored
<1> QED BY <1>1, LifeCycle, PTL

-----------------------------------------------------------------------------
(* The micro-frame number.                                                 *)

Readers == [pc : {"idle", "counter", "index", "compare"}, counter : Int, index : 0..(Wrap - 1),
            again : BOOLEAN, waits : BOOLEAN, since : Nat]

ClockTypes ==
  /\ mfIndex \in 0..(Wrap - 1) /\ millisecondCounter \in Nat /\ wrapped \in BOOLEAN
  /\ stored \in {"none", "low", "high"}
  /\ power \in Nat /\ last \in Int /\ reader \in Readers

\* What FrameNumberNeverGoesBack does not promise anything after.
Late == lifeUpset \cap {"late", "firstWrap", "torn"} # {}

\* While the bus runs outside test mode, _millsecondCounter with a wrap not yet counted, and
\* the true micro-frame number.
Live == phase = "on" /\ run /\ ~inTestMode
Base == millisecondCounter + (IF wrapped THEN Wrap ELSE 0)
Now  == Base + mfIndex

\* How far a thread has come in GetMicroFrameNumber, and what it knows: the filter may have
\* counted a wrap behind its back, and then the counter alone is beyond the last answer;
\* otherwise the index that it read is beyond the last answer, unless it is zero, when a
\* second look shows a counter that is.
Reads ==
  /\ reader.pc \in {"index", "compare"} =>
       /\ reader.counter <= millisecondCounter
       /\ reader.counter # millisecondCounter => last <= millisecondCounter
  /\ reader.pc = "compare" /\ reader.counter = millisecondCounter =>
       /\ reader.counter + reader.index <= Now
       /\ reader.index # 0 => last <= reader.counter + reader.index
       /\ reader.index = 0 => last <= Base
       /\ reader.index = 0 /\ reader.counter = 0 => last <= reader.counter
  /\ reader.again /\ ~reader.waits => last <= millisecondCounter
  /\ reader.waits => last <= Base

\* A read that began before a sleep or a restart is told apart; a wrap not yet counted leaves
\* MFINDEX at zero for a micro-frame, and is not until both words of the counter are stored; the
\* last answer is not beyond the true number.
ClockInv ==
  /\ stored # "none" => wrapped
  /\ reader.waits => reader.pc = "counter" /\ reader.again
  /\ reader.pc # "idle" => /\ reader.since <= power
                           /\ phase # "on" => reader.since < power
  /\ ~Late => /\ wrapped => mfIndex = 0
              /\ Live => last <= Now
              /\ Live /\ reader.pc # "idle" /\ reader.since = power => Reads

\* MFINDEX counts modulo the period.
LEMMA CountsModulo ==
  ASSUME NEW i \in 0..(Wrap - 1)
  PROVE  /\ (i + 1) % Wrap \in 0..(Wrap - 1)
         /\ (i + 1) % Wrap = 0 \/ (i + 1) % Wrap = i + 1
         /\ (i + 1) % Wrap = 0 => i = Wrap - 1
<1>1. CASE i + 1 < Wrap
  BY <1>1
<1>2. CASE i + 1 = Wrap
  BY <1>2
<1> QED BY <1>1, <1>2

\* What a step of the life cycle may do to the clock: stop it, reset it, or leave it alone. The
\* bus only starts outside test mode when the family enables the controller, and a sleep or
\* a restart counts.
ClockLeftAlone ==
  /\ reader' = reader /\ power' \in {power, power + 1} /\ (Late => Late')
  /\ mfIndex' \in {mfIndex, 0} /\ millisecondCounter' \in {millisecondCounter, 0}
  /\ UNCHANGED <<wrapped, stored>> \/ (wrapped' = FALSE /\ stored' = "none")
  /\ last' \in {last, 0} /\ (phase = "on" => last' = last)
  /\ phase = "on" /\ phase' # "on" => power' = power + 1
  /\ Live' => /\ UNCHANGED <<millisecondCounter, mfIndex>> /\ (wrapped => wrapped')
              /\ \/ phase = "ready" /\ last' = 0
                 \/ Live /\ last' = last

\* Every step but those of the clock and of the reader is one of those.
LEMMA LifeStep ==
  ASSUME LifeTypes, LifeInv, ClockTypes,
         \/ UIMInitialize \/ UIMInitializeFails \/ UIMFinalize \/ RestartUSBBus \/ UseSlots \/ HwGone
         \/ ResetControllerState \/ RestartControllerFromReset \/ ControllerSleep \/ HwPowerLost
         \/ RestoreControllerStateFromSleep \/ EnterTestMode \/ PlacePortInMode \/ LeaveTestMode
  PROVE  ClockLeftAlone
<1> USE DEF LifeTypes, ClockTypes, ClockLeftAlone, Live
<1>a. lifeUpset \subseteq lifeUpset' => (Late => Late')
  BY DEF Late
<1>1. CASE UIMInitialize
  BY <1>1, <1>a DEF UIMInitialize, Succeeds, readVars
<1>2. CASE UIMInitializeFails
  BY <1>2, <1>a DEF UIMInitializeFails, LifeFails, readVars, clockVars
<1>3. CASE UIMFinalize
  BY <1>3, <1>a DEF UIMFinalize, readVars, clockVars, histVars
<1>4. CASE RestartUSBBus
  BY <1>4, <1>a DEF RestartUSBBus, clockVars, histVars, driverVars
<1>5. CASE UseSlots
  BY <1>5, <1>a DEF UseSlots, readVars, clockVars, histVars
<1>6. CASE HwGone
  BY <1>6, <1>a DEF HwGone, LifeFails, readVars, clockVars
<1>7. CASE ResetControllerState
  BY <1>7, <1>a DEF ResetControllerState, Power, LifeFails, Succeeds, readVars, clockVars
<1>8. CASE RestartControllerFromReset
  <2>1. /\ phase = "stopped" /\ phase' \in {"ready", "dead"} /\ UNCHANGED <<readVars, power>>
        /\ lifeUpset \subseteq lifeUpset'
    BY <1>8 DEF RestartControllerFromReset, LifeFails, Succeeds
  <2>2. \/ UNCHANGED clockVars
        \/ mfIndex' = 0 /\ wrapped' = FALSE /\ millisecondCounter' = 0 /\ stored' = "none"
    BY <1>8 DEF RestartControllerFromReset, Reprogram, NotReprogrammed
  <2>3. /\ mfIndex' \in {mfIndex, 0} /\ millisecondCounter' \in {millisecondCounter, 0}
        /\ UNCHANGED <<wrapped, stored>> \/ (wrapped' = FALSE /\ stored' = "none")
    <3>1. CASE UNCHANGED clockVars
      BY <3>1 DEF clockVars
    <3> QED BY <2>2, <3>1
  <2> QED BY <2>1, <2>3, <1>a DEF readVars
<1>9. CASE ControllerSleep
  <2>1. /\ phase = "on" /\ phase' = "asleep" /\ power' = power + 1
        /\ UNCHANGED <<reader, last, clockVars>>
        /\ lifeUpset \subseteq lifeUpset'
    BY <1>9 DEF ControllerSleep, SaveControllerStateForSleep, Power, LifeFails, Succeeds, readVars
  <2> QED BY <2>1, <1>a DEF clockVars
<1>10. CASE HwPowerLost
  BY <1>10, <1>a DEF HwPowerLost, Fresh, readVars, histVars
<1>11. CASE RestoreControllerStateFromSleep
  <2>1. /\ phase = "asleep" /\ phase' = "ready" /\ UNCHANGED <<readVars, power>>
        /\ lifeUpset \subseteq lifeUpset'
    BY <1>11 DEF RestoreControllerStateFromSleep, RestoreSucceeds, RestoreTimesOut, RestoreError, LifeFails, Succeeds
  <2>2. \/ UNCHANGED clockVars
        \/ mfIndex' = 0 /\ wrapped' = FALSE /\ millisecondCounter' = 0 /\ stored' = "none"
    BY <1>11 DEF RestoreControllerStateFromSleep, RestoreSucceeds, RestoreTimesOut, RestoreError, Reprogram
  <2>3. /\ mfIndex' \in {mfIndex, 0} /\ millisecondCounter' \in {millisecondCounter, 0}
        /\ UNCHANGED <<wrapped, stored>> \/ (wrapped' = FALSE /\ stored' = "none")
    <3>1. CASE UNCHANGED clockVars
      BY <3>1 DEF clockVars
    <3> QED BY <2>2, <3>1
  <2> QED BY <2>1, <2>3, <1>a DEF readVars
<1>12. CASE EnterTestMode
  <2>1. /\ UNCHANGED <<reader, last, clockVars>>
        /\ power' = power + 1 /\ lifeUpset \subseteq lifeUpset'
        /\ phase = "on" /\ phase' = "on"
    BY <1>12 DEF EnterTestMode, Power, LifeFails, Succeeds, readVars
  <2> QED BY <1>12, <2>1, <1>a DEF EnterTestMode, StopUSBBus, clockVars
<1>13. CASE PlacePortInMode
  BY <1>13, <1>a DEF PlacePortInMode, driverVars, clockVars, readVars, histVars
<1>14. CASE LeaveTestMode
  BY <1>14, <1>a DEF LeaveTestMode, Fresh, LifeFails, clockVars, readVars
<1> QED BY <1>1, <1>2, <1>3, <1>4, <1>5, <1>6, <1>7, <1>8, <1>9, <1>10, <1>11, <1>12, <1>13, <1>14

\* A thread reads the counter as it is, unless it reads one word of two.
LEMMA CounterRead ==
  ASSUME ClockTypes, Torn
  PROVE  Counter \in Int /\ (Late => Late') /\ (~Late' => stored = "none" /\ Counter = millisecondCounter)
<1>1. (Late => Late') /\ (~Late' => stored = "none")
  BY DEF Torn, Late
<1>2. LowWraps * Wrap \in Int
  OBVIOUS
<1>3. CASE stored = "none"
  BY <1>1, <1>3 DEF Counter, ClockTypes
<1>4. CASE stored = "low"
  BY <1>1, <1>2, <1>4 DEF Counter, ClockTypes
<1>5. CASE stored = "high"
  BY <1>1, <1>2, <1>5 DEF Counter, ClockTypes
<1> QED BY <1>3, <1>4, <1>5 DEF ClockTypes

\* Every reachable state is one the reader may rely on.
THEOREM ClockCorrect == LifeSpec => [](ClockTypes /\ ClockInv)
<1>1. LifeInit => ClockTypes /\ ClockInv
  <2> SUFFICES ASSUME LifeInit PROVE ClockTypes /\ ClockInv
    OBVIOUS
  <2>1. Asks \in Readers /\ 0 \in 0..(Wrap - 1)
    BY DEF Readers, Asks
  <2>2a. ClockTypes
    <3>1. mfIndex = 0 /\ millisecondCounter = 0 /\ power = 0 /\ last = 0 /\ reader = Asks /\ stored = "none"
          /\ wrapped = FALSE
      BY DEF LifeInit
    <3>2. 0 \in Nat /\ 0 \in Int
      OBVIOUS
    <3>3. mfIndex \in 0..(Wrap - 1) /\ reader \in Readers /\ wrapped \in BOOLEAN
      BY <2>1, <3>1
    <3> QED BY <3>1, <3>2, <3>3 DEF ClockTypes
  <2>2. ClockInv
    BY DEF LifeInit, ClockInv, Asks, Live
  <2> QED BY <2>2a, <2>2
<1>2. LifeTypes /\ LifeInv /\ ClockTypes /\ ClockInv /\ [LifeNext]_lifeVars => ClockTypes' /\ ClockInv'
  <2> SUFFICES ASSUME LifeTypes, LifeInv, ClockTypes, ClockInv, [LifeNext]_lifeVars
               PROVE  ClockTypes' /\ ClockInv'
    OBVIOUS
  <2>r. reader = [pc |-> reader.pc, counter |-> reader.counter, index |-> reader.index,
                  again |-> reader.again, waits |-> reader.waits, since |-> reader.since]
    BY DEF ClockTypes, Readers
  <2>1. CASE ClockLeftAlone
    <3>0. /\ stored' \in {"none", "low", "high"} /\ wrapped' \in BOOLEAN
          /\ stored' # "none" => wrapped'
      <4>1. CASE wrapped' = wrapped /\ stored' = stored
        BY <4>1 DEF ClockInv, ClockTypes
      <4> QED BY <2>1, <4>1 DEF ClockLeftAlone
    <3>1. ClockTypes'
      BY <2>1, <3>0 DEF ClockTypes, ClockLeftAlone
    <3>2. CASE ~Live'
      <4>1. reader' = reader /\ reader.since \in Nat /\ power \in Nat
        BY <2>1 DEF ClockLeftAlone, ClockTypes, Readers
      <4>2. reader.pc # "idle" => /\ reader.since <= power'
                                  /\ phase' # "on" => reader.since < power'
        BY <2>1, <4>1 DEF ClockInv, ClockLeftAlone
      <4> QED BY <2>1, <3>1, <3>2, <4>1, <4>2 DEF ClockInv, ClockLeftAlone
    <3>3. CASE Live'
      <4>1. /\ reader' = reader /\ UNCHANGED <<millisecondCounter, mfIndex>> /\ (wrapped' <=> wrapped)
            /\ Base' = Base /\ Now' = Now /\ (Late => Late') /\ reader.since \in Nat
            /\ power' \in {power, power + 1} /\ power \in Nat
            /\ Now \in Nat
        BY <2>1, <3>3 DEF ClockLeftAlone, Base, Now, ClockTypes, Readers
      <4>2. CASE phase = "ready" /\ last' = 0
        BY <3>0, <3>1, <4>1, <4>2, <3>3 DEF ClockInv
      <4>3. CASE Live /\ last' = last
        <5>1. Reads => Reads'
          BY <4>1, <4>3 DEF Reads
        <5> QED BY <3>0, <3>1, <3>3, <4>1, <4>3, <5>1 DEF ClockInv, Live
      <4> QED BY <2>1, <3>3, <4>2, <4>3 DEF ClockLeftAlone
    <3> QED BY <3>1, <3>2, <3>3
  <2>2. CASE Tick
    <3>1. /\ reader'.waits = FALSE
          /\ reader' \in Readers /\ reader'.pc = reader.pc /\ reader'.counter = reader.counter
          /\ reader'.index = reader.index /\ reader'.again = reader.again /\ reader'.since = reader.since
      BY <2>2, <2>r DEF Tick, ClockTypes, Readers
    <3>2. ClockTypes'
      BY <2>2, <3>1, CountsModulo DEF Tick, ClockTypes
    <3>3. CASE wrapped
      <4>1. Late'
        BY <2>2, <3>3 DEF Tick, LifeFails, Late
      <4> QED BY <2>2, <3>1, <3>2, <4>1 DEF Tick, ClockInv, ClockTypes
    <3>4. CASE ~wrapped
      <4>1. /\ Late' <=> Late
            /\ UNCHANGED <<millisecondCounter, stored, phase, run, inTestMode, last, power>>
            /\ mfIndex' = (mfIndex + 1) % Wrap /\ (wrapped' <=> mfIndex' = 0)
        BY <2>2, <3>4 DEF Tick, Succeeds, Late, driverVars, xhcVars
      <4>2. Base = millisecondCounter /\ Now = millisecondCounter + mfIndex
        BY <3>4 DEF Base, Now, ClockTypes
      <4>3. Now <= Now' /\ Base <= Base' /\ Now \in Nat /\ Now' \in Nat /\ Base' \in Nat
        BY <4>1, <4>2, CountsModulo DEF Base, Now, ClockTypes
      <4>4. Live' <=> Live
        BY <4>1 DEF Live
      <4>5. ASSUME Reads PROVE Reads'
        BY <3>1, <4>1, <4>2, <4>3, <4>5 DEF Reads, ClockTypes, Readers
      <4>6. stored' = "none"
        BY <3>4, <4>1 DEF ClockInv
      <4> QED BY <3>1, <3>2, <4>1, <4>3, <4>4, <4>5, <4>6 DEF ClockInv, ClockTypes
    <3> QED BY <3>3, <3>4 DEF ClockTypes
  <2>3. CASE FilterCarries \/ (FilterCountsWrap /\ ~Carries)
    <3>1. /\ UNCHANGED <<reader, last, mfIndex, phase, run, inTestMode, power, lifeUpset>>
          /\ wrapped = TRUE /\ wrapped' = FALSE /\ millisecondCounter' = millisecondCounter + Wrap
          /\ stored' = "none"
      BY <2>3 DEF FilterCountsWrap, FilterCarries, Counted, ClockInv, readVars, histVars, driverVars, xhcVars, ClockTypes
    <3>2. Base' = Base /\ Now' = Now /\ (Live' <=> Live) /\ (Late' <=> Late) /\ Base = millisecondCounter + Wrap
      BY <3>1 DEF Base, Now, Live, Late, ClockTypes
    <3>3. ClockTypes'
      <4>1. millisecondCounter + Wrap \in Nat
        BY DEF ClockTypes
      <4> QED BY <3>1, <4>1 DEF ClockTypes
    <3>4. ASSUME Reads, mfIndex = 0, last <= Now PROVE Reads'
      BY <3>1, <3>2, <3>4 DEF Reads, ClockTypes, Readers, Now
    <3> QED BY <3>1, <3>2, <3>3, <3>4 DEF ClockInv, ClockTypes
  <2>10. CASE FilterCountsWrap /\ Carries
    <3>1. /\ UNCHANGED <<reader, last, mfIndex, wrapped, millisecondCounter, phase, run, inTestMode, power, lifeUpset>>
          /\ wrapped = TRUE /\ stored' \in {"low", "high"}
      BY <2>10 DEF FilterCountsWrap, readVars, histVars, driverVars, xhcVars, ClockTypes
    <3>2. Now' = Now /\ (Live' <=> Live) /\ (Late' <=> Late) /\ (Reads' <=> Reads)
      BY <3>1 DEF Base, Now, Live, Late, Reads
    <3> QED BY <3>1, <3>2 DEF ClockInv, ClockTypes
  <2>4. CASE GetMicroFrameNumber
    <3>1. /\ reader' = [Asks EXCEPT !.pc = "counter", !.since = power]
          /\ phase = "on" /\ UNCHANGED <<last, lifeUpset, clockVars, phase, run, inTestMode, power>>
      BY <2>4 DEF GetMicroFrameNumber, readUnchanged, driverVars, xhcVars
    <3>2. reader' = [pc |-> "counter", counter |-> 0, index |-> 0, again |-> FALSE, waits |-> FALSE, since |-> power]
      BY <3>1 DEF Asks
    <3>3. reader' \in Readers
      BY <3>2 DEF ClockTypes, Readers
    <3>4. Reads'
      BY <3>2 DEF Reads
    <3>5. ClockTypes'
      BY <3>1, <3>3 DEF ClockTypes, clockVars
    <3>6. (wrapped' <=> wrapped) /\ Now' = Now /\ (Live' <=> Live) /\ (Late' <=> Late)
      BY <3>1 DEF clockVars, Now, Base, Live, Late
    <3>7. mfIndex' = mfIndex /\ stored' = stored /\ last' = last /\ power' = power /\ phase' = phase
      BY <3>1 DEF clockVars
    <3>8. reader'.pc = "counter" /\ reader'.waits = FALSE /\ reader'.since = power
      BY <3>2
    <3> QED BY <3>1, <3>4, <3>5, <3>6, <3>7, <3>8 DEF ClockTypes, ClockInv
  <2>5. CASE ReadCounter1
    <3>1. /\ reader' = [reader EXCEPT !.pc = "index", !.counter = Counter]
          /\ reader.pc = "counter" /\ ~reader.waits
          /\ UNCHANGED <<last, clockVars, phase, run, inTestMode, power>>
      BY <2>5 DEF ReadCounter1, readUnchanged, driverVars, xhcVars
    <3>2. reader' = [pc |-> "index", counter |-> Counter, index |-> reader.index,
                     again |-> reader.again, waits |-> reader.waits, since |-> reader.since]
      BY <3>1, <2>r
    <3>3. Counter \in Int /\ (Late => Late') /\ (~Late' => Counter = millisecondCounter)
      BY <2>5, CounterRead DEF ReadCounter1
    <3>4. ClockTypes'
      BY <3>1, <3>2, <3>3 DEF ClockTypes, Readers, clockVars
    <3> QED BY <3>1, <3>2, <3>3, <3>4 DEF ClockTypes, ClockInv, Readers, Reads, Live, Now, Base, clockVars
  <2>6. CASE ReadMFIndex
    <3>1. /\ reader' = [reader EXCEPT !.pc = "compare", !.index = mfIndex]
          /\ reader.pc = "index" /\ UNCHANGED <<last, clockVars, phase, run, inTestMode, power>>
          /\ Late => Late'
          /\ mfIndex = 0 /\ reader.counter = 0 /\ wrapped => Late'
      BY <2>6 DEF ReadMFIndex, readUnchanged, driverVars, xhcVars, Late
    <3>2. reader' = [pc |-> "compare", counter |-> reader.counter, index |-> mfIndex,
                     again |-> reader.again, waits |-> reader.waits, since |-> reader.since]
      BY <3>1, <2>r
    <3>3. ClockTypes'
      BY <3>1, <3>2 DEF ClockTypes, Readers, clockVars
    <3>4. ASSUME ~Late', ~Late, Live, reader.since = power PROVE Reads'
      BY <3>1, <3>2, <3>4 DEF ClockTypes, ClockInv, Readers, Reads, Now, Base, clockVars
    <3> QED BY <3>1, <3>2, <3>3, <3>4 DEF ClockInv, Live, Now, Base, clockVars, ClockTypes
  <2>7. CASE ReadCounter2
    <3>1. /\ reader.pc = "compare" /\ UNCHANGED <<clockVars, phase, run, inTestMode, power>>
      BY <2>7 DEF ReadCounter2, readUnchanged, driverVars, xhcVars
    <3>2. Counter \in Int /\ (Late => Late') /\ (~Late' => Counter = millisecondCounter)
      BY <2>7, CounterRead DEF ReadCounter2
    <3>3. CASE /\ ~invalid /\ reader.counter = Counter /\ LookAgain /\ last' = last
               /\ reader' = [reader EXCEPT !.pc = "counter", !.again = TRUE, !.waits = TRUE]
      <4>1. reader' = [pc |-> "counter", counter |-> reader.counter, index |-> reader.index,
                       again |-> TRUE, waits |-> TRUE, since |-> reader.since]
        BY <3>3, <2>r
      <4>2. ClockTypes'
        BY <3>1, <3>3, <4>1 DEF ClockTypes, Readers, clockVars
      <4> QED BY <3>1, <3>2, <3>3, <4>1, <4>2
          DEF ClockTypes, ClockInv, Readers, Reads, LookAgain, Live, Now, Base, clockVars
    <3>4. CASE /\ reader' = Asks /\ (~invalid /\ reader.counter = Counter => ~LookAgain)
               /\ last' = IF ~invalid /\ phase = "on" /\ run /\ ~inTestMode /\ reader.since = power THEN FrameNumber ELSE last
      <4>1. FrameNumber \in Int
        BY <3>2 DEF FrameNumber, ClockTypes, Readers
      <4>2. ASSUME ~Late', Live, reader.since = power PROVE FrameNumber <= Now
        BY <3>1, <3>2, <4>2 DEF FrameNumber, ClockTypes, ClockInv, Readers, Reads, Now, Base
      <4>3. ClockTypes'
        BY <3>1, <3>4, <4>1 DEF ClockTypes, Readers, Asks, clockVars
      <4> QED BY <3>1, <3>2, <3>4, <4>2, <4>3 DEF ClockInv, Asks, Live, Now, Base, clockVars
    <3> QED BY <2>7, <3>3, <3>4 DEF ReadCounter2
  <2>8. CASE ReadGivesUp
    <3>1. UNCHANGED <<last, lifeUpset, clockVars, phase, run, inTestMode, power>>
      BY <2>8 DEF ReadGivesUp, readUnchanged, driverVars, xhcVars
    <3>2. CASE reader' = Asks
      BY <3>1, <3>2 DEF ClockTypes, ClockInv, Readers, Asks, Live, Now, Base, Late, clockVars
    <3>3. CASE ~run /\ reader' = [reader EXCEPT !.waits = FALSE]
      <4>1. reader' = [pc |-> reader.pc, counter |-> reader.counter, index |-> reader.index,
                       again |-> reader.again, waits |-> FALSE, since |-> reader.since]
        BY <3>3, <2>r
      <4> QED BY <3>1, <3>3, <4>1 DEF ClockTypes, ClockInv, Readers, Live, Now, Base, Late, clockVars
    <3> QED BY <2>8, <3>2, <3>3 DEF ReadGivesUp
  <2>9. CASE UNCHANGED lifeVars
    BY <2>9 DEF lifeVars, driverVars, xhcVars, clockVars, readVars, histVars, ClockTypes, ClockInv, Reads,
                Live, Now, Base, Late
  <2> QED BY <2>1, <2>2, <2>3, <2>4, <2>5, <2>6, <2>7, <2>8, <2>9, <2>10, LifeStep DEF LifeNext
<1> QED BY <1>1, <1>2, LifeCycle, PTL DEF LifeSpec

\* While the controller runs, the micro-frame number that GetMicroFrameNumber returns never goes
\* back, whenever MFINDEX wraps and the filter counts the wrap.
THEOREM FrameNumberGrows == LifeSpec => FrameNumberNeverGoesBack
<1> DEFINE Answer == (phase = "on" /\ phase' = "on") => last' >= last \/ Late'
<1>1. LifeTypes /\ LifeInv /\ ClockTypes /\ ClockInv /\ [LifeNext]_lifeVars => [Answer]_lifeVars
  <2> SUFFICES ASSUME LifeTypes, LifeInv, ClockTypes, ClockInv, [LifeNext]_lifeVars, phase = "on", ~Late'
               PROVE  last' >= last
    BY DEF lifeVars
  <2>1. CASE ClockLeftAlone
    BY <2>1 DEF ClockLeftAlone, ClockTypes
  <2>2. CASE ReadCounter2
    <3>1. CASE last' = last
      BY <3>1 DEF ClockTypes
    <3>2. CASE last' # last
      <4>1. ~Late /\ Counter = millisecondCounter
        BY <2>2, CounterRead DEF ReadCounter2
      <4>2. /\ reader.pc = "compare" /\ Live /\ reader.since = power
            /\ ~(reader.counter = millisecondCounter /\ LookAgain) /\ last' = FrameNumber
        BY <2>2, <3>2, <4>1 DEF ReadCounter2, Live
      <4> QED BY <4>1, <4>2 DEF ClockInv, ClockTypes, Readers, Reads, FrameNumber, LookAgain
    <3> QED BY <3>1, <3>2
  <2>3. CASE \/ Tick \/ FilterCountsWrap \/ FilterCarries \/ GetMicroFrameNumber \/ ReadCounter1 \/ ReadMFIndex
             \/ ReadGivesUp \/ UNCHANGED lifeVars
    <3>1. last' = last
      BY <2>3 DEF Tick, FilterCountsWrap, FilterCarries, GetMicroFrameNumber, ReadCounter1, ReadMFIndex, ReadGivesUp,
                  lifeVars, readVars
    <3> QED BY <3>1 DEF ClockTypes
  <2> QED BY <2>1, <2>2, <2>3, LifeStep DEF LifeNext
<1>2. [Answer]_lifeVars => [(phase = "on" /\ phase' = "on") => \/ last' >= last
                                                        \/ lifeUpset' \cap {"late", "firstWrap", "torn"} # {}]_lifeVars
  BY DEF Late
<1> QED BY <1>1, <1>2, LifeCycle, ClockCorrect, PTL DEF LifeSpec, FrameNumberNeverGoesBack

=============================================================================

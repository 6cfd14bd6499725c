--------------------------- MODULE RootHubPortProofs ---------------------------
(***************************************************************************)
(* What holds in every behaviour of RootHubPort, for every number of ports   *)
(* and of retries, whatever the bounds are and however many ports change     *)
(* together: the hub driver asks about the ports that changed, no change is  *)
(* forgotten, and no port is left resuming.                                 *)
(***************************************************************************)
EXTENDS RootHubPort, TLAPS

-----------------------------------------------------------------------------
(* The inductive invariant.                                                *)

Links   == {"Rx", "Poll", "U0", "U3", "Resume", "Recovery", "Reset"}
Bits    == {"CSC", "PLC", "PRC", Invalid}
Views   == {"new", "Rx", "U0", "U3", "busy"}

\* Links from which the xHC alone gets to no suspended or resuming one.
Quiet   == {"Rx", "Poll", "U0", "Reset"}

\* The operations that hold the gate between a read of a register and the writes.
Reading == {"poll", "status"}

OpType == op \in [pc : {"idle", "poll", "status", "again"}, port : Ports, seen : SUBSET Bits, link : Links,
                  tries : Nat]

TypeOK ==
  /\ swap \in BOOLEAN /\ wired \subseteq Ports
  /\ pls \in [Ports -> Links] /\ changes \in [Ports -> SUBSET Bits] /\ running \in BOOLEAN
  /\ events \subseteq Ports /\ bitmap \subseteq Ports /\ gated \subseteq Ports
  /\ BeingResumed \in [Ports -> BOOLEAN] /\ EmulateCSC \in [Ports -> BOOLEAN]
  /\ armed \subseteq Ports /\ fired \subseteq Ports
  /\ OpType
  /\ seen \in [Ports -> Views] /\ reported \in [Ports -> SUBSET Bits]
  /\ upset \subseteq {"gaveUp", "flagKept"}

\* What an operation has read of its port still tells what has become of it: the gate keeps
\* everything out but the xHC, and what the xHC does it leaves a change bit for.
ReadStays ==
  /\ op.pc # "idle" => running
  /\ op.pc = "status" => op.tries <= Retries
  /\ op.pc = "again" => op.tries < Retries
  /\ op.pc \in Reading =>
       /\ op.link = "U0" => pls[op.port] \in Quiet
       /\ op.link = "Resume" => pls[op.port] # "U3" /\ seen[op.port] # "U0"
  /\ op.pc = "status" =>
       /\ Connected(op.port) # (op.link # "Rx") => "CSC" \in changes[op.port]
       /\ pls[op.port] = "Resume" /\ op.link # "Resume" => "PLC" \in changes[op.port]
       /\ op.seen = {} /\ changes[op.port] # {} => op.port \in events \cup bitmap

\* A port with a change bit is in the events or the bitmaps.
Noticed == running => \A p \in Ports : changes[p] # {} => p \in events \cup bitmap \cup gated

\* A port that is not as the hub driver was told, without a change bit for it.
Unknown(p) == (EmulateCSC[p] /\ Connected(p) /\ "CSC" \notin reported[p]) \/ Connected(p) # (seen[p] # "Rx")

\* While the controller sleeps a connection change is noted in the register alone.
Looked ==
  "gaveUp" \notin upset =>
    \A p \in Ports : Unknown(p) => WillLook(p) \/ (~running /\ "CSC" \in changes[p])

\* BeingResumed is off in a port the hub driver takes for enabled, and in one that is suspended:
\* a device that wakes is never taken for a resume that is under way. In one that signals resume
\* it says that the timer is set.
ResumeNoted ==
  /\ \A p \in Ports : seen[p] = "U0" => ~BeingResumed[p] /\ pls[p] \in Quiet
  /\ upset = {} =>
       \A p \in Ports :
         /\ pls[p] = "U3" => ~BeingResumed[p]
         /\ pls[p] = "Resume" /\ BeingResumed[p] => p \in armed \cup fired
         /\ pls[p] = "Resume" /\ ~BeingResumed[p] /\ running => WillLook(p)

Inv == TypeOK /\ ReadStays /\ Noticed /\ Looked /\ ResumeNoted

-----------------------------------------------------------------------------
(* Port numbers.                                                           *)

\* The bit of a port in the bitmap the hub driver is given.
BitOf(p) == IF swap THEN p \div 2 + 1 + (IF p % 2 = 1 THEN NumEach ELSE 0) ELSE p + 1

\* There are ports, twice as many as each range has.
LEMMA SizeOfRange == NumEach \in Nat /\ NumEach >= 1 /\ NumPorts = 2 * NumEach
  BY PortsAssumption DEF NumPorts

\* The remainder of a division by two.
LEMMA Halves ==
  ASSUME NEW p \in Ports
  PROVE  /\ p \in Nat /\ p <= 2 * NumEach - 1 /\ p \div 2 \in Nat
         /\ (p % 2 = 1 /\ p = 2 * (p \div 2) + 1) \/ (p % 2 # 1 /\ p = 2 * (p \div 2))
  BY SizeOfRange DEF Ports

\* The range of each protocol, in both arrangements.
LEMMA RangesOf ==
  ASSUME swap \in BOOLEAN
  PROVE  /\ swap => /\ Range("SS") = 1 .. NumEach /\ Range("HS") = NumEach + 1 .. NumPorts
                    /\ StartRange("SS") = 1 /\ StartRange("HS") = NumEach + 1
         /\ ~swap => /\ Range("HS") = 1 .. NumEach /\ Range("SS") = NumEach + 1 .. NumPorts
                     /\ StartRange("HS") = 1 /\ StartRange("SS") = NumEach + 1
<1>1. CASE swap = TRUE
  BY <1>1 DEF Range, StartRange
<1>2. CASE swap = FALSE
  BY <1>2 DEF Range, StartRange
<1> QED
  BY <1>1, <1>2

\* The ranges of the two protocols do not meet, so that a bit tells the protocol.
LEMMA ProtocolOfBit ==
  ASSUME swap \in BOOLEAN, NEW bit \in 1 .. NumPorts,
         NEW protocol, protocol = IF bit \in Range("SS") THEN "SS" ELSE "HS"
  PROVE  AskedFor(bit) = [protocol |-> protocol, number |-> bit - StartRange(protocol) + 1]
<1>1. bit \in Range("SS") \/ bit \in Range("HS")
  BY SizeOfRange DEF Range
<1>2. ~(bit \in Range("SS") /\ bit \in Range("HS"))
  BY SizeOfRange DEF Range
<1> QED
  BY <1>1, <1>2 DEF AskedFor

\* The hub driver asks, for the bit of a port, about the number of that port ...
LEMMA AsksForPort ==
  ASSUME swap \in BOOLEAN, NEW p \in Ports
  PROVE  /\ BitOf(p) \in 1 .. NumPorts
         /\ AskedFor(BitOf(p)) = PortNumberCanonicalToProtocol(p)
<1>1. BitOf(p) \in 1 .. NumPorts
  BY Halves, SizeOfRange DEF BitOf, Ports
<1>2. BitOf(p) = (IF swap THEN p \div 2 + (IF p % 2 = 1 THEN NumEach ELSE 0) ELSE p) + 1
  BY Halves, SizeOfRange DEF BitOf
<1>3. PICK c \in Int : c = IF swap THEN p \div 2 + (IF p % 2 = 1 THEN NumEach ELSE 0) ELSE p
  BY Halves, SizeOfRange
<1>4. PICK b \in 1 .. NumPorts : b = BitOf(p) /\ b = c + 1
  BY <1>1, <1>2, <1>3
<1>5. \A pr : StartRange(pr) \in Int
  BY SizeOfRange DEF StartRange
<1>6. \A pr : b - StartRange(pr) + 1 = c - StartRange(pr) + 2
  BY <1>3, <1>4, <1>5
<1>7. PICK pr : pr = IF b \in Range("SS") THEN "SS" ELSE "HS"
  OBVIOUS
<1>8. AskedFor(b) = [protocol |-> pr, number |-> b - StartRange(pr) + 1]
  BY <1>7, ProtocolOfBit
<1>9. PortNumberCanonicalToProtocol(p) = [protocol |-> pr, number |-> c - StartRange(pr) + 2]
  BY <1>3, <1>4, <1>7 DEF PortNumberCanonicalToProtocol
<1> QED
  BY <1>4, <1>6, <1>8, <1>9

\* ... from which the driver finds the port again.
LEMMA NumberAndBack ==
  ASSUME swap \in BOOLEAN, NEW p \in Ports
  PROVE  LET n == PortNumberCanonicalToProtocol(p)
         IN  PortNumberProtocolToCanonical(n.number, n.protocol) = p
<1>1. PICK c \in Int : c = IF swap THEN p \div 2 + (IF p % 2 = 1 THEN NumEach ELSE 0) ELSE p
  BY Halves, SizeOfRange
<1>2. PICK pr : pr = IF c + 1 \in Range("SS") THEN "SS" ELSE "HS"
  OBVIOUS
<1>3. PortNumberCanonicalToProtocol(p) = [protocol |-> pr, number |-> c - StartRange(pr) + 2]
  BY <1>1, <1>2 DEF PortNumberCanonicalToProtocol
<1>4. PortNumberProtocolToCanonical(c - StartRange(pr) + 2, pr) = p
  <2>1. CASE swap
    <3>1. PICK q \in Nat : q = p \div 2 /\ q <= NumEach - 1
      BY Halves, SizeOfRange
    <3>2. (p % 2 = 1 /\ p = 2 * q + 1 /\ c = q + NumEach) \/ (p % 2 # 1 /\ p = 2 * q /\ c = q)
      BY <2>1, <3>1, <1>1, Halves
    <3>3. c + 1 \in Range("SS") <=> c < NumEach
      <4>1. Range("SS") = 1 .. NumEach
        BY <2>1, RangesOf
      <4>2. c \in Nat
        BY <3>1, <3>2, SizeOfRange
      <4>3. c + 1 \in 1 .. NumEach <=> c < NumEach
        BY <4>2, SizeOfRange
      <4> QED
        BY <4>1, <4>3
    <3>4. CASE c < NumEach
      <4>1. pr = "SS" /\ StartRange(pr) = 1 /\ p = 2 * q /\ c = q
        BY <2>1, <3>1, <3>2, <3>3, <3>4, <1>2, SizeOfRange, RangesOf
      <4>2. 2 * (c - StartRange(pr) + 2) - 2 = p
        BY <3>1, <4>1
      <4> QED
        BY <2>1, <4>1, <4>2 DEF PortNumberProtocolToCanonical
    <3>5. CASE ~(c < NumEach)
      <4>1. pr = "HS" /\ StartRange(pr) = NumEach + 1 /\ p = 2 * q + 1 /\ c = q + NumEach
        BY <2>1, <3>1, <3>2, <3>3, <3>5, <1>2, SizeOfRange, RangesOf
      <4>2. 2 * (c - StartRange(pr) + 2) - 1 = p
        BY <3>1, <4>1, SizeOfRange
      <4> QED
        BY <2>1, <4>1, <4>2 DEF PortNumberProtocolToCanonical
    <3> QED
      BY <3>4, <3>5
  <2>2. CASE ~swap
    BY <2>2, <1>1, <1>2, Halves, SizeOfRange DEF PortNumberProtocolToCanonical, StartRange, Range
  <2> QED
    BY <2>1, <2>2
<1> QED
  BY <1>3, <1>4

\* The bits are those of the ports.
LEMMA BitsOfPorts == ASSUME NEW ports PROVE StatusChangedBits(ports) = {BitOf(p) : p \in ports}
  BY DEF StatusChangedBits, VMwarePortStatusShuffle, BitOf

\* So it asks about the ports whose bits are set.
LEMMA AsksForPorts == TypeOK => RightPortAsked
<1> SUFFICES ASSUME TypeOK PROVE RightPortAsked
  OBVIOUS
<1> DEFINE Found(b) == PortNumberProtocolToCanonical(AskedFor(b).number, AskedFor(b).protocol)
<1>1. \A p \in gated : /\ AskedFor(BitOf(p)) = PortNumberCanonicalToProtocol(p)
                       /\ Found(BitOf(p)) = p
  BY AsksForPort, NumberAndBack DEF TypeOK
<1>2. PICK bits : bits = {BitOf(p) : p \in gated}
  OBVIOUS
<1> HIDE DEF Found
<1>3. {Found(b) : b \in bits} = gated
  BY <1>1, <1>2
<1>4. \A p \in gated : \E b \in bits : AskedFor(b) = PortNumberCanonicalToProtocol(p)
  BY <1>1, <1>2
<1>5. bits = StatusChangedBits(gated)
  BY <1>2, BitsOfPorts
<1> QED
  BY <1>3, <1>4, <1>5 DEF RightPortAsked, Found

-----------------------------------------------------------------------------
(* The invariant at first.                                                 *)

\* At first the hub driver has yet to look at every port.
LEMMA InitInv == Init => Inv
<1> SUFFICES ASSUME Init PROVE Inv
  OBVIOUS
<1>1. PICK c \in SUBSET wired :
        /\ pls = [p \in Ports |-> IF p \in c THEN "Poll" ELSE "Rx"]
        /\ EmulateCSC = [p \in Ports |-> p \in c]
  BY DEF Init
<1>2. wired \subseteq Ports
  BY DEF Init
<1>3. 0 \in Ports
  BY SizeOfRange DEF Ports
<1>4. swap \in BOOLEAN /\ running = TRUE
  BY DEF Init
<1>5. OpType /\ op.pc = "idle"
  BY <1>3 DEF Init, OpType, Idle, Links
<1>6. TypeOK
  <2>1. pls \in [Ports -> Links]
    BY <1>1 DEF Links
  <2>2. EmulateCSC \in [Ports -> BOOLEAN]
    BY <1>1
  <2>3. BeingResumed \in [Ports -> BOOLEAN]
    BY DEF Init
  <2>4. seen \in [Ports -> Views] /\ reported \in [Ports -> SUBSET Bits] /\ changes \in [Ports -> SUBSET Bits]
    BY DEF Init, Views
  <2>5. events = {} /\ bitmap = {} /\ gated = {} /\ armed = {} /\ fired = {} /\ upset = {}
    BY DEF Init
  <2> QED
    BY <1>2, <1>4, <1>5, <2>1, <2>2, <2>3, <2>4, <2>5 DEF TypeOK
<1>7. ReadStays
  BY <1>5 DEF ReadStays, Reading
<1>8. Noticed
  BY DEF Init, Noticed
<1>9. Looked
  <2>1. \A p \in Ports : seen[p] = "new"
    BY DEF Init
  <2> QED
    BY <2>1 DEF Looked, WillLook
<1>10. ResumeNoted
  <2>1. \A p \in Ports : seen[p] = "new" /\ pls[p] \in {"Poll", "Rx"}
    BY <1>1 DEF Init
  <2> QED
    BY <2>1 DEF ResumeNoted
<1> QED
  BY <1>6, <1>7, <1>8, <1>9, <1>10 DEF Inv

-----------------------------------------------------------------------------
(* The xHC.                                                                *)

\* What the xHC does to a port: a connection that changes is noted in CSC, a device that wakes
\* in PLC, and nothing else makes a link suspended or resuming.
HwMay(port, link, bits) ==
  /\ link \in Links /\ bits \subseteq Bits /\ bits # {}
  /\ Connected(port) # (link # "Rx") => "CSC" \in bits
  /\ \/ link = pls[port]
     \/ link \in Quiet
     \/ link = "Resume" /\ pls[port] = "U3" /\ "PLC" \in bits

\* The invariant survives that.
LEMMA HwChangeKeeps ==
  ASSUME Inv, NEW port \in Ports, NEW link, NEW bits, HwMay(port, link, bits),
         HwChange(port, link, bits), upset' = upset
  PROVE  Inv'
<1>1. /\ pls' = [pls EXCEPT ![port] = link]
      /\ changes' = [changes EXCEPT ![port] = @ \cup bits]
      /\ events' = IF running /\ changes[port] = {} /\ bits # {} THEN events \cup {port} ELSE events
      /\ swap' = swap /\ wired' = wired /\ bitmap' = bitmap /\ gated' = gated
      /\ BeingResumed' = BeingResumed /\ EmulateCSC' = EmulateCSC /\ armed' = armed /\ fired' = fired
      /\ op' = op /\ seen' = seen /\ reported' = reported
  BY DEF HwChange, portVars, hubVars
<1>2. running' = running
  BY DEF HwChange
<1>3. TypeOK /\ ReadStays /\ Noticed /\ Looked /\ ResumeNoted
  BY DEF Inv
<1>4. /\ link \in Links /\ bits \subseteq Bits /\ bits # {}
      /\ pls[port] \in Links
      /\ (pls[port] # "Rx") # (link # "Rx") => "CSC" \in bits
      /\ link = pls[port] \/ link \in Quiet \/ (link = "Resume" /\ pls[port] = "U3" /\ "PLC" \in bits)
  BY <1>3 DEF HwMay, Connected, TypeOK
<1>5. /\ pls'[port] = link /\ changes'[port] = changes[port] \cup bits
      /\ \A p \in Ports : p # port => pls'[p] = pls[p] /\ changes'[p] = changes[p]
  BY <1>1, <1>3 DEF TypeOK
<1>6. events \subseteq events' /\ events' \subseteq events \cup {port}
  BY <1>1
<1>7. TypeOK'
  <2>1. pls' \in [Ports -> Links] /\ changes' \in [Ports -> SUBSET Bits] /\ events' \subseteq Ports
    BY <1>1, <1>3, <1>4 DEF TypeOK
  <2> QED
    BY <1>1, <1>2, <1>3, <2>1 DEF TypeOK, OpType
<1>8. Noticed'
  <2> SUFFICES ASSUME running, NEW p \in Ports, changes'[p] # {}
               PROVE  p \in events' \cup bitmap' \cup gated'
    BY <1>2 DEF Noticed
  <2>1. CASE changes[p] # {}
    BY <2>1, <1>1, <1>3, <1>6 DEF Noticed
  <2>2. CASE changes[p] = {}
    BY <2>2, <1>1, <1>4, <1>5
  <2> QED
    BY <2>1, <2>2
<1>9. \A p \in Ports : WillLook(p) => WillLook(p)'
  BY <1>1, <1>6 DEF WillLook
<1>10. ReadStays'
  <2>1. /\ op.pc # "idle" => running
        /\ op.pc = "status" => op.tries <= Retries
        /\ op.pc = "again" => op.tries < Retries
    BY <1>3 DEF ReadStays
  <2>2. ASSUME op.pc \in Reading
        PROVE  /\ op.link = "U0" => pls'[op.port] \in Quiet
               /\ op.link = "Resume" => pls'[op.port] # "U3" /\ seen[op.port] # "U0"
    <3>1. op.port \in Ports /\ ReadStays
      BY <1>3 DEF TypeOK, OpType
    <3>2. CASE op.port = port
      BY <2>2, <3>1, <3>2, <1>4, <1>5 DEF ReadStays, Quiet
    <3>3. CASE op.port # port
      BY <2>2, <3>1, <3>3, <1>5 DEF ReadStays
    <3> QED
      BY <3>2, <3>3
  <2>3. ASSUME op.pc = "status"
        PROVE  /\ (pls'[op.port] # "Rx") # (op.link # "Rx") => "CSC" \in changes'[op.port]
               /\ pls'[op.port] = "Resume" /\ op.link # "Resume" => "PLC" \in changes'[op.port]
               /\ op.seen = {} /\ changes'[op.port] # {} => op.port \in events' \cup bitmap
    <3>1. op.port \in Ports /\ ReadStays /\ running
      BY <1>3, <2>3 DEF TypeOK, OpType, ReadStays
    <3>2. CASE op.port = port
      <4>1. (pls[op.port] # "Rx") # (op.link # "Rx") => "CSC" \in changes[op.port]
        BY <2>3, <3>1 DEF ReadStays, Connected
      <4>2. (pls'[op.port] # "Rx") # (op.link # "Rx") => "CSC" \in changes'[op.port]
        BY <4>1, <3>2, <1>4, <1>5
      <4>3. pls'[op.port] = "Resume" /\ op.link # "Resume" => "PLC" \in changes'[op.port]
        BY <2>3, <3>1, <3>2, <1>4, <1>5 DEF ReadStays, Quiet
      <4>4. op.seen = {} /\ changes'[op.port] # {} => op.port \in events' \cup bitmap
        BY <2>3, <3>1, <3>2, <1>1, <1>4 DEF ReadStays
      <4> QED
        BY <4>2, <4>3, <4>4
    <3>3. CASE op.port # port
      BY <2>3, <3>1, <3>3, <1>5, <1>6 DEF ReadStays, Connected
    <3> QED
      BY <3>2, <3>3
  <2> QED
    BY <1>1, <1>2, <2>1, <2>2, <2>3 DEF ReadStays, Connected
<1>11. Looked'
  <2> SUFFICES ASSUME "gaveUp" \notin upset, NEW p \in Ports, Unknown(p)'
               PROVE  WillLook(p)' \/ (~running' /\ "CSC" \in changes'[p])
    BY upset' = upset DEF Looked
  <2>1. CASE Unknown(p)
    <3>1. WillLook(p) \/ (~running /\ "CSC" \in changes[p])
      BY <1>3, <2>1 DEF Looked
    <3> QED
      BY <3>1, <1>2, <1>5, <1>9
  <2>2. CASE ~Unknown(p)
    <3>1. p = port /\ Connected(p) # Connected(p)'
      BY <2>2, <1>1, <1>5 DEF Unknown, Connected
    <3>2. "CSC" \in changes'[p]
      BY <3>1, <1>4, <1>5 DEF Connected
    <3>3. running => WillLook(p)'
      BY <3>2, <1>2, <1>8 DEF Noticed, WillLook
    <3> QED
      BY <3>2, <3>3, <1>2
  <2> QED
    BY <2>1, <2>2
<1>12. ResumeNoted'
  <2>1. ASSUME NEW p \in Ports, seen[p] = "U0"
        PROVE  ~BeingResumed[p] /\ pls'[p] \in Quiet
    BY <2>1, <1>3, <1>4, <1>5 DEF ResumeNoted, Quiet
  <2>2. ASSUME upset = {}, NEW p \in Ports
        PROVE  /\ pls'[p] = "U3" => ~BeingResumed[p]
               /\ pls'[p] = "Resume" /\ BeingResumed[p] => p \in armed \cup fired
               /\ pls'[p] = "Resume" /\ ~BeingResumed[p] /\ running => WillLook(p)'
    <3>1. CASE pls'[p] = pls[p]
      BY <2>2, <3>1, <1>3, <1>9 DEF ResumeNoted
    <3>2. CASE p = port /\ link \in Quiet
      BY <3>2, <1>5 DEF Quiet
    <3>3. CASE p = port /\ link = "Resume" /\ pls[p] = "U3" /\ "PLC" \in bits
      <4>1. ~BeingResumed[p]
        BY <2>2, <3>3, <1>3 DEF ResumeNoted
      <4>2. running => WillLook(p)'
        BY <3>3, <1>2, <1>5, <1>8 DEF Noticed, WillLook
      <4> QED
        BY <3>3, <4>1, <4>2, <1>5
    <3> QED
      BY <3>1, <3>2, <3>3, <1>4, <1>5
  <2> QED
    BY <1>1, <1>2, <2>1, <2>2 DEF ResumeNoted
<1> QED
  BY <1>7, <1>8, <1>10, <1>11, <1>12 DEF Inv

\* A device comes, goes or wakes, or the port misbehaves.
LEMMA HwHappensKeeps == ASSUME Inv, NEW port \in Ports, HwHappens(port) PROVE Inv'
<1>1. TypeOK /\ upset' = upset
  BY DEF Inv, HwHappens
<1>2. pls[port] \in Links /\ Invalid \in Bits /\ {"CSC"} \subseteq Bits /\ {"PLC"} \subseteq Bits
  BY <1>1 DEF TypeOK, Bits
<1>3. CASE ~Connected(port) /\ HwChange(port, IF Protocol(port) = "SS" THEN "U0" ELSE "Poll", {"CSC"})
  <2>1. PICK link : link = IF Protocol(port) = "SS" THEN "U0" ELSE "Poll"
    OBVIOUS
  <2>2. HwMay(port, link, {"CSC"}) /\ HwChange(port, link, {"CSC"})
    BY <2>1, <1>2, <1>3 DEF HwMay, Quiet, Links
  <2> QED
    BY <2>2, <1>1, HwChangeKeeps
<1>4. CASE Connected(port) /\ HwChange(port, "Rx", {"CSC"})
  <2>1. HwMay(port, "Rx", {"CSC"})
    BY <1>2 DEF HwMay, Quiet, Links
  <2> QED
    BY <2>1, <1>1, <1>4, HwChangeKeeps
<1>5. CASE pls[port] = "U3" /\ HwChange(port, "Resume", {"PLC"})
  <2>1. HwMay(port, "Resume", {"PLC"})
    BY <1>2, <1>5 DEF HwMay, Connected, Links
  <2> QED
    BY <2>1, <1>1, <1>5, HwChangeKeeps
<1>6. CASE HwChange(port, pls[port], {Invalid})
  <2>1. HwMay(port, pls[port], {Invalid})
    BY <1>2 DEF HwMay, Connected
  <2> QED
    BY <2>1, <1>1, <1>6, HwChangeKeeps
<1> QED
  BY <1>3, <1>4, <1>5, <1>6 DEF HwHappens

\* A reset or a resume ends.
LEMMA HwFinishesKeeps == ASSUME Inv, NEW port \in Ports, HwFinishes(port) PROVE Inv'
<1>1. upset' = upset
  BY DEF HwFinishes, histVars
<1>2. CASE pls[port] = "Reset" /\ HwChange(port, "U0", {"PRC"})
  <2>1. HwMay(port, "U0", {"PRC"})
    BY <1>2 DEF HwMay, Connected, Links, Bits, Quiet
  <2> QED
    BY <2>1, <1>1, <1>2, HwChangeKeeps
<1>3. CASE pls[port] = "Recovery" /\ HwChange(port, "U0", {"PLC"})
  <2>1. HwMay(port, "U0", {"PLC"})
    BY <1>3 DEF HwMay, Connected, Links, Bits, Quiet
  <2> QED
    BY <2>1, <1>1, <1>3, HwChangeKeeps
<1> QED
  BY <1>2, <1>3 DEF HwFinishes

-----------------------------------------------------------------------------
(* Where a port is noted.                                                  *)

\* Nothing changes but the places a port is noted in, and the operation that holds the gate.
Elsewhere ==
  /\ swap' = swap /\ wired' = wired /\ pls' = pls /\ changes' = changes /\ running' = running
  /\ BeingResumed' = BeingResumed /\ EmulateCSC' = EmulateCSC
  /\ armed' \cup fired' = armed \cup fired
  /\ seen' = seen /\ reported' = reported /\ upset' = upset

\* No port is forgotten that was noted.
LEMMA NotesKept ==
  ASSUME Inv, Elsewhere,
         events' \cup bitmap' \cup gated' = events \cup bitmap \cup gated,
         OpType', ReadStays',
         op.pc \in {"status", "again"} => op'.pc \in {"status", "again"} /\ op'.port = op.port
  PROVE  Inv'
<1>1. TypeOK /\ Noticed /\ Looked /\ ResumeNoted
  BY DEF Inv
<1>2. /\ swap' = swap /\ wired' = wired /\ pls' = pls /\ changes' = changes
      /\ BeingResumed' = BeingResumed /\ EmulateCSC' = EmulateCSC
      /\ armed' \cup fired' = armed \cup fired /\ seen' = seen /\ reported' = reported /\ upset' = upset
  BY DEF Elsewhere
<1>3. running' = running
  BY DEF Elsewhere
<1>4. TypeOK'
  <2>1. events' \subseteq Ports /\ bitmap' \subseteq Ports /\ gated' \subseteq Ports
        /\ armed' \subseteq Ports /\ fired' \subseteq Ports
    BY <1>1, <1>2 DEF TypeOK
  <2> QED
    BY <1>1, <1>2, <1>3, <2>1 DEF TypeOK
<1>5. Noticed'
  BY <1>1, <1>2, <1>3 DEF Noticed
<1>6. \A p \in Ports : WillLook(p) => WillLook(p)'
  BY <1>2 DEF WillLook
<1>7. Looked'
  BY <1>1, <1>2, <1>3, <1>6 DEF Looked, Unknown, Connected
<1>8. ResumeNoted'
  BY <1>1, <1>2, <1>3, <1>6 DEF ResumeNoted
<1> QED
  BY <1>4, <1>5, <1>7, <1>8 DEF Inv

\* The same with the operation that was under way.
LEMMA NotesMoved ==
  ASSUME Inv, Elsewhere, op' = op,
         events' \cup bitmap' \cup gated' = events \cup bitmap \cup gated,
         op.pc # "idle" => events' \cup bitmap' = events \cup bitmap
  PROVE  Inv'
<1>1. TypeOK /\ ReadStays
  BY DEF Inv
<1>2. pls' = pls /\ changes' = changes /\ seen' = seen
  BY DEF Elsewhere
<1>3. running' = running
  BY DEF Elsewhere
<1>4. ReadStays'
  BY <1>1, <1>2, <1>3 DEF ReadStays, Connected
<1>5. OpType'
  BY <1>1 DEF TypeOK, OpType
<1> QED
  BY <1>4, <1>5, NotesKept

\* FilterEventRing.
LEMMA FilterPortStatusChangeKeeps ==
  ASSUME Inv, NEW port \in Ports, FilterPortStatusChange(port) PROVE Inv'
<1>1. Elsewhere /\ op' = op
  BY DEF FilterPortStatusChange, Elsewhere, portVars, hubVars, histVars
<1>2. events' \cup bitmap' = events \cup bitmap /\ gated' = gated
  BY DEF FilterPortStatusChange
<1> QED
  BY <1>1, <1>2, NotesMoved

\* UIMRootHubStatusChange.
LEMMA UIMRootHubStatusChangeKeeps == ASSUME Inv, UIMRootHubStatusChange PROVE Inv'
<1>1. Elsewhere /\ op' = op
  BY DEF UIMRootHubStatusChange, Elsewhere, portVars, hwVars, histVars
<1>2. events' \cup bitmap' \cup gated' = events \cup bitmap \cup gated /\ op.pc = "idle"
  BY DEF UIMRootHubStatusChange, GateFree, hwVars
<1> QED
  BY <1>1, <1>2, NotesMoved

\* The thread call of a resume timer starts.
LEMMA TimerFiresKeeps == ASSUME Inv, NEW port \in Ports, TimerFires(port) PROVE Inv'
<1>1. Elsewhere /\ op' = op
  BY DEF TimerFires, Elsewhere, hwVars, hubVars, histVars
<1>2. events' = events /\ bitmap' = bitmap /\ gated' = gated
  BY DEF TimerFires, hwVars
<1> QED
  BY <1>1, <1>2, NotesMoved

\* An operation has the gate and reads the register of its port.
LEMMA PollReadKeeps == ASSUME Inv, NEW port \in Ports, PollRead(port) PROVE Inv'
<1>1. TypeOK /\ ResumeNoted
  BY DEF Inv
<1>2. Elsewhere /\ events' = events /\ bitmap' = bitmap /\ gated' = gated
  BY DEF PollRead, Elsewhere, hwVars, portVars, hubVars, histVars
<1>3. /\ op.pc = "idle"
      /\ op' = [pc |-> "poll", port |-> port, seen |-> {}, link |-> pls[port], tries |-> 0]
  BY DEF PollRead, GateFree, Idle
<1>4. running' = TRUE
  BY DEF PollRead, GateFree, hwVars
<1>5. pls' = pls /\ seen' = seen
  BY <1>2 DEF Elsewhere
<1>6. OpType'
  BY <1>1, <1>3 DEF OpType, TypeOK
<1>7. pls[port] = "U0" => pls[port] \in Quiet
  BY DEF Quiet
<1>8. pls[port] = "Resume" => seen[port] # "U0"
  BY <1>1 DEF ResumeNoted, Quiet
<1>9. ReadStays'
  BY <1>3, <1>4, <1>5, <1>7, <1>8 DEF ReadStays
<1> QED
  BY <1>2, <1>3, <1>6, <1>9, NotesKept

\* The register is read for a status.
LEMMA StatusReadKeeps ==
  ASSUME Inv, NEW port \in Ports, NEW tries \in Nat, tries <= Retries, StatusRead(port, tries), running,
         op.pc = "idle" \/ (op.pc = "again" /\ op.port = port)
  PROVE  Inv'
<1>1. TypeOK /\ ResumeNoted
  BY DEF Inv
<1>2. Elsewhere /\ events' = events /\ bitmap' = bitmap /\ gated' = gated
  BY DEF StatusRead, Elsewhere, hwVars, portVars, hubVars, histVars
<1>3. op' = [pc |-> "status", port |-> port, seen |-> changes[port], link |-> pls[port], tries |-> tries]
  BY DEF StatusRead
<1>4. running' = TRUE
  BY DEF StatusRead, hwVars
<1>5. pls' = pls /\ seen' = seen /\ changes' = changes
  BY <1>2 DEF Elsewhere
<1>6. OpType'
  BY <1>1, <1>3 DEF OpType, TypeOK
<1>7. pls[port] = "U0" => pls[port] \in Quiet
  BY DEF Quiet
<1>8. pls[port] = "Resume" => seen[port] # "U0"
  BY <1>1 DEF ResumeNoted, Quiet
<1>9. ReadStays'
  BY <1>3, <1>4, <1>5, <1>7, <1>8 DEF ReadStays, Connected
<1> QED
  BY <1>2, <1>3, <1>6, <1>9, NotesKept

\* GetRootHubPortStatus.
LEMMA GetRootHubPortStatusKeeps ==
  ASSUME Inv, NEW port \in Ports, GetRootHubPortStatus(port) PROVE Inv'
<1>1. 1 \in Nat /\ 1 <= Retries
  BY PortsAssumption
<1> QED
  BY <1>1, StatusReadKeeps DEF GetRootHubPortStatus, GateFree

\* All it saw was cleared: the register is read once more.
LEMMA StatusAgainKeeps == ASSUME Inv, StatusAgain PROVE Inv'
<1>1. op.port \in Ports /\ op.tries + 1 \in Nat /\ op.tries + 1 <= Retries
  BY PortsAssumption DEF Inv, TypeOK, OpType, ReadStays, StatusAgain
<1>2. running /\ op.pc = "again" /\ StatusRead(op.port, op.tries + 1)
  BY DEF Inv, ReadStays, StatusAgain
<1> QED
  BY <1>1, <1>2, StatusReadKeeps

-----------------------------------------------------------------------------
(* Writes of one port.                                                     *)

\* A write with LWS connects and disconnects nothing.
LEMMA WrittenLink ==
  ASSUME NEW link \in Links, NEW to
  PROVE  /\ Written(link, to) \in Links
         /\ Written(link, to) # "Rx" <=> link # "Rx"
         /\ to = "U0" => Written(link, to) \notin {"U3", "Resume"}
         /\ to = "none" => Written(link, to) = link
         /\ to # "U3" /\ Written(link, to) = "U3" => link = "U3"
         /\ link \in Quiet /\ to # "U3" => Written(link, to) = link
  BY DEF Written, Links, Quiet

\* The register after a write.
LEMMA WritePortDoes ==
  ASSUME Inv, NEW port \in Ports, NEW clear, NEW to, WritePort(port, clear, to)
  PROVE  /\ swap' = swap /\ wired' = wired /\ events' = events
         /\ pls' \in [Ports -> Links] /\ changes' \in [Ports -> SUBSET Bits]
         /\ pls'[port] = Written(pls[port], to) /\ changes'[port] = changes[port] \ clear
         /\ \A q \in Ports : q # port => pls'[q] = pls[q] /\ changes'[q] = changes[q]
<1>1. TypeOK
  BY DEF Inv
<1>2. Written(pls[port], to) \in Links
  BY <1>1, WrittenLink DEF TypeOK
<1>3. changes[port] \ clear \in SUBSET Bits
  BY <1>1 DEF TypeOK
<1>4. /\ changes' = [changes EXCEPT ![port] = changes[port] \ clear]
      /\ pls' = [pls EXCEPT ![port] = Written(pls[port], to)]
      /\ swap' = swap /\ wired' = wired /\ events' = events
  BY DEF WritePort
<1> QED
  BY <1>1, <1>2, <1>3, <1>4 DEF TypeOK

\* What an operation leaves as it is: the other ports, and where ports are noted.
OnlyPort(port) ==
  /\ swap' = swap /\ wired' = wired
  /\ events' = events /\ bitmap' = bitmap /\ gated' = gated /\ upset' = upset
  /\ \A q \in Ports : q # port =>
       /\ pls'[q] = pls[q] /\ changes'[q] = changes[q]
       /\ BeingResumed'[q] = BeingResumed[q] /\ EmulateCSC'[q] = EmulateCSC[q]
       /\ seen'[q] = seen[q] /\ reported'[q] = reported[q]
       /\ q \in armed' \cup fired' <=> q \in armed \cup fired

\* What it may do to its own: it sets no change bit, and hides none from the hub driver.
HidesNothing(port) ==
  /\ changes'[port] \subseteq changes[port]
  /\ pls'[port] # "Rx" <=> pls[port] # "Rx"
  /\ seen'[port] # "Rx" <=> seen[port] # "Rx"
  /\ seen[port] = "new" => seen'[port] = "new"
  /\ EmulateCSC'[port] /\ "CSC" \notin reported'[port] => EmulateCSC[port] /\ "CSC" \notin reported[port]

ResumeOf(port) ==
  /\ seen[port] = "U0" => ~BeingResumed[port] /\ pls[port] \in Quiet
  /\ upset = {} =>
       /\ pls[port] = "U3" => ~BeingResumed[port]
       /\ pls[port] = "Resume" /\ BeingResumed[port] => port \in armed \cup fired
       /\ pls[port] = "Resume" /\ ~BeingResumed[port] /\ running => WillLook(port)

\* An operation that does no more than that, and gives up the gate.
LEMMA OnlyPortKeeps ==
  ASSUME Inv, NEW port \in Ports, TypeOK', OnlyPort(port), HidesNothing(port), ResumeOf(port)',
         op.pc \in {"idle", "poll"}, op'.pc = "idle", running, running'
  PROVE  Inv'
<1>1. Noticed /\ Looked /\ ResumeNoted
  BY DEF Inv
<1>2. ReadStays'
  BY DEF ReadStays, Reading
<1>3. \A q \in Ports : changes'[q] \subseteq changes[q]
  BY DEF OnlyPort, HidesNothing
<1>4. Noticed'
  BY <1>1, <1>3 DEF Noticed, OnlyPort
<1>5. \A q \in Ports : seen[q] = "new" => seen'[q] = "new"
  BY DEF OnlyPort, HidesNothing
<1>6. \A q \in Ports : WillLook(q) => WillLook(q)'
  BY <1>5 DEF WillLook, OnlyPort
<1>7. Looked'
  <2>1. \A q \in Ports : Unknown(q)' => Unknown(q)
    <3> SUFFICES ASSUME NEW q \in Ports, Unknown(q)' PROVE Unknown(q)
      OBVIOUS
    <3>1. CASE q = port
      BY <3>1 DEF HidesNothing, Unknown, Connected
    <3>2. CASE q # port
      BY <3>2 DEF OnlyPort, Unknown, Connected
    <3> QED
      BY <3>1, <3>2
  <2> QED
    BY <1>1, <1>6, <2>1 DEF Looked, OnlyPort
<1>8. ResumeNoted'
  <2>1. \A q \in Ports : q # port => ResumeOf(q)'
    <3> SUFFICES ASSUME NEW q \in Ports, q # port PROVE ResumeOf(q)'
      OBVIOUS
    <3>1. ResumeOf(q)
      BY <1>1 DEF ResumeNoted, ResumeOf
    <3> QED
      BY <3>1, <1>6 DEF OnlyPort, ResumeOf
  <2>2. \A q \in Ports : ResumeOf(q)'
    BY <2>1
  <2> QED
    BY <2>2 DEF ResumeNoted, ResumeOf
<1> QED
  BY <1>2, <1>4, <1>7, <1>8 DEF Inv

\* ClearRootHubPortFeature of a change.
LEMMA XHCIRootHubClearPortChangeBitKeeps ==
  ASSUME Inv, NEW port \in Ports, NEW bit \in {"CSC", "PLC", "PRC"}, XHCIRootHubClearPortChangeBit(port, bit)
  PROVE  Inv'
<1>1. TypeOK /\ ResumeOf(port)
  BY DEF Inv, ResumeNoted, ResumeOf
<1>2. WritePort(port, {bit}, "none") /\ op.pc = "idle" /\ op' = op /\ running
  BY DEF XHCIRootHubClearPortChangeBit, GateFree
<1>3. running'
  BY <1>2 DEF WritePort
<1>4. /\ EmulateCSC' = [EmulateCSC EXCEPT ![port] = EmulateCSC[port] /\ bit # "CSC"]
      /\ reported' = [reported EXCEPT ![port] = reported[port] \ {bit}]
      /\ bitmap' = bitmap /\ gated' = gated /\ BeingResumed' = BeingResumed /\ armed' = armed
      /\ fired' = fired /\ seen' = seen /\ upset' = upset
  BY DEF XHCIRootHubClearPortChangeBit, histVars
<1>5. /\ EmulateCSC' \in [Ports -> BOOLEAN] /\ reported' \in [Ports -> SUBSET Bits]
      /\ EmulateCSC'[port] = (EmulateCSC[port] /\ bit # "CSC") /\ reported'[port] = reported[port] \ {bit}
      /\ \A q \in Ports : q # port => EmulateCSC'[q] = EmulateCSC[q] /\ reported'[q] = reported[q]
  BY <1>1, <1>4 DEF TypeOK
<1>6. pls'[port] = pls[port]
  BY <1>1, <1>2, WritePortDoes, WrittenLink DEF TypeOK
<1>7. TypeOK'
  BY <1>1, <1>2, <1>3, <1>4, <1>5, WritePortDoes DEF TypeOK, OpType
<1>8. OnlyPort(port)
  BY <1>2, <1>4, <1>5, WritePortDoes DEF OnlyPort
<1>9. HidesNothing(port)
  BY <1>1, <1>2, <1>4, <1>5, <1>6, WritePortDoes DEF HidesNothing
<1>10. ResumeOf(port)'
  BY <1>1, <1>2, <1>3, <1>4, <1>6, WritePortDoes DEF ResumeOf, WillLook
<1> QED
  BY <1>2, <1>3, <1>7, <1>8, <1>9, <1>10, OnlyPortKeeps

\* XHCIRootHubEnablePort: changes are cleared, the connection is not.
LEMMA DisablePortKeeps == ASSUME Inv, NEW port \in Ports, DisablePort(port) PROVE Inv'
<1>1. TypeOK /\ ResumeOf(port)
  BY DEF Inv, ResumeNoted, ResumeOf
<1>2. op.pc = "idle" /\ op' = op /\ running
  BY DEF DisablePort, GateFree
<1>3. running'
  BY <1>2 DEF DisablePort
<1>4. /\ pls' = [pls EXCEPT ![port] = IF @ = "Rx" THEN "Rx" ELSE "Poll"]
      /\ changes' = [changes EXCEPT ![port] = {}]
      /\ swap' = swap /\ wired' = wired /\ events' = events /\ bitmap' = bitmap /\ gated' = gated
      /\ BeingResumed' = BeingResumed /\ EmulateCSC' = EmulateCSC /\ armed' = armed /\ fired' = fired
      /\ seen' = seen /\ reported' = reported /\ upset' = upset
  BY DEF DisablePort, portVars, hubVars
<1>5. /\ pls' \in [Ports -> Links] /\ changes' \in [Ports -> SUBSET Bits]
      /\ pls'[port] = (IF pls[port] = "Rx" THEN "Rx" ELSE "Poll") /\ changes'[port] = {}
      /\ \A q \in Ports : q # port => pls'[q] = pls[q] /\ changes'[q] = changes[q]
  BY <1>1, <1>4 DEF TypeOK, Links
<1>6. TypeOK'
  BY <1>1, <1>2, <1>3, <1>4, <1>5 DEF TypeOK, OpType
<1>7. OnlyPort(port)
  BY <1>4, <1>5 DEF OnlyPort
<1>8. HidesNothing(port)
  BY <1>4, <1>5 DEF HidesNothing
<1>9. ResumeOf(port)'
  BY <1>1, <1>4, <1>5 DEF ResumeOf, Quiet
<1> QED
  BY <1>2, <1>3, <1>6, <1>7, <1>8, <1>9, OnlyPortKeeps

\* A reset.
LEMMA XHCIRootHubResetPortKeeps ==
  ASSUME Inv, NEW port \in Ports, XHCIRootHubResetPort(port) PROVE Inv'
<1>1. TypeOK /\ ResumeOf(port)
  BY DEF Inv, ResumeNoted, ResumeOf
<1>2. op.pc = "idle" /\ op' = op /\ running
  BY DEF XHCIRootHubResetPort, GateFree
<1>3. running'
  BY <1>2 DEF XHCIRootHubResetPort
<1>4. /\ pls' = [pls EXCEPT ![port] = IF @ = "Rx" THEN "Rx" ELSE "Reset"]
      /\ swap' = swap /\ wired' = wired /\ events' = events /\ bitmap' = bitmap /\ gated' = gated
      /\ BeingResumed' = BeingResumed /\ EmulateCSC' = EmulateCSC /\ armed' = armed /\ fired' = fired
      /\ seen' = seen /\ reported' = reported /\ upset' = upset /\ changes' = changes
  BY DEF XHCIRootHubResetPort, portVars, hubVars
<1>5. /\ pls' \in [Ports -> Links]
      /\ pls'[port] = (IF pls[port] = "Rx" THEN "Rx" ELSE "Reset")
      /\ \A q \in Ports : q # port => pls'[q] = pls[q]
  BY <1>1, <1>4 DEF TypeOK, Links
<1>6. TypeOK'
  BY <1>1, <1>2, <1>3, <1>4, <1>5 DEF TypeOK, OpType
<1>7. OnlyPort(port)
  BY <1>4, <1>5 DEF OnlyPort
<1>8. HidesNothing(port)
  BY <1>4, <1>5 DEF HidesNothing
<1>9. ResumeOf(port)'
  BY <1>1, <1>4, <1>5 DEF ResumeOf, Quiet
<1> QED
  BY <1>2, <1>3, <1>6, <1>7, <1>8, <1>9, OnlyPortKeeps

\* The hub driver suspends a port it saw enabled: BeingResumed is off in it.
LEMMA SuspendPortKeeps == ASSUME Inv, NEW port \in Ports, SuspendPort(port) PROVE Inv'
<1>1. TypeOK /\ ResumeOf(port)
  BY DEF Inv, ResumeNoted, ResumeOf
<1>2. WritePort(port, {"PLC"}, "U3") /\ op.pc = "idle" /\ op' = op /\ running /\ seen[port] = "U0"
  BY DEF SuspendPort, GateFree
<1>3. running'
  BY <1>2 DEF WritePort
<1>4. /\ seen' = [seen EXCEPT ![port] = "U3"]
      /\ bitmap' = bitmap /\ gated' = gated /\ upset' = upset /\ reported' = reported
      /\ BeingResumed' = BeingResumed /\ EmulateCSC' = EmulateCSC /\ armed' = armed /\ fired' = fired
  BY DEF SuspendPort, portVars
<1>5. /\ seen' \in [Ports -> Views] /\ seen'[port] = "U3"
      /\ \A q \in Ports : q # port => seen'[q] = seen[q]
  BY <1>1, <1>4 DEF TypeOK, Views
<1>6. ~BeingResumed[port] /\ pls[port] \in Quiet
  BY <1>1, <1>2 DEF ResumeOf
<1>7. pls'[port] = Written(pls[port], "U3") /\ Written(pls[port], "U3") \in {pls[port], "U3"}
  BY <1>2, WritePortDoes DEF Written
<1>8. TypeOK'
  BY <1>1, <1>2, <1>3, <1>4, <1>5, WritePortDoes DEF TypeOK, OpType
<1>9. OnlyPort(port)
  BY <1>2, <1>4, <1>5, WritePortDoes DEF OnlyPort
<1>10. pls'[port] # "Rx" <=> pls[port] # "Rx"
  BY <1>1, <1>7, WrittenLink DEF TypeOK
<1>11. HidesNothing(port)
  BY <1>2, <1>4, <1>5, <1>10, WritePortDoes DEF HidesNothing
<1>12. ResumeOf(port)'
  BY <1>4, <1>5, <1>6, <1>7 DEF ResumeOf, Quiet
<1> QED
  BY <1>2, <1>3, <1>8, <1>9, <1>11, <1>12, OnlyPortKeeps

\* The hub driver resumes a port it suspended.
LEMMA ResumePortKeeps == ASSUME Inv, NEW port \in Ports, ResumePort(port) PROVE Inv'
<1>1. TypeOK /\ ResumeOf(port)
  BY DEF Inv, ResumeNoted, ResumeOf
<1>2. op.pc = "idle" /\ op' = op /\ running /\ seen[port] = "U3"
  BY DEF ResumePort, GateFree
<1>3. /\ seen' = [seen EXCEPT ![port] = "busy"]
      /\ bitmap' = bitmap /\ gated' = gated /\ upset' = upset /\ reported' = reported
  BY DEF ResumePort
<1>4. /\ seen' \in [Ports -> Views] /\ seen'[port] = "busy"
      /\ \A q \in Ports : q # port => seen'[q] = seen[q]
  BY <1>1, <1>3 DEF TypeOK, Views
<1>5. CASE BeingResumed[port]
  <2>1. /\ swap' = swap /\ wired' = wired /\ events' = events /\ pls' = pls /\ changes' = changes
        /\ BeingResumed' = BeingResumed /\ EmulateCSC' = EmulateCSC /\ armed' = armed /\ fired' = fired
    BY <1>5 DEF ResumePort, hwVars, portVars
  <2>2. running' = running
    BY <1>5 DEF ResumePort, hwVars
  <2>3. TypeOK'
    BY <1>1, <1>2, <1>3, <1>4, <2>1, <2>2 DEF TypeOK, OpType
  <2>4. OnlyPort(port)
    BY <1>3, <1>4, <2>1 DEF OnlyPort
  <2>5. HidesNothing(port)
    BY <1>2, <1>3, <1>4, <2>1 DEF HidesNothing
  <2>6. ResumeOf(port)'
    BY <1>1, <1>3, <1>4, <1>5, <2>1 DEF ResumeOf
  <2> QED
    BY <1>2, <2>2, <2>3, <2>4, <2>5, <2>6, OnlyPortKeeps
<1>6. CASE ~BeingResumed[port]
  <2> DEFINE to == IF Protocol(port) = "SS" THEN "U0" ELSE "Resume"
  <2>1. /\ WritePort(port, {"PLC"}, to)
        /\ BeingResumed' = [BeingResumed EXCEPT ![port] = TRUE]
        /\ EmulateCSC' = EmulateCSC /\ fired' = fired
        /\ IF Protocol(port) = "HS" THEN armed' = armed \cup {port} ELSE armed' = armed
    BY <1>6 DEF ResumePort, Arm
  <2>2. Protocol(port) \in {"SS", "HS"}
    BY DEF Protocol, PortNumberCanonicalToProtocol
  <2>3. (to = "U0" /\ armed' = armed) \/ (to = "Resume" /\ armed' = armed \cup {port})
    BY <2>1, <2>2
  <2> HIDE DEF to
  <2>4. running'
    BY <1>2, <2>1 DEF WritePort
  <2>5. /\ BeingResumed' \in [Ports -> BOOLEAN] /\ BeingResumed'[port] = TRUE
        /\ \A q \in Ports : q # port => BeingResumed'[q] = BeingResumed[q]
    BY <1>1, <2>1 DEF TypeOK
  <2>6. armed \subseteq armed' /\ armed' \subseteq armed \cup {port}
    BY <2>3
  <2>7. TypeOK'
    BY <1>1, <1>2, <1>3, <1>4, <2>1, <2>4, <2>5, <2>6, WritePortDoes DEF TypeOK, OpType
  <2>8. OnlyPort(port)
    BY <1>3, <1>4, <2>1, <2>5, <2>6, WritePortDoes DEF OnlyPort
  <2>9. pls[port] \in Links /\ pls'[port] = Written(pls[port], to)
    BY <1>1, <2>1, WritePortDoes DEF TypeOK
  <2>10. HidesNothing(port)
    BY <1>2, <1>3, <1>4, <2>1, <2>9, WritePortDoes, WrittenLink DEF HidesNothing
  <2>11. pls'[port] # "U3" /\ (pls'[port] = "Resume" => port \in armed')
    BY <2>3, <2>9 DEF Written, Links
  <2>12. ResumeOf(port)'
    BY <1>4, <2>5, <2>11 DEF ResumeOf
  <2> QED
    BY <1>2, <2>4, <2>7, <2>8, <2>10, <2>12, OnlyPortKeeps
<1> QED
  BY <1>5, <1>6

\* RHResumePortCompletion ends the resume that BeingResumed stands for.
LEMMA RHResumePortCompletionKeeps ==
  ASSUME Inv, NEW port \in Ports, RHResumePortCompletion(port) PROVE Inv'
<1>1. TypeOK /\ ResumeOf(port)
  BY DEF Inv, ResumeNoted, ResumeOf
<1>2. op.pc = "idle" /\ op' = op /\ running
  BY DEF RHResumePortCompletion, GateFree
<1>3. /\ fired' = fired \ {port} /\ armed' = armed
      /\ bitmap' = bitmap /\ gated' = gated /\ upset' = upset /\ seen' = seen /\ reported' = reported
      /\ BeingResumed' = BeingResumed /\ EmulateCSC' = EmulateCSC
  BY DEF RHResumePortCompletion, hubVars, histVars
<1>4. CASE BeingResumed[port]
  <2>1. WritePort(port, {"PLC"}, "U0")
    BY <1>4 DEF RHResumePortCompletion
  <2>2. running'
    BY <1>2, <2>1 DEF WritePort
  <2>3. TypeOK'
    BY <1>1, <1>2, <1>3, <2>1, <2>2, WritePortDoes DEF TypeOK, OpType
  <2>4. OnlyPort(port)
    BY <1>3, <2>1, WritePortDoes DEF OnlyPort
  <2>5. pls[port] \in Links /\ pls'[port] = Written(pls[port], "U0")
    BY <1>1, <2>1, WritePortDoes DEF TypeOK
  <2>6. HidesNothing(port)
    BY <1>3, <2>1, <2>5, WritePortDoes, WrittenLink DEF HidesNothing
  <2>7. pls'[port] \notin {"U3", "Resume"}
    BY <2>5, WrittenLink
  <2>8. seen[port] # "U0"
    BY <1>1, <1>4 DEF ResumeOf
  <2>9. ResumeOf(port)'
    BY <1>3, <2>7, <2>8 DEF ResumeOf
  <2> QED
    BY <1>2, <2>2, <2>3, <2>4, <2>6, <2>9, OnlyPortKeeps
<1>5. CASE ~BeingResumed[port]
  <2>1. swap' = swap /\ wired' = wired /\ events' = events /\ pls' = pls /\ changes' = changes
    BY <1>5 DEF RHResumePortCompletion, hwVars
  <2>2. running' = running
    BY <1>5 DEF RHResumePortCompletion, hwVars
  <2>3. TypeOK'
    BY <1>1, <1>2, <1>3, <2>1, <2>2 DEF TypeOK, OpType
  <2>4. OnlyPort(port)
    BY <1>3, <2>1 DEF OnlyPort
  <2>5. HidesNothing(port)
    BY <1>3, <2>1 DEF HidesNothing
  <2>6. ResumeOf(port)'
    BY <1>1, <1>2, <1>3, <1>5, <2>1, <2>2 DEF ResumeOf, WillLook
  <2> QED
    BY <1>2, <2>2, <2>3, <2>4, <2>5, <2>6, OnlyPortKeeps
<1> QED
  BY <1>4, <1>5

-----------------------------------------------------------------------------
(* RHCheckForPortResume, with the link state that was read.                *)

Checks(port) ==
  /\ op.pc \in Reading /\ op.port = port
  /\ RHCheckForPortResume(port, op.link)
  /\ pls'[port] = Written(pls[port], ResumeTo(port, op.link))

\* The other ports' flags are as they were.
LEMMA CheckType ==
  ASSUME Inv, NEW port \in Ports, Checks(port)
  PROVE  /\ BeingResumed' \in [Ports -> BOOLEAN]
         /\ BeingResumed'[port] = IF BeingResumed[port] THEN op.link # "U0" ELSE op.link = "Resume"
         /\ EmulateCSC' = EmulateCSC /\ fired' = fired
         /\ armed \subseteq armed' /\ armed' \subseteq armed \cup {port}
         /\ \A q \in Ports : q # port => BeingResumed'[q] = BeingResumed[q]
<1>1. TypeOK
  BY DEF Inv
<1>2. BeingResumed' = [BeingResumed EXCEPT ![port] = IF @ THEN StillResumed(op.link) ELSE op.link = "Resume"]
  BY DEF Checks, RHCheckForPortResume
<1>3. EmulateCSC' = EmulateCSC /\ fired' = fired
  BY DEF Checks, RHCheckForPortResume
<1>4. armed' = armed \cup {port} \/ armed' = armed
  BY DEF Checks, RHCheckForPortResume, Arm
<1>5. (IF BeingResumed[port] THEN StillResumed(op.link) ELSE op.link = "Resume") \in BOOLEAN
  BY DEF StillResumed
<1>6. /\ BeingResumed' \in [Ports -> BOOLEAN]
      /\ BeingResumed'[port] = IF BeingResumed[port] THEN StillResumed(op.link) ELSE op.link = "Resume"
      /\ \A q \in Ports : q # port => BeingResumed'[q] = BeingResumed[q]
  BY <1>1, <1>2, <1>5 DEF TypeOK
<1> QED
  BY <1>3, <1>4, <1>6 DEF StillResumed

\* The resume of the port is as it should be after a check, or the device woke since the read.
LEMMA CheckResume ==
  ASSUME Inv, NEW port \in Ports, Checks(port)
  PROVE  /\ pls'[port] # "Rx" <=> pls[port] # "Rx"
         /\ op.link = "U0" => ~BeingResumed'[port] /\ pls'[port] \in Quiet
         /\ seen[port] = "U0" => ~BeingResumed'[port] /\ pls'[port] \in Quiet
         /\ upset = {} =>
              /\ pls'[port] = "U3" => ~BeingResumed'[port]
              /\ pls'[port] = "Resume" /\ BeingResumed'[port] => port \in armed' \cup fired'
              /\ pls'[port] = "Resume" /\ ~BeingResumed'[port] =>
                   pls[port] = "Resume" /\ ~BeingResumed[port] /\ op.link # "Resume"
<1> DEFINE to == ResumeTo(port, op.link)
<1>1. ReadStays /\ ResumeOf(port) /\ pls[port] \in Links
  BY DEF Inv, ResumeNoted, ResumeOf, TypeOK
<1>2. /\ op.link = "U0" => pls[port] \in Quiet
      /\ op.link = "Resume" => pls[port] # "U3" /\ seen[port] # "U0"
  BY <1>1 DEF ReadStays, Checks
<1>3. to \in {"U0", "none"} /\ (op.link # "Resume" \/ BeingResumed[port] => to = "none")
  BY DEF ResumeTo, DeviceResumes
<1>4. op.link = "Resume" /\ ~BeingResumed[port] /\ to = "none" => port \in armed'
  <2>1. Protocol(port) \in {"SS", "HS"}
    BY DEF Protocol, PortNumberCanonicalToProtocol
  <2> QED
    BY <2>1 DEF ResumeTo, DeviceResumes, Checks, RHCheckForPortResume, Arm
<1>5. pls'[port] = Written(pls[port], to)
  BY DEF Checks
<1> HIDE DEF to
<1>6. /\ pls'[port] # "Rx" <=> pls[port] # "Rx"
      /\ pls'[port] = "U3" => pls[port] = "U3"
      /\ pls[port] \in Quiet => pls'[port] = pls[port]
      /\ pls'[port] = "Resume" => to = "none" /\ pls[port] = "Resume"
  BY <1>1, <1>3, <1>5, WrittenLink
<1>7. BeingResumed'[port] = IF BeingResumed[port] THEN op.link # "U0" ELSE op.link = "Resume"
  BY CheckType
<1>8. fired' = fired /\ armed \subseteq armed'
  BY CheckType
<1>9. op.link = "U0" => ~BeingResumed'[port] /\ pls'[port] \in Quiet
  BY <1>2, <1>6, <1>7
<1>10. seen[port] = "U0" => ~BeingResumed'[port] /\ pls'[port] \in Quiet
  BY <1>1, <1>2, <1>6, <1>7 DEF ResumeOf
<1>11. ASSUME upset = {}, pls'[port] = "U3" PROVE ~BeingResumed'[port]
  BY <1>1, <1>2, <1>6, <1>7, <1>11 DEF ResumeOf
<1>12. ASSUME upset = {}, pls'[port] = "Resume", BeingResumed'[port] PROVE port \in armed' \cup fired'
  BY <1>1, <1>4, <1>6, <1>7, <1>8, <1>12 DEF ResumeOf
<1>13. ASSUME pls'[port] = "Resume", ~BeingResumed'[port]
       PROVE  pls[port] = "Resume" /\ ~BeingResumed[port] /\ op.link # "Resume"
  BY <1>2, <1>6, <1>7, <1>13 DEF Quiet
<1> QED
  BY <1>6, <1>9, <1>10, <1>11, <1>12, <1>13

\* RHCheckForPortResumes after an event.
LEMMA PollCheckKeeps == ASSUME Inv, PollCheck PROVE Inv'
<1>1. PICK port \in Ports : port = op.port
  BY DEF Inv, TypeOK, OpType
<1>2. TypeOK /\ ReadStays /\ ResumeOf(port)
  BY DEF Inv, ResumeNoted, ResumeOf
<1>3. op.pc = "poll" /\ running
  BY <1>2 DEF PollCheck, ReadStays
<1>4. WritePort(port, ResumeClears(port, op.link), ResumeTo(port, op.link))
  BY <1>1 DEF PollCheck
<1>5. Checks(port)
  BY <1>1, <1>4, WritePortDoes DEF PollCheck, Checks, Reading
<1>6. running'
  BY <1>3, <1>4 DEF WritePort
<1>7. /\ op' = Idle /\ bitmap' = bitmap /\ gated' = gated /\ seen' = seen /\ reported' = reported
      /\ upset' = upset
  BY DEF PollCheck, hubVars, histVars
<1>8. OpType' /\ op'.pc = "idle"
  <2>1. 0 \in Ports
    BY SizeOfRange DEF Ports
  <2> QED
    BY <1>7, <2>1 DEF OpType, Idle, Links
<1>9. TypeOK'
  <2>1. armed' \subseteq Ports
    BY <1>2, <1>5, CheckType DEF TypeOK
  <2> QED
    BY <1>2, <1>4, <1>5, <1>6, <1>7, <1>8, <2>1, WritePortDoes, CheckType DEF TypeOK
<1>10. OnlyPort(port)
  BY <1>4, <1>5, <1>7, WritePortDoes, CheckType DEF OnlyPort
<1>11. HidesNothing(port)
  BY <1>4, <1>5, <1>7, WritePortDoes, CheckType, CheckResume DEF HidesNothing
<1>12. ResumeOf(port)'
  <2>1. WillLook(port) => WillLook(port)'
    BY <1>3, <1>4, <1>7, WritePortDoes DEF WillLook
  <2> QED
    BY <1>2, <1>3, <1>5, <1>7, <2>1, CheckResume DEF ResumeOf
<1> QED
  BY <1>3, <1>6, <1>8, <1>9, <1>10, <1>11, <1>12, OnlyPortKeeps

-----------------------------------------------------------------------------
(* GetRootHubPortStatus once it has read the register.                      *)

\* What it does to the registers and flags, whether it starts over or not.
StatusWrites(port, clear) ==
  /\ Checks(port) /\ op.pc = "status" /\ running /\ running'
  /\ WritePort(port, clear, ResumeTo(port, op.link))
  /\ bitmap' = bitmap

\* The flags and registers have their types, and other ports are let be.
LEMMA StatusTypes ==
  ASSUME Inv, NEW port \in Ports, NEW clear, StatusWrites(port, clear),
         OpType', gated' \subseteq gated, gated \subseteq gated' \cup {port},
         seen' \in [Ports -> Views], reported' \in [Ports -> SUBSET Bits],
         upset' \subseteq {"gaveUp", "flagKept"}, upset \subseteq upset',
         \A q \in Ports : q # port => seen'[q] = seen[q] /\ reported'[q] = reported[q]
  PROVE  /\ TypeOK'
         /\ changes'[port] = changes[port] \ clear
         /\ \A q \in Ports : q # port => (WillLook(q) => WillLook(q)')
         /\ \A q \in Ports : q # port /\ changes'[q] # {} => q \in events' \cup bitmap' \cup gated'
         /\ "gaveUp" \notin upset' => \A q \in Ports : q # port => (Unknown(q)' => WillLook(q)')
         /\ \A q \in Ports : q # port => ResumeOf(q)'
<1>1. TypeOK /\ Noticed /\ Looked /\ ResumeNoted
  BY DEF Inv
<1>2. Checks(port) /\ WritePort(port, clear, ResumeTo(port, op.link)) /\ running /\ running'
      /\ op.pc = "status" /\ op.port = port /\ bitmap' = bitmap
  BY DEF StatusWrites, Checks
<1>3. /\ swap' = swap /\ wired' = wired /\ events' = events
      /\ pls' \in [Ports -> Links] /\ changes' \in [Ports -> SUBSET Bits]
      /\ changes'[port] = changes[port] \ clear
      /\ \A q \in Ports : q # port => pls'[q] = pls[q] /\ changes'[q] = changes[q]
  BY <1>2, WritePortDoes
<1>4. /\ BeingResumed' \in [Ports -> BOOLEAN] /\ EmulateCSC' = EmulateCSC /\ fired' = fired
      /\ armed \subseteq armed' /\ armed' \subseteq armed \cup {port}
      /\ \A q \in Ports : q # port => BeingResumed'[q] = BeingResumed[q]
  BY <1>2, CheckType
<1>5. TypeOK'
  BY <1>1, <1>2, <1>3, <1>4 DEF TypeOK
<1>6. \A q \in Ports : q # port => (WillLook(q) => WillLook(q)')
  BY <1>2, <1>3 DEF WillLook
<1>7. \A q \in Ports : q # port /\ changes'[q] # {} => q \in events' \cup bitmap' \cup gated'
  BY <1>1, <1>2, <1>3 DEF Noticed
<1>8. ASSUME "gaveUp" \notin upset', NEW q \in Ports, q # port, Unknown(q)' PROVE WillLook(q)'
  <2>1. Unknown(q) /\ "gaveUp" \notin upset
    BY <1>3, <1>4, <1>8 DEF Unknown, Connected
  <2>2. WillLook(q)
    BY <1>1, <1>2, <2>1 DEF Looked
  <2> QED
    BY <1>6, <1>8, <2>2
<1>9. ASSUME NEW q \in Ports, q # port PROVE ResumeOf(q)'
  <2>1. ResumeOf(q)
    BY <1>1 DEF ResumeNoted, ResumeOf
  <2>2. upset' = {} => upset = {}
    OBVIOUS
  <2> QED
    BY <1>2, <1>3, <1>4, <1>6, <1>9, <2>1, <2>2 DEF ResumeOf
<1> QED
  BY <1>3, <1>5, <1>6, <1>7, <1>8, <1>9

\* The invariant from what holds of the port and what holds of the others.
LEMMA StatusKeeps ==
  ASSUME Inv, NEW port \in Ports, NEW clear, StatusWrites(port, clear),
         OpType', gated' \subseteq gated, gated \subseteq gated' \cup {port},
         seen' \in [Ports -> Views], reported' \in [Ports -> SUBSET Bits],
         upset' \subseteq {"gaveUp", "flagKept"}, upset \subseteq upset',
         \A q \in Ports : q # port => seen'[q] = seen[q] /\ reported'[q] = reported[q],
         ReadStays',
         changes'[port] # {} => port \in events' \cup bitmap' \cup gated',
         "gaveUp" \notin upset' => (Unknown(port)' => WillLook(port)'),
         ResumeOf(port)'
  PROVE  Inv'
<1>1. TypeOK'
  BY StatusTypes
<1>2. Noticed'
  <2>1. \A q \in Ports : changes'[q] # {} => q \in events' \cup bitmap' \cup gated'
    BY StatusTypes
  <2> QED
    BY <2>1 DEF Noticed
<1>3. Looked'
  <2>1. "gaveUp" \notin upset' => \A q \in Ports : Unknown(q)' => WillLook(q)'
    BY StatusTypes
  <2> QED
    BY <2>1 DEF Looked
<1>4. ResumeNoted'
  <2>1. \A q \in Ports : ResumeOf(q)'
    BY StatusTypes
  <2> QED
    BY <2>1 DEF ResumeNoted, ResumeOf
<1> QED
  BY <1>1, <1>2, <1>3, <1>4 DEF Inv

\* A status that was read while the xHC went on is the last word only if a change bit is left.
LEMMA StatusCheckKeeps == ASSUME Inv, StatusCheck PROVE Inv'
<1>1. PICK port \in Ports : port = op.port
  BY DEF Inv, TypeOK, OpType
<1>2. TypeOK /\ ReadStays /\ Noticed /\ op.pc = "status" /\ running
  BY DEF Inv, StatusCheck, ReadStays
<1> DEFINE giveUp == MustRetry /\ op.tries = Retries
           again == MustRetry /\ op.tries < Retries
           clear == IF giveUp THEN changes[port]
                    ELSE (op.seen \cap {Invalid}) \cup ResumeClears(port, op.link)
<1>3. /\ WritePort(port, clear, ResumeTo(port, op.link))
      /\ RHCheckForPortResume(port, op.link) /\ bitmap' = bitmap
      /\ IF again THEN op' = [op EXCEPT !.pc = "again"] /\ gated' = gated /\ seen' = seen /\ reported' = reported
         ELSE /\ op' = Idle
              /\ gated' = IF ChangeFlags = {} THEN gated \ {port} ELSE gated
              /\ seen' = [seen EXCEPT ![port] = View(op.link)]
              /\ reported' = [reported EXCEPT ![port] = ChangeFlags]
      /\ upset' = IF giveUp THEN upset \cup {"gaveUp"} ELSE upset
  BY <1>1 DEF StatusCheck, Step
<1>4. StatusWrites(port, clear)
  <2>1. Checks(port)
    BY <1>1, <1>2, <1>3, WritePortDoes DEF Checks, Reading
  <2>2. running'
    BY <1>2, <1>3 DEF WritePort
  <2> QED
    BY <1>2, <1>3, <2>1, <2>2 DEF StatusWrites
<1>5. MustRetry \in BOOLEAN /\ (MustRetry => again \/ giveUp)
  BY <1>2, PortsAssumption DEF MustRetry, ReadStays, TypeOK, OpType
<1>6. ChangeFlags \in SUBSET Bits /\ View(op.link) \in Views
  BY <1>2 DEF ChangeFlags, View, Views, Bits, TypeOK, OpType
<1>7. Checks(port) /\ changes'[port] = changes[port] \ clear /\ events' = events /\ running'
  BY <1>3, <1>4, WritePortDoes DEF StatusWrites
<1>8. upset' \subseteq {"gaveUp", "flagKept"} /\ upset \subseteq upset'
  BY <1>2, <1>3 DEF TypeOK
<1> HIDE DEF clear
<1>9. CASE again
  <2>1. op' = [op EXCEPT !.pc = "again"] /\ gated' = gated /\ seen' = seen /\ reported' = reported
    BY <1>3, <1>9
  <2>2. OpType' /\ op'.pc = "again" /\ op'.port = port /\ op'.tries = op.tries
    BY <1>1, <1>2, <2>1 DEF TypeOK, OpType
  <2>3. ReadStays'
    BY <1>7, <1>9, <2>2 DEF ReadStays, Reading
  <2>4. WillLook(port)'
    BY <2>2 DEF WillLook
  <2>5. changes'[port] # {} => port \in events' \cup bitmap' \cup gated'
    BY <1>2, <1>3, <1>7, <2>1 DEF Noticed
  <2>6. ResumeOf(port)'
    BY <1>7, <1>8, <2>1, <2>4, CheckResume DEF ResumeOf
  <2>7. seen' \in [Ports -> Views] /\ reported' \in [Ports -> SUBSET Bits]
    BY <1>2, <2>1 DEF TypeOK
  <2> QED
    BY <1>4, <1>8, <2>1, <2>2, <2>3, <2>4, <2>5, <2>6, <2>7, StatusKeeps
<1>10. CASE ~again
  <2>1. /\ op' = Idle
        /\ gated' = IF ChangeFlags = {} THEN gated \ {port} ELSE gated
        /\ seen' = [seen EXCEPT ![port] = View(op.link)]
        /\ reported' = [reported EXCEPT ![port] = ChangeFlags]
    BY <1>3, <1>10
  <2>2. OpType' /\ op'.pc = "idle" /\ ReadStays'
    <3>1. 0 \in Ports
      BY SizeOfRange DEF Ports
    <3> QED
      BY <2>1, <3>1 DEF OpType, Idle, Links, ReadStays, Reading
  <2>3. /\ seen' \in [Ports -> Views] /\ reported' \in [Ports -> SUBSET Bits]
        /\ seen'[port] = View(op.link) /\ reported'[port] = ChangeFlags
        /\ \A q \in Ports : q # port => seen'[q] = seen[q] /\ reported'[q] = reported[q]
    BY <1>2, <1>6, <2>1 DEF TypeOK
  <2>4. gated' \subseteq gated /\ gated \subseteq gated' \cup {port}
    BY <2>1
  <2>5. /\ View(op.link) = "U0" <=> op.link = "U0"
        /\ View(op.link) # "Rx" <=> op.link # "Rx"
    BY DEF View
  <2>6. changes'[port] # {} => port \in events' \cup bitmap' \cup gated'
    <3>1. CASE giveUp
      BY <3>1, <1>7 DEF clear
    <3>2. CASE ~giveUp /\ ChangeFlags # {}
      BY <3>2, <1>2, <1>3, <1>7, <2>1 DEF Noticed
    <3>3. CASE ~giveUp /\ ChangeFlags = {}
      <4>1. op.seen = {}
        BY <3>3, <1>5, <1>10 DEF MustRetry
      <4> QED
        BY <4>1, <1>1, <1>2, <1>3, <1>7 DEF ReadStays
    <3> QED
      BY <3>1, <3>2, <3>3
  <2>7. ASSUME "gaveUp" \notin upset', Unknown(port)' PROVE WillLook(port)'
    <3>1. ~giveUp
      BY <2>7, <1>3
    <3>2. "CSC" \notin clear
      BY <3>1 DEF clear, ResumeClears, Invalid
    <3>3. pls'[port] # "Rx" <=> pls[port] # "Rx"
      BY <1>7, CheckResume
    <3>4. EmulateCSC' = EmulateCSC
      BY <1>7, CheckType
    <3>5. Connected(port) # (op.link # "Rx")
      <4>1. CASE pls[port] # "Rx" /\ EmulateCSC[port] /\ "CSC" \notin ChangeFlags
        BY <4>1, <1>1 DEF ChangeFlags, Connected
      <4>2. CASE (pls[port] # "Rx") # (op.link # "Rx")
        BY <4>2 DEF Connected
      <4> QED
        BY <2>3, <2>5, <2>7, <3>3, <3>4, <4>1, <4>2 DEF Unknown, Connected
    <3>6. "CSC" \in changes'[port]
      BY <1>1, <1>2, <1>7, <3>2, <3>5 DEF ReadStays
    <3> QED
      BY <2>6, <3>6 DEF WillLook
  <2>8. ResumeOf(port)'
    <3>1. ASSUME upset' = {}, pls'[port] = "Resume", ~BeingResumed'[port] PROVE WillLook(port)'
      <4>1. pls[port] = "Resume" /\ op.link # "Resume" /\ ~giveUp
        BY <1>3, <1>7, <1>8, <3>1, CheckResume
      <4>2. "PLC" \in changes[port]
        BY <1>1, <1>2, <4>1 DEF ReadStays
      <4>3. "PLC" \notin clear
        BY <4>1 DEF clear, ResumeClears, DeviceResumes, Invalid
      <4> QED
        BY <1>7, <2>6, <4>2, <4>3 DEF WillLook
    <3>2. upset' = {} => upset = {}
      BY <1>8
    <3> QED
      BY <1>7, <2>3, <2>5, <3>1, <3>2, CheckResume DEF ResumeOf
  <2> QED
    BY <1>4, <1>8, <2>2, <2>3, <2>4, <2>6, <2>7, <2>8, StatusKeeps
<1> QED
  BY <1>9, <1>10

-----------------------------------------------------------------------------
(* Sleep.                                                                  *)

\* ControllerSleep suspends ports, and connects and disconnects none.
LEMMA ControllerSleepKeeps == ASSUME Inv, ControllerSleep PROVE Inv'
<1>1. TypeOK /\ Noticed /\ Looked /\ ResumeNoted
  BY DEF Inv
<1>2. op.pc = "idle" /\ op' = op /\ running /\ running' = FALSE
  BY DEF ControllerSleep, GateFree
<1>3. /\ pls' = [p \in Ports |-> Written(pls[p], "U3")]
      /\ upset' = IF \E p \in Ports : pls'[p] # pls[p] /\ BeingResumed[p] THEN upset \cup {"flagKept"} ELSE upset
      /\ seen' = [p \in Ports |-> IF seen[p] \in {"new", "Rx"} THEN seen[p] ELSE "U3"]
      /\ swap' = swap /\ wired' = wired /\ changes' = changes /\ events' = events /\ bitmap' = bitmap
      /\ gated' = gated /\ BeingResumed' = BeingResumed /\ EmulateCSC' = EmulateCSC /\ armed' = armed
      /\ fired' = fired /\ reported' = reported
  BY DEF ControllerSleep, portVars
<1>4. \A p \in Ports : /\ pls'[p] \in Links
                       /\ pls'[p] # "Rx" <=> pls[p] # "Rx"
                       /\ pls'[p] = pls[p] \/ pls'[p] = "U3"
  <2> SUFFICES ASSUME NEW p \in Ports
               PROVE  /\ pls'[p] \in Links
                      /\ pls'[p] # "Rx" <=> pls[p] # "Rx"
                      /\ pls'[p] = pls[p] \/ pls'[p] = "U3"
    OBVIOUS
  <2>1. pls'[p] = Written(pls[p], "U3") /\ pls[p] \in Links
    BY <1>1, <1>3 DEF TypeOK
  <2> QED
    BY <2>1, WrittenLink DEF Written
<1>5. \A p \in Ports : seen'[p] = IF seen[p] \in {"new", "Rx"} THEN seen[p] ELSE "U3"
  BY <1>3
<1>6. TypeOK'
  <2>1. pls' \in [Ports -> Links]
    BY <1>3, <1>4
  <2>2. seen' \in [Ports -> Views]
    BY <1>1, <1>3 DEF TypeOK, Views
  <2>3. upset' \subseteq {"gaveUp", "flagKept"}
    BY <1>1, <1>3 DEF TypeOK
  <2> QED
    BY <1>1, <1>2, <1>3, <2>1, <2>2, <2>3 DEF TypeOK, OpType
<1>7. ReadStays'
  BY <1>2 DEF ReadStays, Reading
<1>8. Noticed'
  BY <1>2 DEF Noticed
<1>9. Looked'
  <2>1. \A p \in Ports : WillLook(p) => WillLook(p)'
    BY <1>2, <1>3, <1>5 DEF WillLook
  <2>2. \A p \in Ports : Unknown(p)' => Unknown(p)
    BY <1>3, <1>4, <1>5 DEF Unknown, Connected
  <2>3. "gaveUp" \notin upset' => "gaveUp" \notin upset
    BY <1>3
  <2> QED
    BY <1>1, <1>2, <2>1, <2>2, <2>3 DEF Looked
<1>10. ResumeNoted'
  <2>1. \A p \in Ports : seen'[p] # "U0"
    BY <1>5
  <2>2. ASSUME upset' = {}, NEW p \in Ports
        PROVE  /\ pls'[p] = "U3" => ~BeingResumed[p]
               /\ pls'[p] = "Resume" /\ BeingResumed[p] => p \in armed \cup fired
    <3>1. upset = {} /\ (pls'[p] # pls[p] => ~BeingResumed[p])
      BY <1>3, <2>2
    <3> QED
      BY <1>1, <1>4, <3>1 DEF ResumeNoted
  <2> QED
    BY <1>2, <1>3, <2>1, <2>2 DEF ResumeNoted
<1> QED
  BY <1>6, <1>7, <1>8, <1>9, <1>10 DEF Inv

\* RestoreControllerStateFromSleep leaves every connection change to be found, and sees to the
\* ports that resume.
LEMMA RestoreControllerStateFromSleepKeeps == ASSUME Inv, RestoreControllerStateFromSleep PROVE Inv'
<1>1. TypeOK /\ ReadStays /\ Looked /\ ResumeNoted
  BY DEF Inv
<1>2. ~running /\ running' /\ op.pc = "idle" /\ op' = op
  BY <1>1 DEF RestoreControllerStateFromSleep, Run, ReadStays
<1>3. PICK resumes \in SUBSET Ports :
        /\ resumes = {p \in Ports : "CSC" \notin changes[p] /\ DeviceResumes(p, pls[p])}
        /\ BeingResumed' = [p \in Ports |-> p \in resumes \/ BeingResumed[p]]
        /\ armed' = armed \cup {p \in resumes : Protocol(p) = "HS"}
        /\ changes' = [p \in Ports |->
                        IF p \in resumes THEN changes[p] \ {"PLC"}
                        ELSE IF "CSC" \in changes[p] /\ Enabled(p) /\ Protocol(p) = "SS"
                        THEN changes[p] \ {Invalid} ELSE changes[p]]
        /\ pls' = [p \in Ports |-> IF p \in resumes /\ Protocol(p) = "SS" THEN "Recovery" ELSE pls[p]]
  BY DEF RestoreControllerStateFromSleep
<1>4. /\ events' = events \cup {p \in Ports : changes'[p] # {}}
      /\ swap' = swap /\ wired' = wired /\ bitmap' = bitmap /\ gated' = gated /\ EmulateCSC' = EmulateCSC
      /\ fired' = fired /\ seen' = seen /\ reported' = reported /\ upset' = upset
  BY DEF RestoreControllerStateFromSleep, Run, hubVars, histVars
<1>5. \A p \in Ports : /\ pls'[p] # "Rx" <=> pls[p] # "Rx"
                       /\ p \notin resumes => pls'[p] = pls[p] /\ BeingResumed'[p] = BeingResumed[p]
                       /\ p \in resumes => BeingResumed'[p] /\ pls'[p] \in {"Recovery", "Resume"}
                       /\ p \in resumes => pls[p] = "Resume" /\ "CSC" \notin changes[p]
                       /\ "CSC" \in changes[p] => "CSC" \in changes'[p]
  <2> SUFFICES ASSUME NEW p \in Ports
               PROVE  /\ pls'[p] # "Rx" <=> pls[p] # "Rx"
                      /\ p \notin resumes => pls'[p] = pls[p] /\ BeingResumed'[p] = BeingResumed[p]
                      /\ p \in resumes => BeingResumed'[p] /\ pls'[p] \in {"Recovery", "Resume"}
                      /\ p \in resumes => pls[p] = "Resume" /\ "CSC" \notin changes[p]
                      /\ "CSC" \in changes[p] => "CSC" \in changes'[p]
    OBVIOUS
  <2>1. p \in resumes => pls[p] = "Resume" /\ "CSC" \notin changes[p]
    BY <1>3 DEF DeviceResumes
  <2>2. pls'[p] = IF p \in resumes /\ Protocol(p) = "SS" THEN "Recovery" ELSE pls[p]
    BY <1>3
  <2>3. p \notin resumes => BeingResumed'[p] = BeingResumed[p]
    BY <1>1, <1>3 DEF TypeOK
  <2>4. p \in resumes => BeingResumed'[p]
    BY <1>3
  <2>5. "CSC" \in changes[p] => "CSC" \in changes'[p]
    BY <1>3, <2>1 DEF Invalid
  <2> QED
    BY <2>1, <2>2, <2>3, <2>4, <2>5
<1>6. \A p \in resumes : pls'[p] = "Resume" => p \in armed'
  <2> SUFFICES ASSUME NEW p \in resumes, pls'[p] = "Resume" PROVE p \in armed'
    OBVIOUS
  <2>1. Protocol(p) # "SS"
    BY <1>3
  <2>2. Protocol(p) \in {"SS", "HS"}
    BY DEF Protocol, PortNumberCanonicalToProtocol
  <2> QED
    BY <1>3, <2>1, <2>2
<1>7. TypeOK'
  <2>1. pls' \in [Ports -> Links]
    BY <1>1, <1>3 DEF TypeOK, Links
  <2>2. changes' \in [Ports -> SUBSET Bits]
    BY <1>1, <1>3 DEF TypeOK
  <2>3. BeingResumed' \in [Ports -> BOOLEAN]
    BY <1>1, <1>3 DEF TypeOK
  <2>4. armed' \subseteq Ports /\ events' \subseteq Ports
    BY <1>1, <1>3, <1>4 DEF TypeOK
  <2> QED
    BY <1>1, <1>2, <1>4, <2>1, <2>2, <2>3, <2>4 DEF TypeOK, OpType
<1>8. ReadStays'
  BY <1>2 DEF ReadStays, Reading
<1>9. Noticed'
  BY <1>4 DEF Noticed
<1>10. \A p \in Ports : WillLook(p) => WillLook(p)'
  BY <1>2, <1>4 DEF WillLook
<1>11. \A p \in Ports : changes'[p] # {} => WillLook(p)'
  BY <1>4 DEF WillLook
<1>12. Looked'
  <2>1. \A p \in Ports : Unknown(p)' => Unknown(p)
    BY <1>4, <1>5 DEF Unknown, Connected
  <2> SUFFICES ASSUME "gaveUp" \notin upset', NEW p \in Ports, Unknown(p)' PROVE WillLook(p)'
    BY DEF Looked
  <2>2. WillLook(p) \/ "CSC" \in changes[p]
    BY <1>1, <1>4, <2>1 DEF Looked
  <2>3. "CSC" \in changes[p] => changes'[p] # {}
    BY <1>5
  <2> QED
    BY <1>10, <1>11, <2>2, <2>3
<1>13. ResumeNoted'
  <2>1. ASSUME NEW p \in Ports, seen'[p] = "U0" PROVE ~BeingResumed'[p] /\ pls'[p] \in Quiet
    <3>1. ~BeingResumed[p] /\ pls[p] \in Quiet
      BY <1>1, <1>4, <2>1 DEF ResumeNoted
    <3>2. p \notin resumes
      BY <1>5, <3>1 DEF Quiet
    <3> QED
      BY <1>5, <3>1, <3>2
  <2>2. ASSUME upset' = {}, NEW p \in Ports
        PROVE  /\ pls'[p] = "U3" => ~BeingResumed'[p]
               /\ pls'[p] = "Resume" /\ BeingResumed'[p] => p \in armed' \cup fired'
               /\ pls'[p] = "Resume" /\ ~BeingResumed'[p] => WillLook(p)'
    <3>1. CASE p \in resumes
      BY <3>1, <1>5, <1>6
    <3>2. CASE p \notin resumes
      <4>1. pls'[p] = pls[p] /\ BeingResumed'[p] = BeingResumed[p] /\ armed \cup fired \subseteq armed' \cup fired'
        BY <1>3, <1>4, <1>5, <3>2
      <4>2. /\ pls[p] = "U3" => ~BeingResumed[p]
            /\ pls[p] = "Resume" /\ BeingResumed[p] => p \in armed \cup fired
        BY <1>1, <1>4, <2>2 DEF ResumeNoted
      <4>3. pls[p] = "Resume" /\ ~BeingResumed[p] => changes'[p] # {}
        BY <1>3, <1>5, <3>2 DEF DeviceResumes
      <4> QED
        BY <1>11, <4>1, <4>2, <4>3
    <3> QED
      BY <3>1, <3>2
  <2> QED
    BY <2>1, <2>2 DEF ResumeNoted
<1> QED
  BY <1>7, <1>8, <1>9, <1>12, <1>13 DEF Inv

\* After a failed restore every port with a device has its change set or emulated.
LEMMA RestartControllerFromResetKeeps == ASSUME Inv, RestartControllerFromReset PROVE Inv'
<1>1. TypeOK /\ ReadStays
  BY DEF Inv
<1>2. ~running /\ op.pc = "idle" /\ op' = op
  BY <1>1 DEF RestartControllerFromReset, ReadStays
<1>3. running' = TRUE
  BY DEF RestartControllerFromReset
<1>4. PICK csc \in SUBSET {p \in Ports : Connected(p)} :
        /\ changes' = [p \in Ports |-> IF p \in csc THEN {"CSC"} ELSE {}]
        /\ EmulateCSC' = [p \in Ports |-> p \in {q \in Ports : Connected(q)} \ csc]
        /\ bitmap' = {p \in Ports : Connected(p)} \ csc
  BY DEF RestartControllerFromReset
<1>5. /\ pls' = [p \in Ports |-> IF Connected(p) THEN "Poll" ELSE "Rx"]
      /\ events' = {p \in Ports : changes'[p] # {}}
      /\ gated' = {} /\ BeingResumed' = [p \in Ports |-> FALSE]
      /\ seen' = [p \in Ports |-> "Rx"] /\ reported' = [p \in Ports |-> {}]
      /\ swap' = swap /\ wired' = wired /\ armed' = armed /\ fired' = fired /\ upset' = upset
  BY DEF RestartControllerFromReset, histVars
<1>6. TypeOK'
  <2>1. pls' \in [Ports -> Links]
    BY <1>5 DEF Links
  <2>2. changes' \in [Ports -> SUBSET Bits]
    BY <1>4 DEF Bits
  <2>3. BeingResumed' \in [Ports -> BOOLEAN]
    BY <1>5
  <2>4. EmulateCSC' \in [Ports -> BOOLEAN]
    BY <1>4
  <2>5. seen' \in [Ports -> Views] /\ reported' \in [Ports -> SUBSET Bits]
    BY <1>5 DEF Views
  <2>6. events' \subseteq Ports /\ bitmap' \subseteq Ports /\ gated' \subseteq Ports
    BY <1>4, <1>5
  <2> QED
    BY <1>1, <1>2, <1>3, <1>5, <2>1, <2>2, <2>3, <2>4, <2>5, <2>6 DEF TypeOK, OpType
<1>7. ReadStays'
  BY <1>2 DEF ReadStays, Reading
<1>8. Noticed'
  BY <1>5 DEF Noticed
<1>9. Looked'
  <2> SUFFICES ASSUME NEW p \in Ports, Unknown(p)' PROVE WillLook(p)'
    BY DEF Looked
  <2>1. pls'[p] # "Rx"
    BY <1>5 DEF Unknown, Connected
  <2>2. Connected(p)
    BY <1>5, <2>1
  <2>3. p \in bitmap' \/ changes'[p] # {}
    BY <1>4, <2>2
  <2> QED
    BY <1>5, <2>3 DEF WillLook
<1>10. ResumeNoted'
  <2>1. \A p \in Ports : seen'[p] = "Rx" /\ pls'[p] \in {"Poll", "Rx"}
    BY <1>5
  <2> QED
    BY <2>1 DEF ResumeNoted
<1> QED
  BY <1>6, <1>7, <1>8, <1>9, <1>10 DEF Inv

-----------------------------------------------------------------------------
(* Every step.                                                             *)

\* A step that changes nothing.
LEMMA StutterKeeps == ASSUME Inv, UNCHANGED vars PROVE Inv'
<1>1. Elsewhere /\ op' = op /\ events' = events /\ bitmap' = bitmap /\ gated' = gated
  BY DEF vars, Elsewhere, hwVars, portVars, hubVars, histVars
<1> QED
  BY <1>1, NotesMoved

\* The invariant is inductive.
LEMMA NextKeeps == Inv /\ [Next]_vars => Inv'
<1> SUFFICES ASSUME Inv, [Next]_vars PROVE Inv'
  OBVIOUS
<1>1. ASSUME NEW p \in wired,
             \/ HwHappens(p) \/ HwFinishes(p) \/ FilterPortStatusChange(p)
             \/ PollRead(p) \/ TimerFires(p) \/ RHResumePortCompletion(p)
             \/ GetRootHubPortStatus(p)
             \/ \E bit \in {"CSC", "PLC", "PRC"} : XHCIRootHubClearPortChangeBit(p, bit)
             \/ DisablePort(p) \/ XHCIRootHubResetPort(p) \/ SuspendPort(p) \/ ResumePort(p)
      PROVE  Inv'
  <2>1. p \in Ports
    BY <1>1 DEF Inv, TypeOK
  <2> QED
    BY <1>1, <2>1, HwHappensKeeps, HwFinishesKeeps, FilterPortStatusChangeKeeps, PollReadKeeps,
       TimerFiresKeeps, RHResumePortCompletionKeeps, GetRootHubPortStatusKeeps,
       XHCIRootHubClearPortChangeBitKeeps, DisablePortKeeps, XHCIRootHubResetPortKeeps,
       SuspendPortKeeps, ResumePortKeeps
<1>2. ASSUME \/ PollCheck \/ UIMRootHubStatusChange \/ StatusAgain \/ StatusCheck
             \/ ControllerSleep \/ RestoreControllerStateFromSleep \/ RestartControllerFromReset
      PROVE  Inv'
  BY <1>2, PollCheckKeeps, UIMRootHubStatusChangeKeeps, StatusAgainKeeps, StatusCheckKeeps,
     ControllerSleepKeeps, RestoreControllerStateFromSleepKeeps, RestartControllerFromResetKeeps
<1> QED
  BY <1>1, <1>2, StutterKeeps DEF Next

\* The invariant holds in every state of every behaviour.
THEOREM PortsInvariant == Spec => []Inv
<1> QED
  BY InitInv, NextKeeps, PTL DEF Spec

\* The hub driver asks about the ports that changed and no other (StatusChangedBits, AskedFor),
\* whether the registers alternate between the protocols or not.
THEOREM RightPortAlwaysAsked == Spec => []RightPortAsked
<1>1. Inv => RightPortAsked
  BY AsksForPorts DEF Inv
<1> QED
  BY <1>1, PortsInvariant, PTL

\* No change of a port is forgotten, however the xHC, the filter, status requests, resumes and
\* sleeps interleave.
THEOREM ChangesNeverForgotten == Spec => []NoChangeForgotten
<1>1. Inv => NoChangeForgotten
  BY DEF Inv, Noticed, Looked, Unknown, NoChangeForgotten, WillLook
<1> QED
  BY <1>1, PortsInvariant, PTL

\* No port is left signalling resume: its timer is set, or the resume will be found.
THEOREM ResumeAlwaysEnds == Spec => []NoPortLeftResuming
<1>1. Inv => NoPortLeftResuming
  BY DEF Inv, ResumeNoted, NoPortLeftResuming
<1> QED
  BY <1>1, PortsInvariant, PTL
=============================================================================

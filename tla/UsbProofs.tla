------------------------------ MODULE UsbProofs ------------------------------
(****************************************************************************)
(* Theorems about Usb for any number of hubs, sticks, ports, units, devices *)
(* and slots.                                                               *)
(****************************************************************************)
EXTENDS Usb, SequenceTheorems, FiniteSetTheorems, WellFoundedInduction, TLAPS

(* Front drops the last element.                                            *)
LEMMA FrontElements ==
  ASSUME NEW S, NEW s \in Seq(S), s # <<>>
  PROVE  /\ Front(s) \in Seq(S) /\ Len(Front(s)) = Len(s) - 1
         /\ \A j \in 1..(Len(s) - 1) : Front(s)[j] = s[j]
<1>1. PICK n \in Nat : n = Len(s) - 1
  BY EmptySeq, LenProperties
<1>2. Front(s) = SubSeq(s, 1, n) /\ \A j \in 1..n : s[j] \in S
  BY <1>1, ElementOfSeq DEF Front
<1>3. Front(s) \in Seq(S) /\ Len(Front(s)) = IF 1 <= n THEN n - 1 + 1 ELSE 0
  BY <1>2, SubSeqProperties
<1>4. Len(Front(s)) = n
  BY <1>3
<1>5. \A j \in 1..n : j \in 1..(n - 1 + 1) /\ s[1 + j - 1] = s[j]
  OBVIOUS
<1>6. \A j \in 1..n : Front(s)[j] = s[j]
  BY <1>2, <1>5, SubSeqProperties
<1>7. QED
  BY <1>1, <1>3, <1>4, <1>6

(* Induction over a set of numbers, for an operator cannot be a parameter:  *)
(* a set that holds 0 and with each number the next one holds all of them.  *)
LEMMA SetInduction ==
  ASSUME NEW S, 0 \in S, \A n \in Nat : n \in S => n + 1 \in S
  PROVE  \A n \in Nat : n \in S
<1> DEFINE T == {n \in Nat : n \notin S}
           R == {ss \in Nat \X Nat : ss[1] < ss[2]}
<1>1. SUFFICES ASSUME T # {} PROVE FALSE
  OBVIOUS
<1>2. PICK x \in T : \A y \in T : ~(<<y, x>> \in R)
  <2>1. IsWellFoundedOn(R, Nat)
    BY NatLessThanWellFounded DEF OpToRel
  <2>2. T \subseteq Nat
    OBVIOUS
  <2> HIDE DEF T, R
  <2>3. QED
    BY <1>1, <2>1, <2>2, WFMin
<1>3. x \in Nat /\ x # 0 /\ x \notin S
  OBVIOUS
<1>4. x - 1 \in Nat /\ (x - 1) + 1 = x /\ x - 1 < x
  BY <1>3
<1>5. x - 1 \in S
  <2>1. SUFFICES ASSUME x - 1 \notin S PROVE FALSE
    OBVIOUS
  <2>2. x - 1 \in T
    BY <1>4, <2>1
  <2>3. <<x - 1, x>> \in R
    BY <1>3, <1>4
  <2>4. QED
    BY <1>2, <2>2, <2>3
<1>6. QED
  BY <1>3, <1>4, <1>5

-----------------------------------------------------------------------------
-----------------------------------------------------------------------------
(* The inductive invariant of a stack whose callbacks have not crossed.     *)

Frame ==
  [fn : {"poll", "hubPoll", "scan", "enumerate", "hubProbe", "massProbe", "handle"},
   pc : {"status", "settle", "enumerate", "allocate", "descriptor", "setAddress", "configure",
         "bound", "probe", "ports", "hub", "clear", "reset", "done", "lun", "mark",
         "maxLun"},
   port : Nat, dev : Ids \cup {NULL}, parent : Ids \cup {NULL}, hub : 0..(USB_MAX_HUBS + 1),
   hubThing : Things \cup {Nowhere}, todo : SUBSET HubPorts, slot : Slots \cup {0},
   lun : Nat, address : 0..USB_MAX_DEVICES]

(* Nothing is bound to device i yet, or connected to it.                    *)
Fresh(i) ==
  /\ devices[i].driver = "none" /\ \A j \in Ids : devices[j].parent # i
  /\ \A h \in HubIds : hubs[h].dev # i
  /\ \A s \in Slots : storage[s].dev # i

(* What each call in progress has made sure of.                             *)
PollOK(f) ==
  /\ f.pc \in {"status", "settle", "enumerate"} /\ f.port >= 1
  /\ f.pc # "status" => f.port \in RootPorts /\ rootDevices[f.port] = NULL
  /\ f.pc = "enumerate" => f.port \in connectedPorts
HubPollOK(f) ==
  /\ f.pc \in {"hub", "ports"} /\ f.hub >= 1
  /\ f.pc = "ports" => f.hub \in HubIds /\ hubs[f.hub].dev # NULL
ScanOK(f) ==
  /\ f.pc \in {"lun", "mark"} /\ f.slot \in Slots /\ f.lun >= 1
  /\ storage[f.slot].dev # NULL
  /\ f.pc = "mark" => f.lun \in Luns /\ <<f.slot, f.lun>> \in blocks
EnumerateOK(f) ==
  /\ f.pc \in {"allocate", "descriptor", "setAddress", "configure", "bound"}
  /\ f.pc = "allocate" <=> f.dev = NULL
  /\ f.hub # 0 => f.hub \in HubIds /\ f.parent # NULL /\ hubs[f.hub].dev = f.parent
  /\ f.hub = 0 => f.parent = NULL
  /\ f.pc # "bound" =>
       IF f.hub = 0
       THEN f.port \in RootPorts /\ f.port \in connectedPorts /\ rootDevices[f.port] = f.dev
       ELSE f.port \in HubPorts /\ hubs[f.hub].children[f.port] = f.dev
  /\ f.pc \in {"descriptor", "setAddress"} => devices[f.dev].address = 0
  /\ f.pc \in {"descriptor", "setAddress", "configure"} => Fresh(f.dev)
HubProbeOK(f) ==
  /\ f.pc \in {"probe", "ports"} /\ f.dev # NULL /\ f.parent = NULL /\ f.hubThing \in Hubs
  /\ Used(f.dev) /\ devices[f.dev].driver = "none"
  /\ f.pc = "probe" => f.hub = 0 /\ Fresh(f.dev)
  /\ f.pc = "ports" =>
       /\ f.hub \in HubIds /\ hubs[f.hub].dev = f.dev
       /\ \A p \in HubPorts : p >= f.port => hubs[f.hub].children[p] = NULL
(* Nothing but slot s is bound to device i yet.                             *)
FreshBut(i, s) ==
  /\ devices[i].driver = "none" /\ \A j \in Ids : devices[j].parent # i
  /\ \A h \in HubIds : hubs[h].dev # i
  /\ \A q \in Slots : storage[q].dev = i <=> q = s
  /\ ~storage[s].scanPending /\ storage[s].registered = {}
MassProbeOK(f) ==
  /\ f.pc \in {"probe", "maxLun"} /\ f.dev # NULL /\ f.parent = NULL /\ Used(f.dev)
  /\ f.pc = "probe" => Fresh(f.dev)
  /\ f.pc = "maxLun" => f.slot \in Slots /\ FreshBut(f.dev, f.slot)
HandleOK(f) ==
  /\ f.pc \in {"status", "clear", "reset", "enumerate", "done"}
  /\ f.hub \in HubIds /\ hubs[f.hub].dev # NULL /\ f.port \in HubPorts
  /\ f.pc \in {"reset", "enumerate"} => hubs[f.hub].children[f.port] = NULL

FrameOK(f) ==
  /\ f.fn = "poll" => PollOK(f)
  /\ f.fn = "hubPoll" => HubPollOK(f)
  /\ f.fn = "scan" => ScanOK(f)
  /\ f.fn = "enumerate" => EnumerateOK(f)
  /\ f.fn = "hubProbe" => HubProbeOK(f)
  /\ f.fn = "massProbe" => MassProbeOK(f)
  /\ f.fn = "handle" => HandleOK(f)
  /\ f.fn \notin {"enumerate", "hubProbe", "massProbe"} => f.dev = NULL /\ f.parent = NULL
FramesOK == \A i \in DOMAIN stack : FrameOK(stack[i])

(* f waits for the call g: hubProbe looks at ports that have no child yet.  *)
Called(f, g) ==
  \/ f.fn = "poll" /\ f.pc = "status" /\ g.fn = "enumerate" /\ g.hub = 0
  \/ f.fn = "enumerate" /\ f.pc = "bound" /\ g.fn \in {"hubProbe", "massProbe"} /\ g.dev = f.dev
  \/ f.fn = "hubPoll" /\ f.pc = "ports" /\ g.fn = "handle" /\ g.hub = f.hub
  \/ /\ f.fn = "hubProbe" /\ f.pc = "ports" /\ g.fn = "handle" /\ g.hub = f.hub
     /\ g.pc \in {"status", "clear"} => hubs[g.hub].children[g.port] = NULL
  \/ f.fn = "handle" /\ f.pc = "done" /\ g.fn = "enumerate" /\ g.hub = f.hub /\ g.port = f.port

Chained ==
  /\ stack # <<>> => stack[1].fn \in Callbacks
  /\ \A i \in 1..(Len(stack) - 1) : Called(stack[i], stack[i + 1])

(* f, a call of hubProbe, is through with the ports that g is about.        *)
Apart(f, g) ==
  f.fn = "hubProbe" /\ g.hub = f.hub /\ f.pc = "ports" =>
    g.fn # "hubProbe" /\ (g.fn \in {"handle", "enumerate"} => g.port < f.port)
Spread == \A i, j \in DOMAIN stack : i < j => Apart(stack[i], stack[j])

(* The tree has no part without a root.                                     *)
Closed(D) == Behind(D) \subseteq D
Roots == {i \in Ids : Used(i) /\ devices[i].parent = NULL}
Rooted ==
  \A D \in SUBSET Ids : Roots \subseteq D /\ Closed(D) => \A i \in Ids : Used(i) => i \in D

PortsFit ==
  \A i \in Ids : Used(i) =>
    devices[i].port \in IF devices[i].parent = NULL THEN RootPorts ELSE HubPorts

(* Each slot of the hub driver belongs to a device bound to it, or to the   *)
(* one being probed, and so for mass storage, where massProbe asks the      *)
(* device of the slot for the number of its units.                          *)
Probed(h) == \E i \in DOMAIN stack : stack[i].fn = "hubProbe" /\ stack[i].pc = "ports" /\ stack[i].hub = h
HubSlots ==
  /\ \A h \in HubIds : hubs[h].dev # NULL => Used(hubs[h].dev)
  /\ \A h \in HubIds, p \in HubPorts : hubs[h].dev = NULL => hubs[h].children[p] = NULL
  /\ \A h, g \in HubIds : hubs[h].dev = hubs[g].dev /\ hubs[h].dev # NULL => h = g
  /\ \A i \in Ids : devices[i].driver = "hub" => devices[i].data \in HubIds /\ hubs[devices[i].data].dev = i
HubsBound ==
  \A h \in HubIds : hubs[h].dev # NULL =>
    \/ devices[hubs[h].dev].driver = "hub" /\ devices[hubs[h].dev].data = h
    \/ devices[hubs[h].dev].driver = "none" /\ Probed(h)
StorageBound ==
  \A i \in Ids : devices[i].driver = "mass" => devices[i].data \in Slots /\ storage[devices[i].data].dev = i

SlotsBound ==
  halt = "no" => \A s \in Slots :
    /\ queued[s] = IF storage[s].scanPending THEN 1 ELSE 0
    /\ storage[s].dev # NULL =>
         devices[storage[s].dev].driver = "mass" /\ devices[storage[s].dev].data = s
(* The device of the slot Top.slot is being asked.                          *)
Asking == stack # <<>> /\ Top.pc = "maxLun"
SlotsButAsked ==
  halt = "no" => \A s \in Slots :
    /\ queued[s] = IF storage[s].scanPending THEN 1 ELSE 0
    /\ s # Top.slot /\ storage[s].dev # NULL =>
         devices[storage[s].dev].driver = "mass" /\ devices[storage[s].dev].data = s
Tree == TreeInStep /\ PortsFit /\ Rooted /\ HubSlots
UnitsBound == SlotsBound /\ BlocksInStep /\ StorageBound
UnitsAsked == Asking /\ SlotsButAsked /\ BlocksInStep /\ StorageBound
Units == UnitsBound \/ UnitsAsked
Calls == FramesOK /\ Chained /\ Spread
Going == Tree /\ HubsBound /\ Units /\ Calls
UsbInv == /\ TypeOK /\ stack \in Seq(Frame) /\ ShutdownLeavesNone
          /\ halt = "no" => Going
-----------------------------------------------------------------------------
(* Numbers, and the helpers of the actions.                                 *)

LEMMA Numbers ==
  /\ RootPorts \subseteq Nat \ {0} /\ HubPorts \subseteq Nat \ {0} /\ Luns \subseteq Nat \ {0}
  /\ Ids \subseteq Nat \ {0} /\ HubIds \subseteq Nat \ {0} /\ Slots \subseteq Nat \ {0}
<1>1. ASSUME NEW S, IsFiniteSet(S), S = 1..Cardinality(S) PROVE S \subseteq Nat \ {0}
  <2>1. Cardinality(S) \in Nat
    BY <1>1, FS_CardinalityType
  <2>2. \A x \in 1..Cardinality(S) : x \in Nat \ {0}
    BY <2>1
  <2>3. QED
    BY <1>1, <2>2
<1>2. \A S \in {RootPorts, HubPorts, Luns} : IsFiniteSet(S) /\ S = 1..Cardinality(S)
  BY UsbAssumption
<1>3. /\ RootPorts \subseteq Nat \ {0} /\ HubPorts \subseteq Nat \ {0} /\ Luns \subseteq Nat \ {0}
  BY <1>1, <1>2
<1>4. QED
  BY <1>3, UsbAssumption DEF Ids, HubIds, Slots

(* Every set of numbers with a member has a least one, which CHOOSE finds.  *)
LEMMA LeastOf ==
  ASSUME NEW S \in SUBSET Nat, S # {}
  PROVE  \E m \in S : \A k \in S : m <= k
<1> DEFINE T == {n \in Nat : \A k \in S : n <= k}
<1>1. SUFFICES ASSUME ~\E m \in S : \A k \in S : m <= k PROVE FALSE
  OBVIOUS
<1>2. 0 \in T
  OBVIOUS
<1>3. ASSUME NEW n \in Nat, n \in T PROVE n + 1 \in T
  <2>1. \A k \in S : n <= k
    BY <1>3
  <2>2. n \notin S
    BY <1>1, <2>1
  <2>3. \A k \in S : n + 1 <= k
    BY <2>1, <2>2
  <2>4. QED
    BY <2>3
<1>4. \A n \in Nat : n \in T
  <2> HIDE DEF T
  <2>1. QED
    BY <1>2, <1>3, SetInduction
<1>5. PICK k \in S : TRUE
  OBVIOUS
<1>6. k + 1 <= k
  BY <1>4, <1>5
<1>7. QED
  BY <1>5, <1>6

LEMMA LeastChosen ==
  ASSUME NEW S \in SUBSET Nat, S # {}
  PROVE  (CHOOSE j \in S : \A k \in S : j <= k) \in S
<1>1. \E m \in S : \A k \in S : m <= k
  BY LeastOf
<1>2. QED
  BY <1>1

(* A frame of the stack, and what remains under the one on top.             *)
LEMMA Stacked ==
  ASSUME stack \in Seq(Frame), stack # <<>>
  PROVE  /\ Len(stack) \in Nat /\ Len(stack) >= 1 /\ DOMAIN stack = 1..Len(stack)
         /\ Top = stack[Len(stack)] /\ Top \in Frame
         /\ \A i \in 1..Len(stack) : stack[i] \in Frame
         /\ Front(stack) \in Seq(Frame) /\ Len(Front(stack)) = Len(stack) - 1
         /\ \A i \in 1..(Len(stack) - 1) : Front(stack)[i] = stack[i]
<1> HIDE DEF Frame
<1>1. Len(stack) \in Nat /\ Len(stack) >= 1 /\ DOMAIN stack = 1..Len(stack)
  BY EmptySeq, LenProperties
<1>2. \A i \in 1..Len(stack) : stack[i] \in Frame
  BY ElementOfSeq
<1>3. Top = stack[Len(stack)]
  BY <1>1 DEF Top, Last
<1>4. Front(stack) \in Seq(Frame) /\ Len(Front(stack)) = Len(stack) - 1
      /\ \A i \in 1..(Len(stack) - 1) : Front(stack)[i] = stack[i]
  BY FrontElements
<1>5. QED
  BY <1>1, <1>2, <1>3, <1>4

LEMMA Appended ==
  ASSUME NEW s \in Seq(Frame), NEW f \in Frame
  PROVE  /\ Append(s, f) \in Seq(Frame) /\ Len(Append(s, f)) = Len(s) + 1
         /\ DOMAIN Append(s, f) = 1..(Len(s) + 1) /\ Append(s, f) # <<>>
         /\ \A i \in 1..Len(s) : Append(s, f)[i] = s[i]
         /\ Append(s, f)[Len(s) + 1] = f
<1> HIDE DEF Frame
<1>1. QED
  BY AppendProperties, LenProperties

(* The calls in progress when the one on top is replaced by f, and when f   *)
(* calls g.                                                                 *)
LEMMA Replaced ==
  ASSUME stack \in Seq(Frame), stack # <<>>, NEW f \in Frame, Continue(f)
  PROVE  /\ stack' \in Seq(Frame) /\ stack' # <<>> /\ Len(stack') = Len(stack)
         /\ DOMAIN stack' = 1..Len(stack)
         /\ \A i \in 1..(Len(stack) - 1) : stack'[i] = stack[i]
         /\ stack'[Len(stack)] = f
<1> HIDE DEF Frame
<1> DEFINE s == Front(stack)
<1>1. s \in Seq(Frame) /\ Len(s) = Len(stack) - 1 /\ Len(stack) \in Nat /\ Len(stack) >= 1
      /\ \A i \in 1..(Len(stack) - 1) : s[i] = stack[i]
  BY Stacked
<1>2. stack' = Append(s, f)
  BY DEF Continue
<1> HIDE DEF s
<1>3. QED
  BY <1>1, <1>2, Appended

LEMMA CalledFrom ==
  ASSUME stack \in Seq(Frame), stack # <<>>, NEW f \in Frame, NEW g \in Frame, CallFrom(f, g)
  PROVE  /\ stack' \in Seq(Frame) /\ stack' # <<>> /\ Len(stack') = Len(stack) + 1
         /\ DOMAIN stack' = 1..(Len(stack) + 1)
         /\ \A i \in 1..(Len(stack) - 1) : stack'[i] = stack[i]
         /\ stack'[Len(stack)] = f /\ stack'[Len(stack) + 1] = g
<1> HIDE DEF Frame
<1> DEFINE s == Front(stack)  r == Append(s, f)
<1>1. s \in Seq(Frame) /\ Len(s) = Len(stack) - 1 /\ Len(stack) \in Nat /\ Len(stack) >= 1
      /\ \A i \in 1..(Len(stack) - 1) : s[i] = stack[i]
  BY Stacked
<1>2. stack' = Append(r, g)
  BY DEF CallFrom
<1> HIDE DEF s
<1>3. r \in Seq(Frame) /\ Len(r) = Len(stack) /\ r[Len(stack)] = f
      /\ \A i \in 1..(Len(stack) - 1) : r[i] = stack[i]
  BY <1>1, Appended
<1> HIDE DEF r
<1>4. /\ Append(r, g) \in Seq(Frame) /\ Len(Append(r, g)) = Len(stack) + 1
      /\ DOMAIN Append(r, g) = 1..(Len(stack) + 1) /\ Append(r, g) # <<>>
      /\ \A i \in 1..Len(stack) : Append(r, g)[i] = r[i]
      /\ Append(r, g)[Len(stack) + 1] = g
  BY <1>3, Appended
<1>5. QED
  BY <1>1, <1>2, <1>3, <1>4

LEMMA Popped ==
  ASSUME stack \in Seq(Frame), stack # <<>>, Return
  PROVE  /\ stack' \in Seq(Frame) /\ Len(stack') = Len(stack) - 1
         /\ DOMAIN stack' = 1..(Len(stack) - 1)
         /\ \A i \in 1..(Len(stack) - 1) : stack'[i] = stack[i]
<1> HIDE DEF Frame
<1>1. QED
  BY Stacked, LenProperties DEF Return

-----------------------------------------------------------------------------
(* The calls in progress: only a callback is at the bottom, and all but the *)
(* one on top wait for the next.                                            *)

LEMMA Waiting ==
  ASSUME stack \in Seq(Frame), Calls, NEW i \in 1..(Len(stack) - 1)
  PROVE  /\ i + 1 \in 1..Len(stack) /\ i \in 1..Len(stack)
         /\ stack[i] \in Frame /\ stack[i + 1] \in Frame
         /\ FrameOK(stack[i]) /\ Called(stack[i], stack[i + 1])
         /\ stack[i].fn # "scan" /\ stack[i].pc # "mark" /\ stack[i + 1].fn \notin Callbacks
<1> HIDE DEF Frame
<1>1. Len(stack) \in Nat /\ DOMAIN stack = 1..Len(stack)
  BY LenProperties
<1>2. i + 1 \in 1..Len(stack) /\ i \in 1..Len(stack)
  BY <1>1
<1>3. stack[i] \in Frame /\ stack[i + 1] \in Frame
  BY <1>2, ElementOfSeq
<1>4. FrameOK(stack[i]) /\ Called(stack[i], stack[i + 1])
  BY <1>1, <1>2 DEF Calls, FramesOK, Chained
<1>5. stack[i].fn # "scan" /\ stack[i].pc # "mark" /\ stack[i + 1].fn \notin Callbacks
  BY <1>4 DEF Called, Callbacks
<1>6. QED
  BY <1>2, <1>3, <1>4, <1>5

LEMMA CallbackAtBottom ==
  ASSUME stack \in Seq(Frame), Calls, stack # <<>>, Top.fn \in Callbacks
  PROVE  Len(stack) = 1
<1> HIDE DEF Frame
<1>1. Len(stack) \in Nat /\ Len(stack) >= 1 /\ Top = stack[Len(stack)]
  BY Stacked
<1>2. ASSUME Len(stack) >= 2 PROVE FALSE
  <2> DEFINE k == Len(stack) - 1
  <2>1. k \in 1..(Len(stack) - 1) /\ k + 1 = Len(stack)
    BY <1>1, <1>2
  <2> HIDE DEF k
  <2>2. stack[k + 1].fn \notin Callbacks
    BY <2>1, Waiting
  <2>3. QED
    BY <1>1, <2>1, <2>2
<1> DEFINE n == Len(stack)
<1>3. n \in Nat /\ n >= 1 /\ ~(n >= 2)
  BY <1>1, <1>2
<1> HIDE DEF n
<1>4. n = 1
  BY <1>3
<1>5. QED
  BY <1>4 DEF n

(* The call that waits for the one on top, which is not a callback itself.  *)
LEMMA Below ==
  ASSUME stack \in Seq(Frame), Calls, stack # <<>>, Top.fn \notin Callbacks
  PROVE  /\ Len(stack) - 1 \in 1..(Len(stack) - 1) /\ Len(stack) - 1 \in DOMAIN stack
         /\ stack[Len(stack) - 1] \in Frame
         /\ FrameOK(stack[Len(stack) - 1]) /\ Called(stack[Len(stack) - 1], Top)
         /\ Apart(stack[Len(stack) - 1], Top)
         /\ stack[Len(stack) - 1].fn = "hubPoll" => Len(stack) = 2
<1> HIDE DEF Frame
<1>1. /\ Len(stack) \in Nat /\ Len(stack) >= 1 /\ Top = stack[Len(stack)]
      /\ DOMAIN stack = 1..Len(stack)
  BY Stacked
<1>2. Len(stack) # 1
  BY <1>1 DEF Calls, Chained
<1> DEFINE k == Len(stack) - 1
<1>3. k \in 1..(Len(stack) - 1) /\ k + 1 = Len(stack) /\ k \in DOMAIN stack /\ k < Len(stack)
      /\ Len(stack) \in DOMAIN stack
  BY <1>1, <1>2
<1> HIDE DEF k
<1>4. stack[k] \in Frame /\ FrameOK(stack[k]) /\ Called(stack[k], Top)
  BY <1>1, <1>3, Waiting
<1>5. Apart(stack[k], Top)
  BY <1>1, <1>3 DEF Calls, Spread
<1>6. ASSUME stack[k].fn = "hubPoll" PROVE Len(stack) = 2
  <2>1. ASSUME k >= 2 PROVE FALSE
    <3>1. k - 1 \in 1..(Len(stack) - 1) /\ (k - 1) + 1 = k
      BY <1>1, <1>3, <2>1
    <3>2. stack[k].fn \notin Callbacks
      <4> DEFINE m == k - 1
      <4>1. m \in 1..(Len(stack) - 1) /\ m + 1 = k
        BY <3>1
      <4> HIDE DEF m
      <4>2. stack[m + 1].fn \notin Callbacks
        BY <4>1, Waiting
      <4>3. QED
        BY <4>1, <4>2
    <3>3. QED
      BY <1>6, <3>2 DEF Callbacks
  <2>2. QED
    BY <1>1, <1>3, <2>1
<1>7. QED
  BY <1>3, <1>4, <1>5, <1>6 DEF k

LEMMA TopOK ==
  ASSUME stack \in Seq(Frame), Calls, stack # <<>>
  PROVE  FrameOK(Top)
<1> HIDE DEF Frame
<1>1. QED
  BY Stacked DEF Calls, FramesOK

(* Only hubPoll finds a child at the port it looks at.                      *)
LEMMA ChildFound ==
  ASSUME stack \in Seq(Frame), Calls, stack # <<>>, Top.fn = "handle", Top.pc \in {"status", "clear"},
         Child # NULL
  PROVE  Len(stack) = 2 /\ stack[1].fn = "hubPoll" /\ stack[1].pc = "ports" /\ FrameOK(stack[1])
<1> HIDE DEF Frame
<1>1. /\ FrameOK(stack[Len(stack) - 1]) /\ Called(stack[Len(stack) - 1], Top)
      /\ stack[Len(stack) - 1].fn = "hubPoll" => Len(stack) = 2
  BY Below DEF Callbacks
<1>2. stack[Len(stack) - 1].fn = "hubPoll" /\ stack[Len(stack) - 1].pc = "ports"
  BY <1>1 DEF Called, Child
<1>3. Len(stack) = 2 /\ Len(stack) - 1 = 1
  BY <1>1, <1>2
<1>4. QED
  BY <1>1, <1>2, <1>3

(* No unit is being registered but by a scan.                               *)
LEMMA NoneBeingRegistered ==
  ASSUME stack \in Seq(Frame), Calls, stack # <<>> => Top.pc # "mark"
  PROVE  BeingRegistered = {}
<1> HIDE DEF Frame
<1>1. SUFFICES ASSUME NEW i \in DOMAIN stack, stack[i].pc = "mark" PROVE FALSE
  BY DEF BeingRegistered
<1>2. stack # <<>>
  BY <1>1
<1>3. Len(stack) \in Nat /\ DOMAIN stack = 1..Len(stack) /\ Top = stack[Len(stack)]
  BY <1>2, Stacked
<1>4. i # Len(stack)
  BY <1>1, <1>2, <1>3
<1>5. i \in 1..(Len(stack) - 1)
  BY <1>1, <1>3, <1>4
<1>6. QED
  BY <1>1, <1>5, Waiting

-----------------------------------------------------------------------------
(* What a step owes the calls: those that wait still find what they made    *)
(* sure of, and a new frame fits on top of them.                            *)
StillOK(n) == \A i \in 1..n, e \in Frame : e = stack[i] => FrameOK(e)'
CalledBelow(f) == \A e \in Frame : Len(stack) >= 2 /\ e = stack[Len(stack) - 1] => Called(e, f)'
ApartBelow(f) == \A i \in 1..(Len(stack) - 1) : Apart(stack[i], f)

(* The calls that wait are left as they are.                                *)
LEMMA WaitingKept ==
  ASSUME stack \in Seq(Frame), stack # <<>>, Calls, StillOK(Len(stack) - 1),
         \A i \in 1..(Len(stack) - 1) : stack'[i] = stack[i], stack' \in Seq(Frame)
  PROVE  /\ \A i \in 1..(Len(stack) - 1) : FrameOK(stack[i])'
         /\ \A i \in 1..(Len(stack) - 2) : Called(stack[i], stack[i + 1])'
         /\ \A i, j \in 1..(Len(stack) - 1) : i < j => Apart(stack[i], stack[j])'
         /\ Len(stack) >= 2 => stack'[1].fn \in Callbacks
<1> HIDE DEF Frame
<1>0. Len(stack) \in Nat /\ Len(stack) >= 1 /\ DOMAIN stack = 1..Len(stack)
  BY Stacked
<1>1. ASSUME NEW i \in 1..(Len(stack) - 1) PROVE FrameOK(stack[i])'
  <2>1. stack[i] \in Frame
    BY Waiting
  <2> DEFINE e == stack[i]
  <2>2. \A x \in Frame : x = stack[i] => FrameOK(x)'
    BY DEF StillOK
  <2>3. PICK x \in Frame : x = stack[i] /\ x = stack'[i]
    BY <2>1
  <2>4. FrameOK(x)'
    BY <2>2, <2>3
  <2>5. QED
    BY <2>3, <2>4 DEF FrameOK, PollOK, HubPollOK, ScanOK, EnumerateOK, HubProbeOK, MassProbeOK, HandleOK, Fresh, FreshBut
<1>2. ASSUME NEW i \in 1..(Len(stack) - 2) PROVE Called(stack[i], stack[i + 1])'
  <2>1. i \in 1..(Len(stack) - 1) /\ i + 1 \in 1..(Len(stack) - 1)
    BY <1>0
  <2>2. Called(stack[i], stack[i + 1])
    BY <2>1, Waiting
  <2> DEFINE k == i + 1
  <2>3. stack[k].fn = "handle" => stack[k].pc = "done"
    <3>1. k \in 1..(Len(stack) - 1)
      BY <2>1
    <3> HIDE DEF k
    <3>2. Called(stack[k], stack[k + 1])
      BY <3>1, Waiting
    <3>3. QED
      BY <3>2 DEF Called
  <2>4. stack'[i] = stack[i] /\ stack'[i + 1] = stack[i + 1]
    BY <2>1
  <2>5. QED
    BY <2>2, <2>3, <2>4 DEF Called
<1>3. ASSUME NEW i \in 1..(Len(stack) - 1), NEW j \in 1..(Len(stack) - 1), i < j
      PROVE  Apart(stack[i], stack[j])'
  <2>1. stack'[i] = stack[i] /\ stack'[j] = stack[j] /\ i \in DOMAIN stack /\ j \in DOMAIN stack
    BY <1>0
  <2>2. Apart(stack[i], stack[j])
    BY <1>3, <2>1 DEF Calls, Spread
  <2>3. QED
    BY <2>1, <2>2 DEF Apart
<1>4. ASSUME Len(stack) >= 2 PROVE stack'[1].fn \in Callbacks
  <2>1. stack'[1] = stack[1]
    BY <1>0, <1>4
  <2>2. QED
    BY <2>1 DEF Calls, Chained, Callbacks
<1>5. QED
  BY <1>1, <1>2, <1>3, <1>4

LEMMA CallsReplaced ==
  ASSUME stack \in Seq(Frame), stack # <<>>, Calls, StillOK(Len(stack) - 1),
         NEW f \in Frame, Continue(f),
         FrameOK(f)', f.fn = Top.fn, CalledBelow(f), ApartBelow(f)
  PROVE  stack' \in Seq(Frame) /\ Calls'
<1> HIDE DEF Frame
<1> DEFINE n == Len(stack)
<1>1. n \in Nat /\ n >= 1 /\ Top = stack[n]
  BY Stacked
<1>2. /\ stack' \in Seq(Frame) /\ stack' # <<>> /\ Len(stack') = n /\ DOMAIN stack' = 1..n
      /\ \A i \in 1..(n - 1) : stack'[i] = stack[i]
      /\ stack'[n] = f
  BY Replaced
<1>3. /\ \A i \in 1..(n - 1) : FrameOK(stack[i])'
      /\ \A i \in 1..(n - 2) : Called(stack[i], stack[i + 1])'
      /\ \A i, j \in 1..(n - 1) : i < j => Apart(stack[i], stack[j])'
      /\ n >= 2 => stack'[1].fn \in Callbacks
  BY <1>2, WaitingKept
<1>4. \A i \in 1..(n - 1) : stack[i] \in Frame
  BY Stacked
<1> DEFINE m == n - 1
<1>5. n >= 2 => m \in 1..(n - 1) /\ m + 1 = n
  BY <1>1
<1>6. n >= 2 => \E e \in Frame : e = stack'[m] /\ Called(e, f)'
  <2> SUFFICES ASSUME n >= 2 PROVE \E e \in Frame : e = stack'[m] /\ Called(e, f)'
    OBVIOUS
  <2>1. PICK e \in Frame : e = stack[m] /\ e = stack'[m]
    BY <1>2, <1>4, <1>5
  <2>2. Called(e, f)'
    BY <2>1 DEF CalledBelow
  <2>3. QED
    BY <2>1, <2>2
<1>7. n = 1 => stack'[1].fn \in Callbacks
  <2> SUFFICES ASSUME n = 1 PROVE f.fn \in Callbacks
    BY <1>2
  <2>1. stack[1].fn \in Callbacks
    BY DEF Calls, Chained
  <2>2. QED
    BY <1>1, <2>1
<1>8. \A i \in 1..(n - 1) : Apart(stack[i], f)
  BY DEF ApartBelow
<1> HIDE DEF n
<1>9. FramesOK'
  <2>1. ASSUME NEW i \in 1..n PROVE FrameOK(stack[i])'
    <3>1. CASE i = n
      <4>1. stack'[i] = f
        BY <1>2, <3>1
      <4>2. QED
        BY <4>1 DEF FrameOK, PollOK, HubPollOK, ScanOK, EnumerateOK, HubProbeOK, MassProbeOK, HandleOK, Fresh, FreshBut
    <3>2. CASE i # n
      BY <1>1, <1>3, <3>2
    <3>3. QED
      BY <3>1, <3>2
  <2>2. QED
    BY <1>2, <2>1 DEF FramesOK
<1>10. Chained'
  <2>1. ASSUME NEW i \in 1..(n - 1) PROVE Called(stack[i], stack[i + 1])'
    <3>1. CASE i = m
      <4>1. n >= 2 /\ m + 1 = n
        BY <1>1, <3>1
      <4>2. stack'[i + 1] = f
        BY <1>2, <3>1, <4>1
      <4>3. PICK e \in Frame : e = stack'[i] /\ Called(e, f)'
        BY <1>6, <3>1, <4>1
      <4>4. QED
        BY <4>2, <4>3 DEF Called
    <3>2. CASE i # m
      BY <1>1, <1>3, <3>2
    <3>3. QED
      BY <3>1, <3>2
  <2>2. stack'[1].fn \in Callbacks
    BY <1>1, <1>3, <1>7
  <2>3. QED
    BY <1>2, <2>1, <2>2 DEF Chained, Callbacks
<1>11. Spread'
  <2>1. ASSUME NEW i \in 1..n, NEW j \in 1..n, i < j PROVE Apart(stack[i], stack[j])'
    <3>1. i \in 1..(n - 1) /\ (j \in 1..(n - 1) \/ j = n)
      BY <1>1, <2>1
    <3>2. CASE j = n
      <4>1. Apart(stack[i], f) /\ stack'[j] = f /\ stack'[i] = stack[i]
        BY <1>2, <1>8, <3>1, <3>2
      <4>2. QED
        BY <4>1 DEF Apart
    <3>3. CASE j \in 1..(n - 1)
      BY <1>3, <2>1, <3>1, <3>3
    <3>4. QED
      BY <3>1, <3>2, <3>3
  <2>2. QED
    BY <1>2, <2>1 DEF Spread
<1>12. QED
  BY <1>2, <1>9, <1>10, <1>11 DEF Calls

LEMMA CallsPopped ==
  ASSUME stack \in Seq(Frame), stack # <<>>, Calls, StillOK(Len(stack) - 1), Return
  PROVE  stack' \in Seq(Frame) /\ Calls'
<1> HIDE DEF Frame
<1> DEFINE n == Len(stack)
<1>1. n \in Nat /\ n >= 1
  BY Stacked
<1>2. /\ stack' \in Seq(Frame) /\ Len(stack') = n - 1 /\ DOMAIN stack' = 1..(n - 1)
      /\ \A i \in 1..(n - 1) : stack'[i] = stack[i]
  BY Popped
<1>3. /\ \A i \in 1..(n - 1) : FrameOK(stack[i])'
      /\ \A i \in 1..(n - 2) : Called(stack[i], stack[i + 1])'
      /\ \A i, j \in 1..(n - 1) : i < j => Apart(stack[i], stack[j])'
      /\ n >= 2 => stack'[1].fn \in Callbacks
  BY <1>2, WaitingKept
<1> HIDE DEF n
<1>4. stack' # <<>> => n >= 2
  <2> SUFFICES ASSUME stack' # <<>>, n = 1 PROVE FALSE
    BY <1>1
  <2>1. Len(stack') = 0
    BY <1>2
  <2>2. QED
    BY <1>2, <2>1, EmptySeq
<1>5. FramesOK'
  BY <1>2, <1>3 DEF FramesOK
<1>6. Chained'
  <2>1. (n - 1) - 1 = n - 2
    BY <1>1
  <2>2. Len(stack') - 1 = n - 2
    BY <1>2, <2>1
  <2>3. QED
    BY <1>3, <1>4, <2>2 DEF Chained, Callbacks
<1>7. Spread'
  BY <1>2, <1>3 DEF Spread
<1>8. QED
  BY <1>2, <1>5, <1>6, <1>7 DEF Calls

LEMMA CallsCalled ==
  ASSUME stack \in Seq(Frame), stack # <<>>, Calls, StillOK(Len(stack) - 1),
         NEW f \in Frame, NEW g \in Frame, CallFrom(f, g),
         FrameOK(f)', f.fn = Top.fn, CalledBelow(f), ApartBelow(f),
         FrameOK(g)', Called(f, g)', ApartBelow(g), Apart(f, g)
  PROVE  stack' \in Seq(Frame) /\ Calls'
<1> HIDE DEF Frame
<1> DEFINE n == Len(stack)
<1>1. n \in Nat /\ n >= 1 /\ Top = stack[n]
  BY Stacked
<1>2. /\ stack' \in Seq(Frame) /\ stack' # <<>> /\ Len(stack') = n + 1 /\ DOMAIN stack' = 1..(n + 1)
      /\ \A i \in 1..(n - 1) : stack'[i] = stack[i]
      /\ stack'[n] = f /\ stack'[n + 1] = g
  BY CalledFrom
<1>3. /\ \A i \in 1..(n - 1) : FrameOK(stack[i])'
      /\ \A i \in 1..(n - 2) : Called(stack[i], stack[i + 1])'
      /\ \A i, j \in 1..(n - 1) : i < j => Apart(stack[i], stack[j])'
      /\ n >= 2 => stack'[1].fn \in Callbacks
  BY <1>2, WaitingKept
<1>4. \A i \in 1..(n - 1) : stack[i] \in Frame
  BY Stacked
<1> DEFINE m == n - 1
<1>5. n >= 2 => m \in 1..(n - 1) /\ m + 1 = n
  BY <1>1
<1>6. n >= 2 => \E e \in Frame : e = stack'[m] /\ Called(e, f)'
  <2> SUFFICES ASSUME n >= 2 PROVE \E e \in Frame : e = stack'[m] /\ Called(e, f)'
    OBVIOUS
  <2>1. PICK e \in Frame : e = stack[m] /\ e = stack'[m]
    BY <1>2, <1>4, <1>5
  <2>2. Called(e, f)'
    BY <2>1 DEF CalledBelow
  <2>3. QED
    BY <2>1, <2>2
<1>7. n = 1 => stack'[1].fn \in Callbacks
  <2> SUFFICES ASSUME n = 1 PROVE f.fn \in Callbacks
    BY <1>2
  <2>1. stack[1].fn \in Callbacks
    BY DEF Calls, Chained
  <2>2. QED
    BY <1>1, <2>1
<1>8. \A i \in 1..(n - 1) : Apart(stack[i], f) /\ Apart(stack[i], g)
  BY DEF ApartBelow
<1> HIDE DEF n
<1>9. FramesOK'
  <2>1. ASSUME NEW i \in 1..(n + 1) PROVE FrameOK(stack[i])'
    <3>1. CASE i = n
      <4>1. stack'[i] = f
        BY <1>2, <3>1
      <4>2. QED
        BY <4>1 DEF FrameOK, PollOK, HubPollOK, ScanOK, EnumerateOK, HubProbeOK, MassProbeOK, HandleOK, Fresh, FreshBut
    <3>2. CASE i = n + 1
      <4>1. stack'[i] = g
        BY <1>2, <3>2
      <4>2. QED
        BY <4>1 DEF FrameOK, PollOK, HubPollOK, ScanOK, EnumerateOK, HubProbeOK, MassProbeOK, HandleOK, Fresh, FreshBut
    <3>3. CASE i # n /\ i # n + 1
      <4>1. i \in 1..(n - 1)
        BY <1>1, <3>3
      <4>2. QED
        BY <1>3, <4>1
    <3>4. QED
      BY <3>1, <3>2, <3>3
  <2>2. QED
    BY <1>2, <2>1 DEF FramesOK
<1>10. Chained'
  <2>1. ASSUME NEW i \in 1..n PROVE Called(stack[i], stack[i + 1])'
    <3>1. CASE i = m
      <4>1. n >= 2 /\ m + 1 = n
        BY <1>1, <3>1
      <4>2. stack'[i + 1] = f
        BY <1>2, <3>1, <4>1
      <4>3. PICK e \in Frame : e = stack'[i] /\ Called(e, f)'
        BY <1>6, <3>1, <4>1
      <4>4. QED
        BY <4>2, <4>3 DEF Called
    <3>2. CASE i = n
      <4>1. stack'[i] = f /\ stack'[i + 1] = g
        BY <1>2, <3>2
      <4>2. QED
        BY <4>1 DEF Called
    <3>3. CASE i # m /\ i # n
      <4>1. i \in 1..(n - 2)
        BY <1>1, <3>3
      <4>2. QED
        BY <1>3, <4>1
    <3>4. QED
      BY <3>1, <3>2, <3>3
  <2>2. stack'[1].fn \in Callbacks
    BY <1>1, <1>3, <1>7
  <2>3. Len(stack') - 1 = n
    BY <1>1, <1>2
  <2>4. QED
    BY <2>1, <2>2, <2>3 DEF Chained, Callbacks
<1>11. Spread'
  <2>1. ASSUME NEW i \in 1..(n + 1), NEW j \in 1..(n + 1), i < j PROVE Apart(stack[i], stack[j])'
    <3>1. \/ i \in 1..(n - 1) /\ j \in 1..(n - 1)
          \/ i \in 1..(n - 1) /\ j = n
          \/ i \in 1..(n - 1) /\ j = n + 1
          \/ i = n /\ j = n + 1
      BY <1>1, <2>1
    <3>2. CASE i \in 1..(n - 1) /\ j \in 1..(n - 1)
      BY <1>3, <2>1, <3>2
    <3>3. CASE i \in 1..(n - 1) /\ j = n
      <4>1. Apart(stack[i], f) /\ stack'[j] = f /\ stack'[i] = stack[i]
        BY <1>2, <1>8, <3>3
      <4>2. QED
        BY <4>1 DEF Apart
    <3>4. CASE i \in 1..(n - 1) /\ j = n + 1
      <4>1. Apart(stack[i], g) /\ stack'[j] = g /\ stack'[i] = stack[i]
        BY <1>2, <1>8, <3>4
      <4>2. QED
        BY <4>1 DEF Apart
    <3>5. CASE i = n /\ j = n + 1
      <4>1. Apart(f, g) /\ stack'[i] = f /\ stack'[j] = g
        BY <1>2, <3>5
      <4>2. QED
        BY <4>1 DEF Apart
    <3>6. QED
      BY <3>1, <3>2, <3>3, <3>4, <3>5
  <2>2. QED
    BY <1>2, <2>1 DEF Spread
<1>12. QED
  BY <1>2, <1>9, <1>10, <1>11 DEF Calls

(* A frame that only moves on keeps its place; at the bottom there is none. *)
LEMMA FitsBelow ==
  ASSUME stack \in Seq(Frame), stack # <<>>, Calls, NEW f \in Frame, f.fn = Top.fn,
         Top.fn \notin Callbacks =>
           /\ f.hub = Top.hub /\ f.port = Top.port
           /\ f.fn # "enumerate" => f.dev = Top.dev
           /\ f.fn = "handle" /\ f.pc \in {"status", "clear"} =>
                Top.pc \in {"status", "clear"} /\ UNCHANGED hubs
  PROVE  CalledBelow(f) /\ ApartBelow(f)
<1> HIDE DEF Frame
<1>1. /\ Len(stack) \in Nat /\ Len(stack) >= 1 /\ Top = stack[Len(stack)]
      /\ DOMAIN stack = 1..Len(stack)
  BY Stacked
<1>2. CASE Top.fn \in Callbacks
  <2>1. Len(stack) = 1
    BY <1>2, CallbackAtBottom
  <2>2. QED
    BY <2>1 DEF CalledBelow, ApartBelow
<1>3. CASE Top.fn \notin Callbacks
  <2> DEFINE d == stack[Len(stack) - 1]
  <2>1. Called(d, Top)
    BY <1>3, Below
  <2>2. CalledBelow(f)
    <3> SUFFICES ASSUME NEW e \in Frame, e = d PROVE Called(e, f)'
      BY DEF CalledBelow
    <3>1. Called(e, Top)
      BY <2>1
    <3>2. QED
      BY <1>3, <3>1 DEF Called
  <2>3. ApartBelow(f)
    <3> SUFFICES ASSUME NEW i \in 1..(Len(stack) - 1) PROVE Apart(stack[i], f)
      BY DEF ApartBelow
    <3>1. i \in DOMAIN stack /\ Len(stack) \in DOMAIN stack /\ i < Len(stack)
      BY <1>1
    <3>2. Apart(stack[i], Top)
      BY <1>1, <3>1 DEF Calls, Spread
    <3>3. QED
      BY <1>3, <3>2 DEF Apart
  <2>4. QED
    BY <2>2, <2>3
<1>4. QED
  BY <1>2, <1>3

(* Nothing changes for a frame when the tables do not, and a frame that     *)
(* waits looks only at its hub.                                             *)
LEMMA SameTables ==
  ASSUME UNCHANGED <<devices, rootDevices, connectedPorts, hubs, storage, blocks>>, NEW f, FrameOK(f)
  PROVE  FrameOK(f)'
<1>1. Used(f.dev)' <=> Used(f.dev)
  BY DEF Used
<1>2. Fresh(f.dev)' <=> Fresh(f.dev)
  BY DEF Fresh
<1>3. /\ PollOK(f)' <=> PollOK(f)
      /\ HubPollOK(f)' <=> HubPollOK(f)
      /\ ScanOK(f)' <=> ScanOK(f)
      /\ EnumerateOK(f)' <=> EnumerateOK(f)
      /\ HubProbeOK(f)' <=> HubProbeOK(f)
      /\ MassProbeOK(f)' <=> MassProbeOK(f)
      /\ HandleOK(f)' <=> HandleOK(f)
  BY <1>1, <1>2 DEF FreshBut, PollOK, HubPollOK, ScanOK, EnumerateOK, HubProbeOK, MassProbeOK, HandleOK
<1>4. QED
  BY <1>3 DEF FrameOK

LEMMA SameTablesBelow ==
  ASSUME UNCHANGED <<devices, rootDevices, connectedPorts, hubs, storage, blocks>>,
         stack \in Seq(Frame), Calls, stack # <<>>
  PROVE  StillOK(Len(stack) - 1)
<1> HIDE DEF Frame
<1>1. SUFFICES ASSUME NEW i \in 1..(Len(stack) - 1), NEW e \in Frame, e = stack[i] PROVE FrameOK(e)'
  BY DEF StillOK
<1>2. FrameOK(e)
  BY <1>1, Waiting
<1>3. QED
  BY <1>2, SameTables

(* Of the hubs in use, only the one at work gets a child or is bound.       *)
HubsStay ==
  /\ \A h \in HubIds : hubs[h].dev # NULL => hubs'[h].dev = hubs[h].dev
  /\ \A h \in HubIds, p \in HubPorts :
       hubs[h].dev # NULL /\ hubs[h].children[p] = NULL /\ hubs'[h].children[p] # NULL =>
         Top.fn = "enumerate" /\ Top.hub = h /\ Top.port = p
  /\ \A h \in HubIds :
       hubs[h].dev # NULL /\ Used(hubs[h].dev) /\ devices[hubs[h].dev].driver = "none"
         /\ ~(Top.fn = "hubProbe" /\ Top.pc = "ports" /\ Top.hub = h) =>
         devices'[hubs[h].dev] # NoDevice /\ devices'[hubs[h].dev].driver = "none"

LEMMA HubsStayBelow ==
  ASSUME stack \in Seq(Frame), Calls, stack # <<>>, HubsStay
  PROVE  StillOK(Len(stack) - 1)
<1> HIDE DEF Frame
<1>1. SUFFICES ASSUME NEW i \in 1..(Len(stack) - 1), NEW e \in Frame, e = stack[i] PROVE FrameOK(e)'
  BY DEF StillOK
<1>2. /\ FrameOK(e) /\ Called(e, stack[i + 1])
  BY <1>1, Waiting
<1>3. Apart(e, Top)
  <2>1. /\ Len(stack) \in Nat /\ Top = stack[Len(stack)] /\ DOMAIN stack = 1..Len(stack)
    BY Stacked
  <2>2. i \in DOMAIN stack /\ Len(stack) \in DOMAIN stack /\ i < Len(stack)
    BY <2>1
  <2>3. QED
    BY <1>1, <2>1, <2>2 DEF Calls, Spread
<1>4. CASE e.fn = "poll"
  BY <1>2, <1>4 DEF FrameOK, PollOK, Called
<1>5. CASE e.fn = "enumerate"
  <2>1. e.pc = "bound" /\ EnumerateOK(e)
    BY <1>2, <1>5 DEF FrameOK, Called
  <2>2. EnumerateOK(e)'
    BY <2>1 DEF EnumerateOK, HubsStay
  <2>3. QED
    BY <1>5, <2>2 DEF FrameOK
<1>6. CASE e.fn = "hubPoll"
  <2>1. e.pc = "ports" /\ HubPollOK(e) /\ e.dev = NULL /\ e.parent = NULL
    BY <1>2, <1>6 DEF FrameOK, Called
  <2>2. HubPollOK(e)'
    BY <2>1 DEF HubPollOK, HubsStay
  <2>3. QED
    BY <1>6, <2>1, <2>2 DEF FrameOK
<1>7. CASE e.fn = "handle"
  <2>1. e.pc = "done" /\ HandleOK(e) /\ e.dev = NULL /\ e.parent = NULL
    BY <1>2, <1>7 DEF FrameOK, Called
  <2>2. HandleOK(e)'
    BY <2>1 DEF HandleOK, HubsStay
  <2>3. QED
    BY <1>7, <2>1, <2>2 DEF FrameOK
<1>8. CASE e.fn = "hubProbe"
  <2>1. e.pc = "ports" /\ HubProbeOK(e)
    BY <1>2, <1>8 DEF FrameOK, Called
  <2>2. /\ e.dev # NULL /\ e.parent = NULL /\ e.hubThing \in Hubs
        /\ Used(e.dev) /\ devices[e.dev].driver = "none"
        /\ e.hub \in HubIds /\ hubs[e.hub].dev = e.dev
        /\ \A p \in HubPorts : p >= e.port => hubs[e.hub].children[p] = NULL
    BY <2>1 DEF HubProbeOK
  <2>3. ~(Top.fn = "hubProbe" /\ Top.hub = e.hub)
        /\ (Top.fn = "enumerate" /\ Top.hub = e.hub => Top.port < e.port)
    BY <1>3, <1>8, <2>1 DEF Apart
  <2>4. hubs'[e.hub].dev = e.dev
    BY <2>2 DEF HubsStay
  <2>5. devices'[e.dev] # NoDevice /\ devices'[e.dev].driver = "none"
    BY <2>2, <2>3 DEF HubsStay
  <2>6. \A p \in HubPorts : p >= e.port => hubs'[e.hub].children[p] = NULL
    <3> SUFFICES ASSUME NEW p \in HubPorts, p >= e.port, hubs'[e.hub].children[p] # NULL PROVE FALSE
      OBVIOUS
    <3>1. Top.fn = "enumerate" /\ Top.hub = e.hub /\ Top.port = p
      BY <2>2 DEF HubsStay
    <3>2. p \in Nat /\ e.port \in Nat
      BY Numbers DEF Frame
    <3>3. QED
      BY <2>3, <3>1, <3>2
  <2>7. HubProbeOK(e)'
    BY <2>1, <2>2, <2>4, <2>5, <2>6 DEF HubProbeOK, Used
  <2>8. QED
    BY <1>8, <2>7 DEF FrameOK
<1>9. QED
  BY <1>2, <1>4, <1>5, <1>6, <1>7, <1>8 DEF Called

-----------------------------------------------------------------------------
(* The tree of devices.                                                     *)

LEMMA DeviceFields ==
  ASSUME TypeOK, NEW i \in Ids
  PROVE  /\ devices[i].parent \in Ids \cup {NULL} /\ devices[i].port \in Nat
         /\ devices[i].address \in Int /\ devices[i].driver \in {"none", "hub", "mass"}
         /\ Used(i) => /\ devices[i].port \in RootPorts \cup HubPorts
                       /\ devices[i].address \in 0..USB_MAX_DEVICES
         /\ ~Used(i) => /\ devices[i].parent = NULL /\ devices[i].port = 0
                        /\ devices[i].address = Off /\ devices[i].driver = "none"
<1>1. devices[i] \in Device \cup {NoDevice}
  BY DEF TypeOK
<1>2. CASE devices[i] = NoDevice
  BY <1>2 DEF Used, NoDevice, NULL, Off
<1>3. CASE devices[i] # NoDevice
  <2>1. /\ devices[i].parent \in Ids \cup {NULL} /\ devices[i].port \in RootPorts \cup HubPorts
        /\ devices[i].address \in 0..USB_MAX_DEVICES /\ devices[i].driver \in {"none", "hub", "mass"}
    BY <1>1, <1>3 DEF Device
  <2>2. devices[i].port \in Nat
    BY <2>1, Numbers
  <2>3. devices[i].address \in Int
    BY <2>1
  <2>4. QED
    BY <1>3, <2>1, <2>2, <2>3 DEF Used
<1>4. QED
  BY <1>2, <1>3

(* Gone(i) is the least set with i that has what is behind each of its      *)
(* devices: every other device in it is connected to one of them.           *)
LEMMA GoneSet ==
  ASSUME NEW i \in Ids
  PROVE  /\ Gone(i) \subseteq Ids /\ i \in Gone(i) /\ Closed(Gone(i))
         /\ \A D \in SUBSET Ids : i \in D /\ Closed(D) => Gone(i) \subseteq D
         /\ \A j \in Gone(i) : j # i => Used(j) /\ devices[j].parent \in Gone(i)
<1>0. i # NULL
  BY UsbAssumption DEF Ids, NULL
<1>1. Gone(i) = {j \in Ids : \A D \in SUBSET Ids : i \in D /\ Closed(D) => j \in D}
  BY <1>0 DEF Gone, Closed
<1>2. Gone(i) \subseteq Ids /\ i \in Gone(i)
      /\ \A D \in SUBSET Ids : i \in D /\ Closed(D) => Gone(i) \subseteq D
  BY <1>1
<1>3. Closed(Gone(i))
  <2>1. SUFFICES ASSUME NEW j \in Ids, Used(j), devices[j].parent \in Gone(i),
                        NEW D \in SUBSET Ids, i \in D, Closed(D)
                 PROVE  j \in D
    BY <1>1 DEF Closed, Behind
  <2>2. devices[j].parent \in D
    BY <1>2, <2>1
  <2>3. QED
    BY <2>1, <2>2 DEF Closed, Behind
<1>4. ASSUME NEW j \in Gone(i), j # i, ~(Used(j) /\ devices[j].parent \in Gone(i)) PROVE FALSE
  <2> DEFINE D == Gone(i) \ {j}
  <2>1. D \in SUBSET Ids /\ i \in D
    BY <1>2, <1>4
  <2>2. Closed(D)
    BY <1>3, <1>4 DEF Closed, Behind
  <2>3. QED
    BY <1>2, <1>4, <2>1, <2>2
<1>5. QED
  BY <1>2, <1>3, <1>4

LEMMA NoneGone == Gone(NULL) = {} /\ Closed({})
  BY DEF Gone, Closed, Behind

(* A device that is connected to another is not behind itself.              *)
LEMMA NoCycle ==
  ASSUME TypeOK, Rooted, NEW c \in Ids, Used(c), devices[c].parent # NULL
  PROVE  devices[c].parent \notin Gone(c)
<1>1. SUFFICES ASSUME devices[c].parent \in Gone(c) PROVE FALSE
  OBVIOUS
<1> DEFINE D == {i \in Ids : Used(i) /\ i \notin Gone(c)}
<1>2. D \in SUBSET Ids
  OBVIOUS
<1>3. NULL \notin Gone(c)
  BY GoneSet, UsbAssumption DEF Ids, NULL
<1>4. Roots \subseteq D
  <2>1. SUFFICES ASSUME NEW r \in Roots, r \in Gone(c) PROVE FALSE
    BY DEF Roots
  <2>2. r # c
    BY <2>1 DEF Roots
  <2>3. devices[r].parent \in Gone(c)
    BY <2>1, <2>2, GoneSet
  <2>4. QED
    BY <1>3, <2>1, <2>3 DEF Roots
<1>5. Closed(D)
  <2>1. SUFFICES ASSUME NEW j \in Ids, Used(j), devices[j].parent \in D, j \in Gone(c) PROVE FALSE
    BY DEF Closed, Behind
  <2>2. CASE j = c
    BY <1>1, <2>1, <2>2
  <2>3. CASE j # c
    BY <2>1, <2>3, GoneSet
  <2>4. QED
    BY <2>2, <2>3
<1>6. c \in D
  <2> HIDE DEF D
  <2>1. QED
    BY <1>2, <1>4, <1>5 DEF Rooted
<1>7. QED
  BY <1>6, GoneSet

(* With what is behind the roots, everything goes.                          *)
LEMMA AllBehindRoots ==
  ASSUME Rooted, NEW i \in Ids, Used(i)
  PROVE  i \in UNION {Gone(r) : r \in Roots}
<1> DEFINE D == UNION {Gone(r) : r \in Roots}
<1>1. \A r \in Roots : r \in Ids /\ Gone(r) \subseteq Ids /\ r \in Gone(r) /\ Closed(Gone(r))
  BY GoneSet DEF Roots
<1>2. D \in SUBSET Ids /\ Roots \subseteq D
  BY <1>1
<1>3. Closed(D)
  <2>1. SUFFICES ASSUME NEW j \in Ids, Used(j), NEW r \in Roots, devices[j].parent \in Gone(r)
                 PROVE  j \in Gone(r)
    BY DEF Closed, Behind
  <2>2. QED
    BY <1>1, <2>1 DEF Closed, Behind
<1>4. QED
  <2> HIDE DEF D
  <2>1. i \in D
    BY <1>2, <1>3 DEF Rooted
  <2>2. QED
    BY <2>1 DEF D

(* The tree stays rooted as long as the devices stay connected as they are, *)
(* when a leaf is added, and when a part with all that is behind it goes.   *)
LEMMA RootedSame ==
  ASSUME Rooted,
         \A i \in Ids : (Used(i)' <=> Used(i)) /\ devices'[i].parent = devices[i].parent
  PROVE  Rooted'
<1>1. SUFFICES ASSUME NEW D \in SUBSET Ids, (Roots \subseteq D)', Closed(D)',
                      NEW i \in Ids, Used(i)'
               PROVE  i \in D
  BY DEF Rooted
<1>2. Roots \subseteq D /\ Closed(D)
  BY <1>1 DEF Roots, Closed, Behind
<1>3. QED
  BY <1>1, <1>2 DEF Rooted

LEMMA RootedAdded ==
  ASSUME TypeOK, Rooted, NEW n \in Ids, ~Used(n), Used(n)',
         devices'[n].parent # NULL => devices'[n].parent \in Ids /\ Used(devices'[n].parent),
         \A i \in Ids : i # n => devices'[i] = devices[i]
  PROVE  Rooted'
<1>1. SUFFICES ASSUME NEW D \in SUBSET Ids, (Roots \subseteq D)', Closed(D)',
                      NEW i \in Ids, Used(i)'
               PROVE  i \in D
  BY DEF Rooted
<1> DEFINE E == D \ {n}
<1>2. E \in SUBSET Ids /\ Roots \subseteq E /\ Closed(E)
  BY <1>1 DEF Roots, Closed, Behind, Used
<1>3. \A j \in Ids : Used(j) => j \in E
  <2> HIDE DEF E
  <2>1. QED
    BY <1>2 DEF Rooted
<1>4. CASE i = n
  <2>1. CASE devices'[n].parent = NULL
    BY <1>1, <1>4, <2>1 DEF Roots
  <2>2. CASE devices'[n].parent # NULL
    <3>1. devices'[n].parent \in D
      BY <1>3, <2>2
    <3>2. QED
      BY <1>1, <1>4, <3>1 DEF Closed, Behind
  <2>3. QED
    BY <2>1, <2>2
<1>5. CASE i # n
  BY <1>1, <1>3, <1>5 DEF Used
<1>6. QED
  BY <1>4, <1>5

LEMMA RootedWithout ==
  ASSUME Rooted, NEW R \in SUBSET Ids, Closed(R),
         \A i \in Ids : devices'[i] = IF i \in R THEN NoDevice ELSE devices[i]
  PROVE  Rooted'
<1>1. SUFFICES ASSUME NEW D \in SUBSET Ids, (Roots \subseteq D)', Closed(D)',
                      NEW i \in Ids, Used(i)'
               PROVE  i \in D
  BY DEF Rooted
<1> DEFINE E == D \cup R
<1>2. E \in SUBSET Ids
  OBVIOUS
<1>3. Roots \subseteq E
  BY <1>1 DEF Roots, Used
<1>4. Closed(E)
  BY <1>1 DEF Closed, Behind, Used
<1>5. i \in E
  <2>1. Used(i)
    BY <1>1 DEF Used
  <2> HIDE DEF E
  <2>2. QED
    BY <1>2, <1>3, <1>4, <2>1 DEF Rooted
<1>6. i \notin R
  BY <1>1 DEF Used
<1>7. QED
  BY <1>5, <1>6

(* What the table and the pointers say of each other, pointer by pointer.   *)
LEMMA Pointers ==
  ASSUME TypeOK, TreeInStep, halt = "no"
  PROVE  /\ \A p \in RootPorts : rootDevices[p] # NULL =>
              /\ rootDevices[p] \in Ids /\ Used(rootDevices[p]) /\ p \in connectedPorts
              /\ devices[rootDevices[p]].parent = NULL /\ devices[rootDevices[p]].port = p
         /\ \A h \in HubIds, p \in HubPorts : hubs[h].children[p] # NULL =>
              /\ hubs[h].children[p] \in Ids /\ Used(hubs[h].children[p])
              /\ devices[hubs[h].children[p]].parent = hubs[h].dev
              /\ devices[hubs[h].children[p]].port = p
         /\ \A i \in Ids : Used(i) /\ devices[i].parent = NULL => rootDevices[devices[i].port] = i
         /\ \A i \in Ids : Used(i) /\ devices[i].parent # NULL =>
              /\ Used(devices[i].parent)
              /\ \E h \in HubIds : /\ hubs[h].dev = devices[i].parent
                                   /\ hubs[h].children[devices[i].port] = i
<1>1. ASSUME NEW p \in RootPorts, rootDevices[p] # NULL
      PROVE  /\ rootDevices[p] \in Ids /\ Used(rootDevices[p]) /\ p \in connectedPorts
             /\ devices[rootDevices[p]].parent = NULL /\ devices[rootDevices[p]].port = p
  <2>1. rootDevices[p] \in Ids
    BY <1>1 DEF TypeOK
  <2>2. p \in connectedPorts /\ devices[rootDevices[p]].parent = NULL /\ devices[rootDevices[p]].port = p
    BY <1>1 DEF TreeInStep
  <2>3. p # 0
    BY Numbers
  <2>4. QED
    BY <2>1, <2>2, <2>3, DeviceFields
<1>2. ASSUME NEW h \in HubIds, NEW p \in HubPorts, hubs[h].children[p] # NULL
      PROVE  /\ hubs[h].children[p] \in Ids /\ Used(hubs[h].children[p])
             /\ devices[hubs[h].children[p]].parent = hubs[h].dev
             /\ devices[hubs[h].children[p]].port = p
  <2>1. hubs[h].children[p] \in Ids
    BY <1>2 DEF TypeOK
  <2>2. QED
    BY <1>2, <2>1 DEF TreeInStep, Used
<1>3. \A i \in Ids : Used(i) =>
        IF devices[i].parent = NULL THEN rootDevices[devices[i].port] = i
        ELSE /\ Used(devices[i].parent)
             /\ \E h \in HubIds : /\ hubs[h].dev = devices[i].parent
                                  /\ hubs[h].children[devices[i].port] = i
  BY DEF TreeInStep
<1>4. QED
  BY <1>1, <1>2, <1>3

(* disconnectDevice of c takes a closed part out of the tree, and the       *)
(* pointer to c with it.                                                    *)
LEMMA TreeDetached ==
  ASSUME TypeOK, Tree, halt = "no", NEW D \in SUBSET Ids, NEW c \in D, Used(c), Closed(D),
         \A j \in D : j # c => devices[j].parent \in D,
         \A i \in Ids : devices'[i] = IF i \in D THEN NoDevice ELSE devices[i],
         \A p \in RootPorts : rootDevices'[p] = IF rootDevices[p] = c THEN NULL ELSE rootDevices[p],
         \A p \in RootPorts : p \in connectedPorts /\ rootDevices[p] # c => p \in connectedPorts',
         \A h \in HubIds : hubs'[h].dev = IF hubs[h].dev \in D THEN NULL ELSE hubs[h].dev,
         \A h \in HubIds, p \in HubPorts :
           hubs'[h].children[p] =
             IF hubs[h].dev \in D \/ hubs[h].children[p] = c THEN NULL ELSE hubs[h].children[p]
  PROVE  Tree'
<1> USE DEF Tree
<1>0. NULL \notin D
  BY UsbAssumption DEF Ids, NULL
<1>1. /\ \A p \in RootPorts : rootDevices[p] # NULL =>
           /\ rootDevices[p] \in Ids /\ Used(rootDevices[p]) /\ p \in connectedPorts
           /\ devices[rootDevices[p]].parent = NULL /\ devices[rootDevices[p]].port = p
      /\ \A h \in HubIds, p \in HubPorts : hubs[h].children[p] # NULL =>
           /\ hubs[h].children[p] \in Ids /\ Used(hubs[h].children[p])
           /\ devices[hubs[h].children[p]].parent = hubs[h].dev
           /\ devices[hubs[h].children[p]].port = p
      /\ \A i \in Ids : Used(i) /\ devices[i].parent = NULL => rootDevices[devices[i].port] = i
      /\ \A i \in Ids : Used(i) /\ devices[i].parent # NULL =>
           /\ Used(devices[i].parent)
           /\ \E h \in HubIds : /\ hubs[h].dev = devices[i].parent
                                /\ hubs[h].children[devices[i].port] = i
  BY Pointers
<1>2. Rooted'
  BY RootedWithout
<1>3. \A i \in Ids : Used(i)' <=> Used(i) /\ i \notin D
  BY DEF Used
<1>4. ASSUME NEW p \in RootPorts, rootDevices'[p] # NULL
      PROVE  /\ p \in connectedPorts' /\ devices'[rootDevices'[p]].parent = NULL
             /\ devices'[rootDevices'[p]].port = p
  <2>1. rootDevices'[p] = rootDevices[p] /\ rootDevices[p] # c /\ rootDevices[p] # NULL
    BY <1>4
  <2>2. rootDevices[p] \in Ids /\ rootDevices[p] \notin D
    BY <1>0, <1>1, <2>1
  <2>3. QED
    BY <1>1, <2>1, <2>2
<1>5. ASSUME NEW h \in HubIds, NEW p \in HubPorts, hubs'[h].children[p] # NULL
      PROVE  /\ hubs'[h].children[p] \in Ids /\ hubs'[h].children[p] \notin D
             /\ devices'[hubs'[h].children[p]] # NoDevice
             /\ devices'[hubs'[h].children[p]].parent = hubs'[h].dev
             /\ devices'[hubs'[h].children[p]].port = p
  <2>1. /\ hubs'[h].children[p] = hubs[h].children[p] /\ hubs[h].children[p] # c
        /\ hubs[h].children[p] # NULL /\ hubs[h].dev \notin D /\ hubs'[h].dev = hubs[h].dev
    BY <1>5
  <2>2. hubs[h].children[p] \in Ids /\ hubs[h].children[p] \notin D
    BY <1>1, <2>1
  <2>3. QED
    BY <1>1, <2>1, <2>2 DEF Used
<1>6. ASSUME NEW i \in Ids, Used(i)', devices'[i].parent = NULL
      PROVE  rootDevices'[devices'[i].port] = i
  <2>1. i \notin D /\ Used(i) /\ devices'[i] = devices[i]
    BY <1>3, <1>6
  <2>2. rootDevices[devices[i].port] = i
    BY <1>1, <1>6, <2>1
  <2>3. devices[i].port \in RootPorts
    BY <1>6, <2>1 DEF PortsFit
  <2>4. QED
    BY <2>1, <2>2, <2>3
<1>7. ASSUME NEW i \in Ids, Used(i)', devices'[i].parent # NULL
      PROVE  /\ devices'[devices'[i].parent] # NoDevice
             /\ \E h \in HubIds : /\ hubs'[h].dev = devices'[i].parent
                                  /\ hubs'[h].children[devices'[i].port] = i
  <2>1. i \notin D /\ Used(i) /\ devices'[i] = devices[i] /\ devices[i].parent \in Ids
    BY <1>3, <1>7, DeviceFields
  <2>2. devices[i].parent \notin D
    BY <2>1 DEF Closed, Behind
  <2>3. devices'[devices[i].parent] # NoDevice
    BY <1>1, <1>7, <2>1, <2>2 DEF Used
  <2>4. PICK h \in HubIds : hubs[h].dev = devices[i].parent /\ hubs[h].children[devices[i].port] = i
    BY <1>1, <1>7, <2>1
  <2>5. devices[i].port \in HubPorts
    BY <1>7, <2>1 DEF PortsFit
  <2>6. QED
    BY <2>1, <2>2, <2>3, <2>4, <2>5
<1>8. TreeInStep'
  BY <1>4, <1>5, <1>6, <1>7 DEF TreeInStep, Used
<1>9. HubSlots'
  <2>1. \A h \in HubIds : hubs'[h].dev # NULL =>
          hubs'[h].dev = hubs[h].dev /\ hubs[h].dev \notin D /\ hubs[h].dev \in Ids
    BY DEF TypeOK
  <2>2. \A h \in HubIds : hubs'[h].dev # NULL => devices'[hubs'[h].dev] # NoDevice
    BY <2>1 DEF HubSlots, Used
  <2>3. \A h \in HubIds, p \in HubPorts : hubs'[h].dev = NULL => hubs'[h].children[p] = NULL
    BY DEF HubSlots
  <2>4. \A h, g \in HubIds : hubs'[h].dev = hubs'[g].dev /\ hubs'[h].dev # NULL => h = g
    BY <2>1 DEF HubSlots
  <2>5. \A i \in Ids : devices'[i].driver = "hub" =>
          devices'[i].data \in HubIds /\ hubs'[devices'[i].data].dev = i
    BY DEF HubSlots, NoDevice
  <2>6. QED
    BY <2>2, <2>3, <2>4, <2>5 DEF HubSlots, Used
<1>10. PortsFit'
  BY <1>3 DEF PortsFit
<1>11. QED
  BY <1>2, <1>8, <1>9, <1>10

(* hubRemove and massRemove find exactly the slots of the devices that go.  *)
LEMMA HubSlotsCleared ==
  ASSUME TypeOK, Tree, HubsBound, \A h \in HubIds : ~Probed(h), NEW D \in SUBSET Ids, NEW h \in HubIds
  PROVE  HubsWithout(D)[h] = IF hubs[h].dev \in D THEN NoHub ELSE hubs[h]
<1>1. (\E i \in D : devices[i].driver = "hub" /\ devices[i].data = h) <=> hubs[h].dev \in D
  <2>1. ASSUME NEW i \in D, devices[i].driver = "hub", devices[i].data = h PROVE hubs[h].dev \in D
    BY <2>1 DEF Tree, HubSlots
  <2>2. ASSUME hubs[h].dev \in D PROVE devices[hubs[h].dev].driver = "hub" /\ devices[hubs[h].dev].data = h
    <3>1. hubs[h].dev # NULL
      BY <2>2, UsbAssumption DEF Ids, NULL
    <3>2. QED
      BY <3>1 DEF HubsBound
  <2>3. QED
    BY <2>1, <2>2
<1>2. QED
  BY <1>1 DEF HubsWithout

LEMMA StorageSlots ==
  ASSUME TypeOK, SlotsBound, StorageBound, halt = "no", NEW D \in SUBSET Ids
  PROVE  BoundStorage(D) = {s \in Slots : storage[s].dev \in D}
<1>1. ASSUME NEW s \in Slots
      PROVE  (\E i \in D : devices[i].driver = "mass" /\ devices[i].data = s) <=> storage[s].dev \in D
  <2>1. ASSUME NEW i \in D, devices[i].driver = "mass", devices[i].data = s PROVE storage[s].dev \in D
    BY <2>1 DEF StorageBound
  <2>2. ASSUME storage[s].dev \in D
        PROVE  devices[storage[s].dev].driver = "mass" /\ devices[storage[s].dev].data = s
    <3>1. storage[s].dev # NULL
      BY <2>2, UsbAssumption DEF Ids, NULL
    <3>2. QED
      BY <3>1 DEF SlotsBound
  <2>3. QED
    BY <2>1, <2>2
<1>2. QED
  BY <1>1 DEF BoundStorage

(* Their units go with them, and a scan that is queued stays queued.        *)
LEMMA StorageCleared ==
  ASSUME TypeOK, SlotsBound, StorageBound, halt = "no", NEW D \in SUBSET Ids,
         storage' = StorageWithout(D)
  PROVE  /\ storage' \in [Slots -> [dev : Ids \cup {NULL}, scanPending : BOOLEAN, registered : SUBSET Luns]]
         /\ \A s \in Slots :
              /\ storage'[s].dev = IF storage[s].dev \in D THEN NULL ELSE storage[s].dev
              /\ storage'[s].scanPending = storage[s].scanPending
              /\ storage'[s].registered = IF storage[s].dev \in D THEN {} ELSE storage[s].registered
<1>1. \A s \in Slots : s \in BoundStorage(D) <=> storage[s].dev \in D
  BY StorageSlots
<1> DEFINE R == [dev : Ids \cup {NULL}, scanPending : BOOLEAN, registered : SUBSET Luns]
<1>2. ASSUME NEW s \in Slots
      PROVE  /\ storage'[s] \in R
             /\ storage'[s].dev = IF storage[s].dev \in D THEN NULL ELSE storage[s].dev
             /\ storage'[s].scanPending = storage[s].scanPending
             /\ storage'[s].registered = IF storage[s].dev \in D THEN {} ELSE storage[s].registered
  <2>1. storage[s] \in R
    BY DEF TypeOK
  <2>2. storage'[s] = IF storage[s].dev \notin D THEN storage[s]
                      ELSE IF storage[s].scanPending
                      THEN [storage[s] EXCEPT !.dev = NULL, !.registered = {}] ELSE NoStorage
    BY <1>1 DEF StorageWithout
  <2>3. CASE storage[s].dev \notin D
    BY <2>1, <2>2, <2>3
  <2>4. CASE storage[s].dev \in D /\ storage[s].scanPending
    BY <2>1, <2>2, <2>4
  <2>5. CASE storage[s].dev \in D /\ ~storage[s].scanPending
    <3>1. storage[s].scanPending = FALSE
      BY <2>1, <2>5
    <3>2. storage'[s] = [dev |-> NULL, scanPending |-> FALSE, registered |-> {}]
      BY <2>2, <2>5 DEF NoStorage
    <3>3. storage'[s].scanPending = FALSE
      BY <3>2
    <3>4. storage'[s].scanPending = storage[s].scanPending
      BY <3>1, <3>3
    <3>5. storage'[s].dev = NULL /\ storage'[s].registered = {} /\ storage'[s] \in R
      BY <3>2
    <3>6. QED
      BY <2>5, <3>4, <3>5
  <2>6. QED
    BY <2>3, <2>4, <2>5
<1>3. storage' \in [Slots -> R]
  BY <1>2 DEF StorageWithout
<1>4. QED
  BY <1>2, <1>3

LEMMA UnitsDetached ==
  ASSUME TypeOK, UnitsBound, halt = "no", NEW D \in SUBSET Ids,
         BeingRegistered = {}, BeingRegistered' = {},
         \A i \in Ids : devices'[i] = IF i \in D THEN NoDevice ELSE devices[i],
         storage' = StorageWithout(D), blocks' = BlocksWithout(D), UNCHANGED queued
  PROVE  UnitsBound' /\ blocks' \subseteq Slots \X Luns
<1> USE DEF UnitsBound
<1>0. NULL \notin D
  BY UsbAssumption DEF Ids, NULL
<1>1. \A s \in Slots :
        /\ storage'[s].dev = IF storage[s].dev \in D THEN NULL ELSE storage[s].dev
        /\ storage'[s].scanPending = storage[s].scanPending
        /\ storage'[s].registered = IF storage[s].dev \in D THEN {} ELSE storage[s].registered
  BY StorageCleared
<1>2. /\ \A s \in Slots :
           /\ queued[s] = IF storage[s].scanPending THEN 1 ELSE 0
           /\ storage[s].dev # NULL => /\ storage[s].dev \in Ids
                                       /\ devices[storage[s].dev].driver = "mass"
                                       /\ devices[storage[s].dev].data = s
  BY DEF SlotsBound, TypeOK
<1>3. SlotsBound'
  <2>1. \A s \in Slots : queued'[s] = IF storage'[s].scanPending THEN 1 ELSE 0
    BY <1>1, <1>2
  <2>2. ASSUME NEW s \in Slots, storage'[s].dev # NULL
        PROVE  devices'[storage'[s].dev].driver = "mass" /\ devices'[storage'[s].dev].data = s
    BY <1>1, <1>2, <2>2
  <2>3. QED
    BY <2>1, <2>2 DEF SlotsBound
<1>4. \A b \in Slots \X Luns : b \in blocks <=> b[2] \in storage[b[1]].registered
  BY DEF BlocksInStep, TypeOK
<1>5. \A b \in Slots \X Luns : b \in blocks' <=> b \in blocks /\ storage[b[1]].dev \notin D
  <2>1. \A s \in Slots : s \in BoundStorage(D) <=> storage[s].dev \in D
    BY StorageSlots
  <2>2. QED
    BY <1>4, <2>1 DEF BlocksWithout
<1>6. blocks' \subseteq Slots \X Luns /\ blocks' \subseteq blocks
  BY DEF BlocksWithout, TypeOK
<1>7. BlocksInStep'
  <2>1. \A b \in Slots \X Luns : b \in blocks' <=> b[2] \in storage'[b[1]].registered
    BY <1>1, <1>4, <1>5
  <2>2. blocks' = {b \in Slots \X Luns : b[2] \in storage'[b[1]].registered}
    BY <1>6, <2>1
  <2>3. \A b \in blocks' : storage'[b[1]].dev # NULL
    <3>1. ASSUME NEW b \in blocks' PROVE storage'[b[1]].dev # NULL
      <4>1. b \in Slots \X Luns /\ b \in blocks /\ storage[b[1]].dev \notin D
        BY <1>5, <1>6
      <4>2. storage[b[1]].dev # NULL
        BY <4>1 DEF BlocksInStep
      <4>3. b[1] \in Slots
        BY <4>1
      <4>4. QED
        BY <1>1, <4>1, <4>2, <4>3
    <3>2. QED
      BY <3>1
  <2>4. QED
    BY <2>2, <2>3 DEF BlocksInStep
<1>8. StorageBound'
  <2>1. ASSUME NEW i \in Ids, devices'[i].driver = "mass"
        PROVE  devices'[i].data \in Slots /\ storage'[devices'[i].data].dev = i
    <3>1. i \notin D /\ devices'[i] = devices[i]
      BY <2>1 DEF NoDevice
    <3>2. devices[i].data \in Slots /\ storage[devices[i].data].dev = i
      BY <2>1, <3>1 DEF StorageBound
    <3>3. QED
      BY <1>1, <3>1, <3>2
  <2>2. QED
    BY <2>1 DEF StorageBound
<1>9. QED
  BY <1>3, <1>6, <1>7, <1>8

(* The pointers of the calls in progress stay when none is to what goes.    *)
LEMMA NothingInvalidated ==
  ASSUME NEW st \in Seq(Frame), NEW D, \A i \in DOMAIN st : st[i].dev \notin D /\ st[i].parent \notin D
  PROVE  Invalidated(st, D) = st
<1>1. \A i \in DOMAIN st : st[i] \in Frame
  <2> HIDE DEF Frame
  <2>1. QED
    BY ElementOfSeq, LenProperties
<1>2. ASSUME NEW i \in DOMAIN st
      PROVE  [st[i] EXCEPT !.dev = IF @ \in D THEN Freed ELSE @,
                           !.parent = IF @ \in D THEN Freed ELSE @] = st[i]
  <2> DEFINE f == st[i]
  <2>1. f \in Frame /\ f.dev \notin D /\ f.parent \notin D
    BY <1>1
  <2> HIDE DEF f
  <2>2. [f EXCEPT !.dev = IF @ \in D THEN Freed ELSE @,
                  !.parent = IF @ \in D THEN Freed ELSE @] = f
    BY <2>1 DEF Frame
  <2>3. QED
    BY <2>2 DEF f
<1>3. st = [i \in DOMAIN st |-> st[i]]
  <2> HIDE DEF Frame
  <2>1. QED
    OBVIOUS
<1>4. QED
  BY <1>2, <1>3 DEF Invalidated

-----------------------------------------------------------------------------
(* Steps that leave the tables as they are.                                 *)
WorldOK ==
  /\ at \in [Things -> Places \cup {Nowhere}]
  /\ hw \in [Things -> {Off} \cup 0..USB_MAX_DEVICES]
  /\ powered \subseteq Hubs /\ change \subseteq Hubs \X HubPorts /\ missed \in BOOLEAN

SameTable == UNCHANGED <<table, connectedPorts, drivers, halt>>
Live == UsbInv /\ halt = "no"

LEMMA GoingParts ==
  ASSUME Live
  PROVE  /\ TypeOK /\ WorldOK /\ stack \in Seq(Frame) /\ Tree /\ HubsBound /\ Units /\ Calls
         /\ stack = <<>> \/ Top.pc # "maxLun" => UnitsBound
         /\ stack # <<>> /\ Top.fn # "massProbe" => Top.pc # "maxLun" /\ UnitsBound
<1> HIDE DEF Frame
<1>1. TypeOK /\ WorldOK /\ stack \in Seq(Frame) /\ Tree /\ HubsBound /\ Units /\ Calls
  BY DEF Live, UsbInv, Going, TypeOK, WorldOK
<1>2. stack = <<>> \/ Top.pc # "maxLun" => UnitsBound
  BY <1>1 DEF Units, UnitsAsked, Asking
<1>3. ASSUME stack # <<>>, Top.fn # "massProbe"
      PROVE  Top.pc # "maxLun"
  <2>1. FrameOK(Top) /\ Top \in Frame
    BY <1>1, <1>3, TopOK, Stacked
  <2>2. Top.fn \in {"poll", "hubPoll", "scan", "enumerate", "hubProbe", "handle"}
    BY <1>3, <2>1 DEF Frame
  <2>3. QED
    BY <2>1, <2>2 DEF FrameOK, PollOK, HubPollOK, ScanOK, EnumerateOK, HubProbeOK, HandleOK
<1>4. QED
  BY <1>1, <1>2, <1>3

LEMMA SameTableInv ==
  ASSUME Live, SameTable, WorldOK', stack' \in Seq(Frame), Calls',
         BeingRegistered' = BeingRegistered, UnitsBound \/ stack' = stack,
         \A h \in HubIds : hubs[h].dev # NULL /\ Probed(h) => Probed(h)'
  PROVE  UsbInv'
<1> USE GoingParts
<1>0. /\ UNCHANGED <<devices, rootDevices, connectedPorts, hubs, storage, queued, blocks, halt>>
      /\ halt = "no"
  BY DEF SameTable, table, drivers, Live
<1>1. TypeOK'
  BY <1>0 DEF TypeOK, WorldOK
<1>2. Tree'
  <2>1. TreeInStep' /\ PortsFit' /\ HubSlots'
    BY <1>0 DEF Tree, TreeInStep, PortsFit, HubSlots, Used
  <2>2. Rooted'
    BY <1>0, RootedSame DEF Used, Tree
  <2>3. QED
    BY <2>1, <2>2 DEF Tree
<1>3. HubsBound'
  BY <1>0 DEF HubsBound
<1>4. Units'
  <2>1. StorageBound' /\ BlocksInStep'
    BY <1>0 DEF Units, UnitsBound, UnitsAsked, StorageBound, BlocksInStep
  <2>2. CASE UnitsBound
    <3>1. SlotsBound'
      BY <1>0, <2>2 DEF UnitsBound, SlotsBound
    <3>2. QED
      BY <2>1, <3>1 DEF Units, UnitsBound
  <2>3. CASE UnitsAsked /\ stack' = stack
    <3>1. Asking' /\ SlotsButAsked'
      <4>1. Top' = Top
        BY <2>3 DEF Top
      <4>2. QED
        BY <1>0, <2>3, <4>1 DEF UnitsAsked, SlotsButAsked, Asking
    <3>2. QED
      BY <2>1, <3>1 DEF Units, UnitsAsked
  <2>4. QED
    BY <2>2, <2>3 DEF Units
<1>5. ShutdownLeavesNone'
  BY <1>0 DEF ShutdownLeavesNone
<1>6. QED
  BY <1>1, <1>2, <1>3, <1>4, <1>5 DEF UsbInv, Going

LEMMA ProbedKept ==
  ASSUME stack \in Seq(Frame), stack # <<>>, stack' \in Seq(Frame),
         \A i \in 1..(Len(stack) - 1) : i \in DOMAIN stack' /\ stack'[i] = stack[i],
         Top.fn = "hubProbe" /\ Top.pc = "ports" =>
           /\ Len(stack) \in DOMAIN stack'
           /\ stack'[Len(stack)].fn = "hubProbe" /\ stack'[Len(stack)].pc = "ports"
           /\ stack'[Len(stack)].hub = Top.hub,
         NEW h \in HubIds, Probed(h)
  PROVE  Probed(h)'
<1> HIDE DEF Frame
<1>1. PICK i \in DOMAIN stack : stack[i].fn = "hubProbe" /\ stack[i].pc = "ports" /\ stack[i].hub = h
  BY DEF Probed
<1>2. Len(stack) \in Nat /\ DOMAIN stack = 1..Len(stack) /\ Top = stack[Len(stack)]
  BY Stacked
<1>3. CASE i = Len(stack)
  BY <1>1, <1>2, <1>3 DEF Probed
<1>4. CASE i # Len(stack)
  <2>1. i \in 1..(Len(stack) - 1)
    BY <1>1, <1>2, <1>4
  <2>2. i \in DOMAIN stack' /\ stack'[i] = stack[i]
    BY <2>1
  <2>3. QED
    BY <1>1, <2>2 DEF Probed
<1>5. QED
  BY <1>3, <1>4

LEMMA Returned ==
  ASSUME Live, SameTable, WorldOK', stack # <<>>, Return, Top.pc \notin {"mark", "maxLun"},
         ~(Top.fn = "hubProbe" /\ Top.pc = "ports")
  PROVE  UsbInv'
<1> USE GoingParts
<1> HIDE DEF Frame
<1>1. UNCHANGED <<devices, rootDevices, connectedPorts, hubs, storage, blocks>>
  BY DEF SameTable, table, drivers
<1>2. StillOK(Len(stack) - 1)
  BY <1>1, SameTablesBelow
<1>3. stack' \in Seq(Frame) /\ Calls'
  BY <1>2, CallsPopped
<1>4. DOMAIN stack' = 1..(Len(stack) - 1) /\ \A i \in 1..(Len(stack) - 1) : stack'[i] = stack[i]
  BY Popped
<1>5. \A h \in HubIds : Probed(h) => Probed(h)'
  <2>1. \A i \in 1..(Len(stack) - 1) : i \in DOMAIN stack' /\ stack'[i] = stack[i]
    BY <1>4
  <2>2. QED
    BY <1>3, <2>1, ProbedKept
<1>6. BeingRegistered = {}
  BY NoneBeingRegistered
<1>7. BeingRegistered' = {}
  <2>1. \A i \in DOMAIN stack' : stack'[i].pc # "mark"
    BY <1>4, Waiting
  <2>2. QED
    BY <2>1 DEF BeingRegistered
<1>8. QED
  BY <1>3, <1>5, <1>6, <1>7, SameTableInv

LEMMA Continued ==
  ASSUME Live, SameTable, WorldOK', stack # <<>>, Top.pc \notin {"mark", "maxLun"},
         NEW f \in Frame, Continue(f), FrameOK(f), f.pc # "mark",
         f.fn = Top.fn, CalledBelow(f), ApartBelow(f),
         Top.fn = "hubProbe" /\ Top.pc = "ports" => f.pc = "ports" /\ f.hub = Top.hub
  PROVE  UsbInv'
<1> USE GoingParts
<1> HIDE DEF Frame
<1>1. UNCHANGED <<devices, rootDevices, connectedPorts, hubs, storage, blocks>>
  BY DEF SameTable, table, drivers
<1>2. StillOK(Len(stack) - 1) /\ FrameOK(f)'
  BY <1>1, SameTablesBelow, SameTables
<1>3. stack' \in Seq(Frame) /\ Calls'
  BY <1>2, CallsReplaced
<1>4. DOMAIN stack' = 1..Len(stack) /\ (\A i \in 1..(Len(stack) - 1) : stack'[i] = stack[i])
      /\ stack'[Len(stack)] = f
  BY Replaced
<1>5. Len(stack) \in Nat /\ Len(stack) >= 1
  BY Stacked
<1>6. \A h \in HubIds : Probed(h) => Probed(h)'
  <2>1. /\ \A i \in 1..(Len(stack) - 1) : i \in DOMAIN stack' /\ stack'[i] = stack[i]
        /\ Len(stack) \in DOMAIN stack'
    BY <1>4, <1>5
  <2>2. QED
    BY <1>3, <1>4, <2>1, ProbedKept
<1>7. BeingRegistered = {}
  BY NoneBeingRegistered
<1>8. BeingRegistered' = {}
  <2>1. ASSUME NEW i \in DOMAIN stack' PROVE stack'[i].pc # "mark"
    <3>1. CASE i = Len(stack)
      BY <1>4, <3>1
    <3>2. CASE i # Len(stack)
      <4>1. i \in 1..(Len(stack) - 1)
        BY <1>4, <1>5, <3>2
      <4>2. QED
        BY <1>4, <4>1, Waiting
    <3>3. QED
      BY <3>1, <3>2
  <2>2. QED
    BY <2>1 DEF BeingRegistered
<1>9. QED
  BY <1>3, <1>6, <1>7, <1>8, SameTableInv

LEMMA CalledOn ==
  ASSUME Live, SameTable, WorldOK', stack # <<>>, Top.pc \notin {"mark", "maxLun"},
         NEW f \in Frame, NEW g \in Frame, CallFrom(f, g), FrameOK(f), FrameOK(g),
         f.pc # "mark", g.pc # "mark", f.fn = Top.fn, CalledBelow(f), ApartBelow(f),
         Called(f, g), ApartBelow(g), Apart(f, g),
         Top.fn = "hubProbe" /\ Top.pc = "ports" => f.pc = "ports" /\ f.hub = Top.hub
  PROVE  UsbInv'
<1> USE GoingParts
<1> HIDE DEF Frame
<1>1. UNCHANGED <<devices, rootDevices, connectedPorts, hubs, storage, blocks>>
  BY DEF SameTable, table, drivers
<1>2. StillOK(Len(stack) - 1) /\ FrameOK(f)' /\ FrameOK(g)' /\ Called(f, g)'
  <2>1. StillOK(Len(stack) - 1) /\ FrameOK(f)' /\ FrameOK(g)'
    BY <1>1, SameTablesBelow, SameTables
  <2>2. Called(f, g)'
    BY <1>1 DEF Called
  <2>3. QED
    BY <2>1, <2>2
<1>3. stack' \in Seq(Frame) /\ Calls'
  BY <1>2, CallsCalled
<1>4. DOMAIN stack' = 1..(Len(stack) + 1) /\ (\A i \in 1..(Len(stack) - 1) : stack'[i] = stack[i])
      /\ stack'[Len(stack)] = f /\ stack'[Len(stack) + 1] = g
  BY CalledFrom
<1>5. Len(stack) \in Nat /\ Len(stack) >= 1
  BY Stacked
<1>6. \A h \in HubIds : Probed(h) => Probed(h)'
  <2>1. /\ \A i \in 1..(Len(stack) - 1) : i \in DOMAIN stack' /\ stack'[i] = stack[i]
        /\ Len(stack) \in DOMAIN stack'
    BY <1>4, <1>5
  <2>2. QED
    BY <1>3, <1>4, <2>1, ProbedKept
<1>7. BeingRegistered = {}
  BY NoneBeingRegistered
<1>8. BeingRegistered' = {}
  <2>1. ASSUME NEW i \in DOMAIN stack' PROVE stack'[i].pc # "mark"
    <3>1. CASE i = Len(stack)
      BY <1>4, <3>1
    <3>2. CASE i = Len(stack) + 1
      BY <1>4, <3>2
    <3>3. CASE i # Len(stack) /\ i # Len(stack) + 1
      <4>1. i \in 1..(Len(stack) - 1)
        BY <1>4, <1>5, <3>3
      <4>2. QED
        BY <1>4, <4>1, Waiting
    <3>4. QED
      BY <3>1, <3>2, <3>3
  <2>2. QED
    BY <2>1 DEF BeingRegistered
<1>9. QED
  BY <1>3, <1>6, <1>7, <1>8, SameTableInv

-----------------------------------------------------------------------------
(* One lemma for each action; first those that only move the calls on.      *)

LEMMA NotMissed ==
  ASSUME Live, UNCHANGED missed
  PROVE  missed' \in BOOLEAN
<1>1. missed \in BOOLEAN
  BY GoingParts DEF TypeOK
<1>2. QED
  BY <1>1

LEMMA WorldSame ==
  ASSUME Live, UNCHANGED <<world, hw>>, missed' \in BOOLEAN
  PROVE  WorldOK'
<1>1. UNCHANGED <<at, powered, change, hw>>
  BY DEF world
<1>2. WorldOK
  BY GoingParts
<1>3. QED
  BY <1>1, <1>2 DEF WorldOK

LEMMA WorldReset ==
  ASSUME Live, NEW t \in Things, Resets(t), UNCHANGED at, missed' \in BOOLEAN
  PROVE  WorldOK'
<1>1. WorldOK
  BY GoingParts
<1>2. hw' \in [Things -> {Off} \cup 0..USB_MAX_DEVICES]
  <2>1. hw' = [u \in Things |-> IF u = t THEN 0 ELSE IF u \in OnHub(t) THEN Off ELSE hw[u]]
    BY DEF Resets
  <2>2. 0 \in 0..USB_MAX_DEVICES
    BY UsbAssumption
  <2>3. QED
    BY <1>1, <2>1, <2>2 DEF WorldOK
<1>3. powered' \subseteq Hubs /\ change' \subseteq Hubs \X HubPorts
  BY <1>1 DEF WorldOK, Resets
<1>4. QED
  BY <1>1, <1>2, <1>3 DEF WorldOK

LEMMA SameCallsInv ==
  ASSUME Live, SameTable, WorldOK', stack' = stack
  PROVE  UsbInv'
<1> USE GoingParts
<1> HIDE DEF Frame
<1>1. UNCHANGED <<devices, rootDevices, connectedPorts, hubs, storage, blocks>>
  BY DEF SameTable, table, drivers
<1>2. FramesOK'
  <2>1. ASSUME NEW i \in DOMAIN stack PROVE FrameOK(stack[i])'
    <3>1. FrameOK(stack[i])
      BY DEF Calls, FramesOK
    <3>2. PICK f : f = stack[i]
      OBVIOUS
    <3>3. FrameOK(f)'
      BY <1>1, <3>1, <3>2, SameTables
    <3>4. QED
      BY <3>2, <3>3 DEF FrameOK, PollOK, HubPollOK, ScanOK, EnumerateOK, HubProbeOK, MassProbeOK, HandleOK, Fresh, FreshBut
  <2>2. QED
    BY <2>1 DEF FramesOK
<1>3. Chained' /\ Spread'
  <2>1. UNCHANGED hubs
    BY <1>1
  <2>2. Chained'
    BY <2>1 DEF Calls, Chained, Called
  <2>3. Spread'
    BY DEF Calls, Spread, Apart
  <2>4. QED
    BY <2>2, <2>3
<1>4. BeingRegistered' = BeingRegistered /\ \A h \in HubIds : Probed(h) => Probed(h)'
  BY DEF BeingRegistered, Probed
<1>5. QED
  BY <1>2, <1>3, <1>4, SameTableInv DEF Calls

LEMMA PlugInv ==
  ASSUME UsbInv, NEW t \in Things, NEW place \in Places, Plug(t, place)
  PROVE  UsbInv'
<1>1. Live /\ SameTable /\ stack' = stack
  BY DEF Live, Plug, SameTable
<1>2. WorldOK
  BY <1>1, GoingParts
<1>3. WorldOK'
  <2>1. Latched(place) \subseteq Hubs \X HubPorts
    BY <1>2 DEF Latched, WorldOK
  <2>2. missed' \in BOOLEAN
    BY <1>2 DEF Plug, WorldOK
  <2>3. at' \in [Things -> Places \cup {Nowhere}]
    BY <1>2 DEF Plug, WorldOK
  <2>4. UNCHANGED <<hw, powered>> /\ change' = change \cup Latched(place)
    BY DEF Plug
  <2>5. QED
    BY <1>2, <2>1, <2>2, <2>3, <2>4 DEF WorldOK
<1>4. QED
  BY <1>1, <1>3, SameCallsInv

LEMMA UnplugInv ==
  ASSUME UsbInv, NEW t \in Things, Unplug(t)
  PROVE  UsbInv'
<1>1. Live /\ SameTable /\ stack' = stack
  BY DEF Live, Unplug, SameTable
<1>2. WorldOK
  BY <1>1, GoingParts
<1>3. WorldOK'
  <2>1. Latched(at[t]) \subseteq Hubs \X HubPorts
    BY <1>2 DEF Latched, WorldOK
  <2>2. hw' \in [Things -> {Off} \cup 0..USB_MAX_DEVICES]
    BY <1>2 DEF Unplug, WorldOK
  <2>3. at' \in [Things -> Places \cup {Nowhere}]
    BY <1>2 DEF Unplug, WorldOK
  <2>4. powered' \subseteq Hubs /\ change' \subseteq Hubs \X HubPorts
    BY <1>2, <2>1 DEF Unplug, WorldOK
  <2>5. missed' \in BOOLEAN
    BY <1>2 DEF Unplug, WorldOK
  <2>6. QED
    BY <2>2, <2>3, <2>4, <2>5 DEF WorldOK
<1>4. QED
  BY <1>1, <1>3, SameCallsInv

(* A callback that does not cross another one begins when none is running.  *)
LEMMA Idle ==
  ASSUME Live, NEW f \in Frame, Push(f), f.fn \in Callbacks, ~Crossing'
  PROVE  stack = <<>> /\ Active = {}
<1> USE GoingParts
<1> HIDE DEF Frame
<1>1. ASSUME stack # <<>> PROVE FALSE
  <2>1. Len(stack) \in Nat /\ Len(stack) >= 1 /\ DOMAIN stack = 1..Len(stack)
    BY <1>1, Stacked
  <2>2. stack[1].fn \in Callbacks
    BY <1>1 DEF Calls, Chained
  <2>3. DOMAIN stack' = 1..(Len(stack) + 1) /\ stack'[1] = stack[1] /\ stack'[Len(stack) + 1] = f
    BY <2>1, AppendProperties DEF Push
  <2>4. /\ 1 \in DOMAIN stack' /\ Len(stack) + 1 \in DOMAIN stack' /\ 1 < Len(stack) + 1
        /\ {stack'[1].fn, stack'[Len(stack) + 1].fn} \subseteq Callbacks
    BY <2>1, <2>2, <2>3
  <2>5. QED
    BY <2>4 DEF Crossing
<1>2. QED
  BY <1>1 DEF Active

LEMMA Begun ==
  ASSUME stack = <<>>, NEW f \in Frame, Push(f), f.fn \in Callbacks, FrameOK(f)'
  PROVE  stack' \in Seq(Frame) /\ Calls' /\ stack' = <<f>>
<1> HIDE DEF Frame
<1>1. stack' = <<f>>
  BY DEF Push
<1>2. stack' \in Seq(Frame) /\ Len(stack') = 1 /\ DOMAIN stack' = {1} /\ stack'[1] = f
  BY <1>1
<1>3. FramesOK'
  BY <1>2 DEF FramesOK, FrameOK, PollOK, HubPollOK, ScanOK, EnumerateOK, HubProbeOK, MassProbeOK, HandleOK, Fresh, FreshBut
<1>4. Chained' /\ Spread'
  BY <1>2 DEF Chained, Spread, Callbacks
<1>5. QED
  BY <1>1, <1>2, <1>3, <1>4 DEF Calls

(* A call with nothing but its name and where it is.                        *)
LEMMA CallFields ==
  ASSUME NEW fn \in {"poll", "hubPoll", "scan", "enumerate", "hubProbe", "massProbe", "handle"},
         NEW pc \in {"status", "settle", "enumerate", "allocate", "descriptor", "setAddress", "configure",
                     "bound", "probe", "ports", "hub", "clear", "reset", "done", "lun", "mark",
                     "maxLun"}
  PROVE  Call(fn, pc) \in Frame
<1>1. 0 \in 0..(USB_MAX_HUBS + 1) /\ 0 \in 0..USB_MAX_DEVICES
  BY UsbAssumption
<1>2. QED
  BY <1>1 DEF Call, Frame, NULL

(* What USB_Poll and hubPoll begin with.                                    *)
LEMMA PollFrame ==
  ASSUME NEW p \in RootPorts \cup {1}, NEW f, f = [Call("poll", "status") EXCEPT !.port = p]
  PROVE  f \in Frame /\ f.fn = "poll" /\ f.pc = "status" /\ f.port >= 1 /\ f.dev = NULL /\ f.parent = NULL
<1> DEFINE c == Call("poll", "status")
<1>1. c \in Frame /\ c.fn = "poll" /\ c.pc = "status" /\ c.dev = NULL /\ c.parent = NULL
  BY CallFields DEF Call
<1>2. p \in Nat /\ p >= 1
  BY Numbers
<1> HIDE DEF c
<1>3. f = [c EXCEPT !.port = p]
  BY DEF c
<1>4. QED
  BY <1>1, <1>2, <1>3 DEF Frame

LEMMA HubPollBegun ==
  ASSUME NEW h \in HubIds, NEW f, f = [Call("hubPoll", "hub") EXCEPT !.hub = h]
  PROVE  f \in Frame /\ f.fn = "hubPoll" /\ f.pc = "hub" /\ f.hub >= 1 /\ f.dev = NULL /\ f.parent = NULL
<1> DEFINE c == Call("hubPoll", "hub")
<1>1. c \in Frame /\ c.fn = "hubPoll" /\ c.pc = "hub" /\ c.dev = NULL /\ c.parent = NULL
  BY CallFields DEF Call
<1>2. h \in 0..(USB_MAX_HUBS + 1) /\ h >= 1
  BY UsbAssumption DEF HubIds
<1> HIDE DEF c
<1>3. f = [c EXCEPT !.hub = h]
  BY DEF c
<1>4. QED
  BY <1>1, <1>2, <1>3 DEF Frame

(* A callback that does not cross another one is alone on the stack.        *)
LEMMA BegunInv ==
  ASSUME Live, SameTable, UNCHANGED <<world, hw, missed>>, ~Crossing',
         NEW f \in Frame, Push(f), f.fn \in Callbacks, f.pc # "mark", FrameOK(f)'
  PROVE  UsbInv' /\ stack = <<>> /\ stack' = <<f>>
<1> HIDE DEF Frame
<1>1. stack = <<>>
  BY Idle
<1>2. WorldOK'
  BY WorldSame, NotMissed
<1>3. stack' \in Seq(Frame) /\ Calls' /\ stack' = <<f>>
  BY <1>1, Begun
<1>4. BeingRegistered = {} /\ BeingRegistered' = {} /\ \A h \in HubIds : ~Probed(h)
  BY <1>1, <1>3 DEF BeingRegistered, Probed
<1>5. UnitsBound
  BY <1>1, GoingParts
<1>6. QED
  BY <1>1, <1>2, <1>3, <1>4, <1>5, SameTableInv

LEMMA StartPollInv ==
  ASSUME UsbInv, ~Crossing', StartPoll
  PROVE  UsbInv'
<1>1. Live /\ SameTable /\ UNCHANGED <<world, hw, missed>>
  BY DEF StartPoll, Callback, Live, SameTable
<1>2. PICK p \in RootPorts \cup {1} : Push([Call("poll", "status") EXCEPT !.port = p])
  <2>1. Call("poll", "status") = [Call("poll", "status") EXCEPT !.port = 1]
    BY DEF Call
  <2>2. QED
    BY <2>1 DEF StartPoll
<1>3. PICK f : f = [Call("poll", "status") EXCEPT !.port = p]
  OBVIOUS
<1>4. /\ f \in Frame /\ f.fn = "poll" /\ f.pc = "status" /\ f.port >= 1 /\ f.dev = NULL
      /\ f.parent = NULL /\ Push(f)
  BY <1>2, <1>3, PollFrame
<1> HIDE DEF Frame
<1>5. FrameOK(f)'
  BY <1>4 DEF FrameOK, PollOK
<1>6. f.fn \in Callbacks /\ f.pc # "mark"
  BY <1>4 DEF Callbacks
<1>7. QED
  BY <1>1, <1>4, <1>5, <1>6, BegunInv

LEMMA StartHubPollInv ==
  ASSUME UsbInv, ~Crossing', StartHubPoll
  PROVE  UsbInv'
<1>1. Live /\ SameTable /\ UNCHANGED <<world, hw, missed>>
  BY DEF StartHubPoll, Callback, Live, SameTable
<1>2. PICK h \in HubIds : Push([Call("hubPoll", "hub") EXCEPT !.hub = h])
  <2>1. 1 \in HubIds
    BY UsbAssumption DEF HubIds
  <2>2. QED
    BY <2>1 DEF StartHubPoll
<1>3. PICK f : f = [Call("hubPoll", "hub") EXCEPT !.hub = h]
  OBVIOUS
<1>4. /\ f \in Frame /\ f.fn = "hubPoll" /\ f.pc = "hub" /\ f.hub >= 1 /\ f.dev = NULL
      /\ f.parent = NULL /\ Push(f)
  BY <1>2, <1>3, HubPollBegun
<1> HIDE DEF Frame
<1>5. FrameOK(f)'
  BY <1>4 DEF FrameOK, HubPollOK
<1>6. f.fn \in Callbacks /\ f.pc # "mark"
  BY <1>4 DEF Callbacks
<1>7. QED
  BY <1>1, <1>4, <1>5, <1>6, BegunInv

LEMMA AtTop ==
  ASSUME UsbInv, NEW fn, NEW pc, Running(fn, pc)
  PROVE  /\ Live /\ stack # <<>> /\ stack \in Seq(Frame) /\ Calls
         /\ Top \in Frame /\ Top.fn = fn /\ Top.pc = pc /\ FrameOK(Top)
<1> HIDE DEF Frame
<1>1. Live /\ stack # <<>> /\ Top.fn = fn /\ Top.pc = pc
  BY DEF Running, Live
<1>2. stack \in Seq(Frame) /\ Calls
  BY <1>1, GoingParts
<1>3. QED
  BY <1>1, <1>2, Stacked, TopOK

LEMMA EndPollInv ==
  ASSUME UsbInv, EndPoll
  PROVE  UsbInv'
<1>1. Running("poll", "status") /\ Return /\ SameTable /\ UNCHANGED <<world, hw, missed>>
  BY DEF EndPoll, SameTable
<1>2. Live /\ stack # <<>> /\ Top.fn = "poll" /\ Top.pc = "status"
  BY <1>1, AtTop
<1>3. WorldOK'
  BY <1>1, <1>2, WorldSame, NotMissed
<1>4. QED
  BY <1>1, <1>2, <1>3, Returned

LEMMA NextPortOK ==
  ASSUME UsbInv, Live, stack # <<>>, Top.fn = "poll"
  PROVE  \E f \in Frame :
           /\ f = NextPort /\ f.fn = "poll" /\ f.pc = "status" /\ f.port = Top.port + 1
           /\ FrameOK(f) /\ FrameOK(f)' /\ CalledBelow(f) /\ ApartBelow(f)
<1> USE GoingParts
<1>1. Top \in Frame /\ FrameOK(Top)
  <2> HIDE DEF Frame
  <2>1. QED
    BY Stacked, TopOK
<1>2. Top.port >= 1 /\ Top.dev = NULL /\ Top.parent = NULL
  BY <1>1 DEF FrameOK, PollOK
<1> DEFINE t == Top  n == t.port + 1  f == [t EXCEPT !.pc = "status", !.port = n]
<1>3. n \in Nat /\ n >= 1
  BY <1>1, <1>2 DEF Frame
<1>4. NextPort = f
  BY DEF NextPort
<1> HIDE DEF n
<1>5. f \in Frame /\ f.fn = "poll" /\ f.pc = "status" /\ f.port = n /\ f.dev = NULL /\ f.parent = NULL
  <2> HIDE DEF t
  <2>1. t \in Frame /\ t.fn = "poll" /\ t.dev = NULL /\ t.parent = NULL
    BY <1>1, <1>2 DEF t
  <2>2. QED
    BY <2>1, <1>3 DEF Frame
<1> HIDE DEF f, Frame
<1>6. PICK x \in Frame : x = f
  BY <1>5
<1>7. FrameOK(x) /\ FrameOK(x)'
  BY <1>3, <1>5, <1>6 DEF FrameOK, PollOK
<1>8. CalledBelow(x) /\ ApartBelow(x)
  BY <1>5, <1>6, FitsBelow DEF Callbacks
<1>9. QED
  BY <1>4, <1>5, <1>6, <1>7, <1>8 DEF n

(* The frame on top with another pc and perhaps more: what stays in it.     *)
LEMMA GotoFrame ==
  ASSUME NEW t \in Frame,
         NEW pc \in {"status", "settle", "enumerate", "allocate", "descriptor", "setAddress", "configure",
                     "bound", "probe", "ports", "hub", "clear", "reset", "done", "lun", "mark",
                     "maxLun"}
  PROVE  LET f == [t EXCEPT !.pc = pc] IN
         /\ f \in Frame /\ f.pc = pc /\ f.fn = t.fn /\ f.port = t.port /\ f.dev = t.dev
         /\ f.parent = t.parent /\ f.hub = t.hub /\ f.hubThing = t.hubThing /\ f.todo = t.todo
         /\ f.slot = t.slot /\ f.lun = t.lun /\ f.address = t.address
  BY DEF Frame

(* RootStatus and RootReset, for a port that goes on to the next one.       *)
LEMMA NextPortInv ==
  ASSUME UsbInv, Live, SameTable, WorldOK', stack # <<>>, Top.fn = "poll", stack' = Onwards
  PROVE  UsbInv'
<1>1. Top.pc \notin {"mark", "maxLun"}
  BY GoingParts, TopOK DEF FrameOK, PollOK
<1>2. PICK f \in Frame :
        /\ f = NextPort /\ f.fn = "poll" /\ f.pc = "status" /\ f.port = Top.port + 1
        /\ FrameOK(f) /\ FrameOK(f)' /\ CalledBelow(f) /\ ApartBelow(f)
  BY NextPortOK
<1>3. Continue(f)
  BY <1>2 DEF Onwards, Continue
<1>4. QED
  BY <1>1, <1>2, <1>3, Continued

LEMMA EnumerationFrame ==
  ASSUME NEW h \in 0..(USB_MAX_HUBS + 1), NEW parent \in Ids \cup {NULL}, NEW port \in Nat
  PROVE  LET g == Enumeration(h, parent, port) IN
         /\ g \in Frame /\ g.fn = "enumerate" /\ g.pc = "allocate" /\ g.hub = h /\ g.parent = parent
         /\ g.port = port /\ g.dev = NULL
<1> DEFINE c == Call("enumerate", "allocate")
           g == [c EXCEPT !.hub = h, !.parent = parent, !.port = port]
<1>1. c \in Frame /\ c.fn = "enumerate" /\ c.pc = "allocate" /\ c.dev = NULL
  BY CallFields DEF Call
<1> HIDE DEF c
<1>2. g \in Frame /\ g.fn = "enumerate" /\ g.pc = "allocate" /\ g.hub = h /\ g.parent = parent
      /\ g.port = port /\ g.dev = NULL
  BY <1>1 DEF Frame
<1>3. QED
  BY <1>2 DEF Enumeration, c

LEMMA EnumerateRootInv ==
  ASSUME UsbInv, EnumerateRoot
  PROVE  UsbInv'
<1> DEFINE p == Top.port  h == Enumeration(0, NULL, p)
<1>1. /\ Running("poll", "enumerate") /\ SameTable /\ UNCHANGED <<world, hw, missed>>
      /\ CallFrom(NextPort, h)
  BY DEF EnumerateRoot, SameTable
<1>2. Live /\ stack # <<>> /\ Top \in Frame /\ Top.fn = "poll" /\ Top.pc = "enumerate" /\ FrameOK(Top)
  BY <1>1, AtTop
<1>3. WorldOK'
  BY <1>1, <1>2, WorldSame, NotMissed
<1>4. PICK f \in Frame :
        /\ f = NextPort /\ f.fn = "poll" /\ f.pc = "status" /\ f.port = Top.port + 1
        /\ FrameOK(f) /\ FrameOK(f)' /\ CalledBelow(f) /\ ApartBelow(f)
  BY <1>2, NextPortOK
<1>5. p \in RootPorts /\ rootDevices[p] = NULL /\ p \in connectedPorts
  BY <1>2 DEF FrameOK, PollOK
<1>6. h \in Frame /\ h.fn = "enumerate" /\ h.pc = "allocate" /\ h.hub = 0 /\ h.parent = NULL
      /\ h.port = p /\ h.dev = NULL
  <2>1. p \in Nat
    BY <1>5, Numbers
  <2>2. 0 \in 0..(USB_MAX_HUBS + 1)
    BY UsbAssumption
  <2> HIDE DEF p
  <2>3. QED
    BY <2>1, <2>2, EnumerationFrame
<1> HIDE DEF h, p, Frame
<1>7. PICK g \in Frame : g = h
  BY <1>6
<1>8. FrameOK(g)
  BY <1>5, <1>6, <1>7 DEF FrameOK, EnumerateOK, NULL
<1>9. Called(f, g) /\ Apart(f, g)
  BY <1>4, <1>6, <1>7 DEF Called, Apart
<1>10. ApartBelow(g)
  <2>1. Len(stack) = 1
    BY <1>1, <1>2, AtTop, CallbackAtBottom DEF Callbacks
  <2>2. QED
    BY <2>1 DEF ApartBelow
<1>11. CallFrom(f, g)
  BY <1>1, <1>4, <1>7
<1>12. QED
  BY <1>2, <1>3, <1>4, <1>6, <1>7, <1>8, <1>9, <1>10, <1>11, <1>1, CalledOn

LEMMA EndEnumerationInv ==
  ASSUME UsbInv, EndEnumeration
  PROVE  UsbInv'
<1>1. Running("enumerate", "bound") /\ Return /\ SameTable /\ UNCHANGED <<world, hw, missed>>
  BY DEF EndEnumeration, SameTable
<1>2. Live /\ stack # <<>> /\ Top.fn = "enumerate" /\ Top.pc = "bound"
  BY <1>1, AtTop
<1>3. WorldOK'
  BY <1>1, <1>2, WorldSame, NotMissed
<1>4. QED
  BY <1>1, <1>2, <1>3, Returned

LEMMA EndHubPollInv ==
  ASSUME UsbInv, EndHubPoll
  PROVE  UsbInv'
<1>1. Running("hubPoll", "hub") /\ Return /\ SameTable /\ UNCHANGED <<world, hw, missed>>
  BY DEF EndHubPoll, SameTable
<1>2. Live /\ stack # <<>> /\ Top.fn = "hubPoll" /\ Top.pc = "hub"
  BY <1>1, AtTop
<1>3. WorldOK'
  BY <1>1, <1>2, WorldSame, NotMissed
<1>4. QED
  BY <1>1, <1>2, <1>3, Returned

LEMMA EndHandleInv ==
  ASSUME UsbInv, EndHandle
  PROVE  UsbInv'
<1>1. Running("handle", "done") /\ Return /\ SameTable /\ UNCHANGED <<world, hw, missed>>
  BY DEF EndHandle, SameTable
<1>2. Live /\ stack # <<>> /\ Top.fn = "handle" /\ Top.pc = "done"
  BY <1>1, AtTop
<1>3. WorldOK'
  BY <1>1, <1>2, WorldSame, NotMissed
<1>4. QED
  BY <1>1, <1>2, <1>3, Returned

LEMMA EndScanInv ==
  ASSUME UsbInv, EndScan
  PROVE  UsbInv'
<1>1. Running("scan", "lun") /\ Return /\ SameTable /\ UNCHANGED <<world, hw, missed>>
  BY DEF EndScan, SameTable
<1>2. Live /\ stack # <<>> /\ Top.fn = "scan" /\ Top.pc = "lun"
  BY <1>1, AtTop
<1>3. WorldOK'
  BY <1>1, <1>2, WorldSame, NotMissed
<1>4. QED
  BY <1>1, <1>2, <1>3, Returned

(* hubPoll goes from hub to hub, and calls hubHandlePort.                   *)
LEMMA HubPollFrame ==
  ASSUME UsbInv, Live, SameTable, WorldOK', stack # <<>>, Top.fn = "hubPoll", NEW f \in Frame,
         f.fn = "hubPoll", Continue(f), HubPollOK(f), f.dev = NULL, f.parent = NULL
  PROVE  UsbInv'
<1> USE GoingParts
<1> HIDE DEF Frame
<1>1. Top.pc # "mark"
  BY TopOK DEF FrameOK, HubPollOK
<1>2. FrameOK(f) /\ f.pc # "mark"
  BY DEF FrameOK, HubPollOK
<1>3. CalledBelow(f) /\ ApartBelow(f)
  BY FitsBelow DEF Callbacks
<1>4. QED
  BY <1>1, <1>2, <1>3, Continued

LEMMA NextHubInv ==
  ASSUME UsbInv, Live, SameTable, WorldOK', stack # <<>>, Top.fn = "hubPoll", Top.hub \in HubIds, NextHub
  PROVE  UsbInv'
<1> DEFINE t == Top  n == t.hub + 1  f == [t EXCEPT !.hub = n, !.pc = "hub", !.todo = {}]
<1>1. t \in Frame /\ FrameOK(t)
  <2> HIDE DEF Frame
  <2>1. QED
    BY GoingParts, Stacked, TopOK
<1>2. n \in 0..(USB_MAX_HUBS + 1) /\ n >= 1
  BY UsbAssumption DEF HubIds
<1>3. t.fn = "hubPoll" /\ t.dev = NULL /\ t.parent = NULL
  BY <1>1 DEF FrameOK
<1>4. Continue(f)
  BY DEF NextHub
<1> HIDE DEF t, n
<1>5. f \in Frame /\ f.fn = "hubPoll" /\ f.pc = "hub" /\ f.hub = n /\ f.dev = NULL /\ f.parent = NULL
  BY <1>1, <1>2, <1>3 DEF Frame
<1> HIDE DEF f, Frame
<1>6. HubPollOK(f)
  BY <1>2, <1>5 DEF HubPollOK
<1>7. PICK g \in Frame : g = f
  BY <1>5
<1>8. QED
  BY <1>4, <1>5, <1>6, <1>7, HubPollFrame

LEMMA HubPollInv ==
  ASSUME UsbInv, HubPoll
  PROVE  UsbInv'
<1> DEFINE t == Top  dev == hubs[t.hub].dev
           reached == IF dev = NULL THEN {} ELSE Target(dev) \cap Hubs
<1>1. /\ Running("hubPoll", "hub") /\ t.hub \in HubIds /\ SameTable /\ UNCHANGED <<world, hw, missed>>
      /\ \/ \E u \in reached : Continue([t EXCEPT !.pc = "ports", !.todo = Changed(u)])
         \/ reached = {} /\ NextHub
  BY DEF HubPoll, SameTable
<1>2. Live /\ stack # <<>> /\ t \in Frame /\ t.fn = "hubPoll" /\ FrameOK(t)
  BY <1>1, AtTop
<1>3. WorldOK'
  BY <1>1, <1>2, WorldSame, NotMissed
<1>4. CASE reached = {} /\ NextHub
  BY <1>1, <1>2, <1>3, <1>4, NextHubInv
<1>5. ASSUME NEW u \in reached, Continue([t EXCEPT !.pc = "ports", !.todo = Changed(u)])
      PROVE  UsbInv'
  <2> DEFINE w == Changed(u)  f == [t EXCEPT !.pc = "ports", !.todo = w]
  <2>1. dev # NULL
    BY <1>5
  <2>2. w \in SUBSET HubPorts
    BY DEF Changed
  <2>3. t.dev = NULL /\ t.parent = NULL
    BY <1>2 DEF FrameOK
  <2>4. Continue(f)
    BY <1>5
  <2>5. t.hub \in HubIds /\ hubs[t.hub].dev # NULL
    BY <1>1, <2>1
  <2> HIDE DEF w, t
  <2>6. f \in Frame /\ f.fn = "hubPoll" /\ f.pc = "ports" /\ f.hub = t.hub /\ f.dev = NULL /\ f.parent = NULL
    BY <1>2, <2>2, <2>3 DEF Frame
  <2> HIDE DEF f, Frame
  <2>7. HubPollOK(f)
    BY <2>5, <2>6, Numbers DEF HubPollOK, HubIds
  <2>8. PICK g \in Frame : g = f
    BY <2>6
  <2>9. Top.fn = "hubPoll"
    BY <1>2 DEF t
  <2>10. QED
    BY <1>1, <1>2, <1>3, <2>4, <2>6, <2>7, <2>8, <2>9, HubPollFrame
<1>6. QED
  BY <1>1, <1>4, <1>5

(* hubHandlePort of port p of hub h.                                        *)
LEMMA HandleFrame ==
  ASSUME NEW h \in HubIds, NEW p \in HubPorts
  PROVE  LET g == HandlePort(h, p) IN
         /\ g \in Frame /\ g.fn = "handle" /\ g.pc = "status" /\ g.hub = h /\ g.port = p
         /\ g.dev = NULL /\ g.parent = NULL
<1> DEFINE c == Call("handle", "status")  g == [c EXCEPT !.hub = h, !.port = p]
<1>1. c \in Frame /\ c.fn = "handle" /\ c.pc = "status" /\ c.dev = NULL /\ c.parent = NULL
  BY CallFields DEF Call
<1>2. p \in Nat
  BY Numbers
<1>3. h \in 0..(USB_MAX_HUBS + 1)
  BY UsbAssumption DEF HubIds
<1> HIDE DEF c
<1>4. g \in Frame /\ g.fn = "handle" /\ g.pc = "status" /\ g.hub = h /\ g.port = p
      /\ g.dev = NULL /\ g.parent = NULL
  BY <1>1, <1>2, <1>3 DEF Frame
<1>5. QED
  BY <1>4 DEF HandlePort, c

LEMMA HubPollPortsInv ==
  ASSUME UsbInv, HubPollPorts
  PROVE  UsbInv'
<1> DEFINE t == Top
<1>1. /\ Running("hubPoll", "ports") /\ SameTable /\ UNCHANGED <<world, hw, missed>>
      /\ \/ NextHub
         \/ \E p \in t.todo : CallFrom([t EXCEPT !.todo = @ \ {p}], HandlePort(t.hub, p))
  BY DEF HubPollPorts, SameTable
<1>2. Live /\ stack # <<>> /\ t \in Frame /\ t.fn = "hubPoll" /\ t.pc = "ports" /\ FrameOK(t)
  BY <1>1, AtTop
<1>3. WorldOK'
  BY <1>1, <1>2, WorldSame, NotMissed
<1>4. t.hub \in HubIds /\ hubs[t.hub].dev # NULL /\ t.dev = NULL /\ t.parent = NULL
  BY <1>2 DEF FrameOK, HubPollOK
<1>5. CASE NextHub
  BY <1>1, <1>2, <1>3, <1>4, <1>5, NextHubInv
<1>6. ASSUME NEW p \in t.todo, CallFrom([t EXCEPT !.todo = @ \ {p}], HandlePort(t.hub, p))
      PROVE  UsbInv'
  <2> DEFINE w == t.todo \ {p}  f == [t EXCEPT !.todo = w]  h == HandlePort(t.hub, p)
  <2>1. p \in HubPorts /\ w \in SUBSET HubPorts
    BY <1>2 DEF Frame
  <2>2. CallFrom(f, h)
    BY <1>6
  <2>3. h \in Frame /\ h.fn = "handle" /\ h.pc = "status" /\ h.hub = t.hub /\ h.port = p
        /\ h.dev = NULL /\ h.parent = NULL
    BY <1>4, <2>1, HandleFrame
  <2> HIDE DEF w, t, h
  <2>4. f \in Frame /\ f.fn = "hubPoll" /\ f.pc = "ports" /\ f.hub = t.hub /\ f.dev = NULL /\ f.parent = NULL
    BY <1>2, <1>4, <2>1 DEF Frame
  <2> HIDE DEF f, Frame
  <2>5. PICK e \in Frame, g \in Frame : e = f /\ g = h
    BY <2>3, <2>4
  <2>6. FrameOK(e)
    BY <1>4, <2>4, <2>5, Numbers DEF FrameOK, HubPollOK, HubIds
  <2>7. FrameOK(g)
    BY <1>4, <2>1, <2>3, <2>5 DEF FrameOK, HandleOK
  <2>8. CalledBelow(e) /\ ApartBelow(e)
    BY <1>2, <2>4, <2>5, GoingParts, FitsBelow DEF Callbacks, t
  <2>9. ApartBelow(g)
    <3>1. Len(stack) = 1
      BY <1>2, GoingParts, CallbackAtBottom DEF Callbacks, t
    <3>2. QED
      BY <3>1 DEF ApartBelow
  <2>10. Called(e, g) /\ Apart(e, g)
    BY <2>3, <2>4, <2>5 DEF Called, Apart
  <2>11. Top.fn = "hubPoll" /\ Top.pc = "ports"
    BY <1>2 DEF t
  <2>12. QED
    BY <1>1, <1>2, <1>3, <2>2, <2>3, <2>4, <2>5, <2>6, <2>7, <2>8, <2>9, <2>10, <2>11, CalledOn
<1>7. QED
  BY <1>1, <1>5, <1>6

(* A quiet step of hubHandlePort.                                           *)
LEMMA HandleContinued ==
  ASSUME UsbInv, Live, SameTable, WorldOK', stack # <<>>, Top.fn = "handle", NEW f \in Frame,
         Continue(f), f.fn = "handle", f.hub = Top.hub, f.port = Top.port, f.dev = Top.dev,
         f.parent = Top.parent, HandleOK(f),
         f.pc \in {"status", "clear"} => Top.pc \in {"status", "clear"}
  PROVE  UsbInv'
<1> USE GoingParts
<1> HIDE DEF Frame
<1>1. Top.pc # "mark" /\ Top.dev = NULL /\ Top.parent = NULL
  BY TopOK DEF FrameOK, HandleOK
<1>2. FrameOK(f) /\ f.pc # "mark"
  BY <1>1 DEF FrameOK, HandleOK
<1>3. UNCHANGED hubs
  BY DEF SameTable, drivers
<1>4. CalledBelow(f) /\ ApartBelow(f)
  BY <1>3, FitsBelow
<1>5. QED
  BY <1>1, <1>2, <1>4, Continued

LEMMA PortStatusInv ==
  ASSUME UsbInv, PortStatus
  PROVE  UsbInv'
<1> DEFINE t == Top
           reached == Target(hubs[t.hub].dev)
           F(u) == [t EXCEPT !.hubThing = u, !.pc = "clear",
                             !.todo = IF At(<<u, t.port>>) = {} THEN {} ELSE {t.port}]
<1>1. /\ Running("handle", "status") /\ SameTable /\ UNCHANGED <<world, hw>>
      /\ \/ Return /\ (UNCHANGED missed \/ missed' = (missed \/ reached # {}))
         \/ (\E u \in reached \cap Hubs : Continue(F(u))) /\ UNCHANGED missed
  BY DEF PortStatus, SameTable
<1>2. Live /\ stack # <<>> /\ t \in Frame /\ t.fn = "handle" /\ t.pc = "status" /\ FrameOK(t)
  BY <1>1, AtTop
<1>3. CASE Return /\ (UNCHANGED missed \/ missed' = (missed \/ reached # {}))
  <2>1. missed' \in BOOLEAN
    BY <1>2, <1>3, NotMissed
  <2>2. WorldOK'
    BY <1>1, <1>2, <2>1, WorldSame
  <2>3. QED
    BY <1>1, <1>2, <1>3, <2>2, Returned
<1>4. ASSUME NEW u \in reached \cap Hubs, Continue(F(u)), UNCHANGED missed PROVE UsbInv'
  <2>1. WorldOK'
    BY <1>1, <1>2, <1>4, WorldSame, NotMissed
  <2>2. HandleOK(t)
    BY <1>2 DEF FrameOK
  <2>3. t.port \in HubPorts /\ u \in Things
    BY <1>4, <2>2 DEF HandleOK, Things
  <2> DEFINE x == IF At(<<u, t.port>>) = {} THEN {} ELSE {t.port}
             f == [t EXCEPT !.hubThing = u, !.pc = "clear", !.todo = x]
  <2>4. x \in SUBSET HubPorts
    BY <2>3
  <2>5. Continue(f)
    BY <1>4
  <2> HIDE DEF x, t
  <2>6. f \in Frame /\ f.fn = "handle" /\ f.pc = "clear" /\ f.hub = t.hub /\ f.port = t.port
        /\ f.dev = t.dev /\ f.parent = t.parent
    BY <1>2, <2>3, <2>4 DEF Frame
  <2> HIDE DEF f, Frame
  <2>7. PICK g \in Frame : g = f
    BY <2>6
  <2>8. HandleOK(g)
    BY <2>2, <2>6, <2>7 DEF HandleOK
  <2>9. QED
    BY <1>1, <1>2, <2>1, <2>5, <2>6, <2>7, <2>8, HandleContinued DEF t
<1>5. QED
  BY <1>1, <1>3, <1>4

LEMMA PortResetInv ==
  ASSUME UsbInv, PortReset
  PROVE  UsbInv'
<1> DEFINE t == Top
<1>1. /\ Running("handle", "reset") /\ SameTable /\ UNCHANGED at
      /\ \/ /\ \E u \in Things : Resets(u)
            /\ \/ Goto("enumerate") /\ UNCHANGED missed
               \/ Return /\ missed' = TRUE
         \/ Return /\ (\E b \in BOOLEAN : missed' = (missed \/ b)) /\ UNCHANGED <<hw, powered, change>>
  BY DEF PortReset, SameTable, At
<1>2. Live /\ stack # <<>> /\ t \in Frame /\ t.fn = "handle" /\ t.pc = "reset" /\ FrameOK(t)
  BY <1>1, AtTop
<1>3. missed \in BOOLEAN
  BY <1>2, GoingParts DEF TypeOK
<1>4. missed' \in BOOLEAN
  BY <1>1, <1>3
<1>5. WorldOK'
  <2>1. CASE \E u \in Things : Resets(u)
    BY <1>1, <1>2, <1>4, <2>1, WorldReset
  <2>2. CASE UNCHANGED <<hw, powered, change>>
    BY <1>1, <1>2, <1>4, <2>2, WorldSame DEF world
  <2>3. QED
    BY <1>1, <2>1, <2>2
<1>6. CASE Return
  BY <1>1, <1>2, <1>5, <1>6, Returned
<1>7. CASE Goto("enumerate")
  <2> DEFINE f == [t EXCEPT !.pc = "enumerate"]
  <2>1. Continue(f)
    BY <1>7 DEF Goto
  <2>2. /\ f \in Frame /\ f.pc = "enumerate" /\ f.fn = t.fn /\ f.port = t.port /\ f.dev = t.dev
        /\ f.parent = t.parent /\ f.hub = t.hub
    <3> HIDE DEF t
    <3>1. QED
      BY <1>2 DEF Frame
  <2>3. HandleOK(t)
    BY <1>2 DEF FrameOK
  <2> HIDE DEF f, t, Frame
  <2>4. PICK g \in Frame : g = f
    BY <2>2
  <2>5. HandleOK(g)
    BY <1>2, <2>2, <2>3, <2>4 DEF HandleOK
  <2>6. QED
    BY <1>1, <1>2, <1>5, <2>1, <2>2, <2>4, <2>5, HandleContinued DEF t
<1>8. QED
  BY <1>1, <1>6, <1>7

LEMMA EnumerateChildInv ==
  ASSUME UsbInv, EnumerateChild
  PROVE  UsbInv'
<1> DEFINE t == Top  d == hubs[t.hub].dev  h == Enumeration(t.hub, d, t.port)
           f == [t EXCEPT !.pc = "done"]
<1>1. /\ Running("handle", "enumerate") /\ SameTable /\ UNCHANGED <<world, hw, missed>>
      /\ CallFrom(f, h)
  BY DEF EnumerateChild, SameTable
<1>2. Live /\ stack # <<>> /\ t \in Frame /\ t.fn = "handle" /\ t.pc = "enumerate" /\ FrameOK(t)
  BY <1>1, AtTop
<1>3. WorldOK'
  BY <1>1, <1>2, WorldSame, NotMissed
<1>4. HandleOK(t) /\ t.dev = NULL /\ t.parent = NULL
  BY <1>2 DEF FrameOK
<1>5. t.hub \in HubIds /\ d # NULL /\ t.port \in HubPorts /\ hubs[t.hub].children[t.port] = NULL
  BY <1>2, <1>4 DEF HandleOK
<1>6. d \in Ids
  BY <1>2, <1>5, GoingParts DEF TypeOK
<1>7. t.hub # 0 /\ t.hub \in 0..(USB_MAX_HUBS + 1) /\ t.port \in Nat
  BY <1>2, <1>5, UsbAssumption, Numbers DEF HubIds, Frame
<1>8. h \in Frame /\ h.fn = "enumerate" /\ h.pc = "allocate" /\ h.hub = t.hub /\ h.parent = d
      /\ h.port = t.port /\ h.dev = NULL
  <2> HIDE DEF d, t
  <2>1. QED
    BY <1>6, <1>7, EnumerationFrame
<1>9. /\ f \in Frame /\ f.pc = "done" /\ f.fn = t.fn /\ f.port = t.port /\ f.dev = t.dev
      /\ f.parent = t.parent /\ f.hub = t.hub
  <2> HIDE DEF t
  <2>1. QED
    BY <1>2 DEF Frame
<1> HIDE DEF h, f, Frame
<1>10. PICK e \in Frame, g \in Frame : e = f /\ g = h
  BY <1>8, <1>9
<1>11. FrameOK(e)
  BY <1>2, <1>4, <1>9, <1>10 DEF FrameOK, HandleOK
<1>12. FrameOK(g)
  BY <1>5, <1>7, <1>8, <1>10 DEF FrameOK, EnumerateOK
<1>13. CalledBelow(e) /\ ApartBelow(e)
  BY <1>2, <1>9, <1>10, GoingParts, FitsBelow
<1>14. Called(e, g) /\ Apart(e, g)
  BY <1>2, <1>8, <1>9, <1>10 DEF Called, Apart
<1>15. ApartBelow(g)
  <2>1. \A i \in 1..(Len(stack) - 1) : Apart(stack[i], e)
    BY <1>13 DEF ApartBelow
  <2>2. \A i \in 1..(Len(stack) - 1) : Apart(stack[i], g)
    BY <1>2, <1>8, <1>9, <1>10, <2>1 DEF Apart
  <2>3. QED
    BY <2>2 DEF ApartBelow
<1>16. Top.fn = "handle" /\ Top.pc \notin {"mark", "maxLun"}
  BY <1>2
<1>17. CallFrom(e, g)
  BY <1>1, <1>10
<1>18. e.pc # "mark" /\ g.pc # "mark" /\ e.fn = Top.fn
  BY <1>2, <1>8, <1>9, <1>10
<1> HIDE DEF t
<1>19. QED
  BY <1>1, <1>2, <1>3, <1>10, <1>11, <1>12, <1>13, <1>14, <1>15, <1>16, <1>17, <1>18, CalledOn

-----------------------------------------------------------------------------
(* Steps that change the tables.                                            *)
TablesOK ==
  /\ devices \in [Ids -> Device \cup {NoDevice}]
  /\ rootDevices \in [RootPorts -> Ids \cup {NULL}]
  /\ connectedPorts \subseteq RootPorts
  /\ hubs \in [HubIds -> [dev : Ids \cup {NULL}, children : [HubPorts -> Ids \cup {NULL}]]]
  /\ storage \in [Slots -> [dev : Ids \cup {NULL}, scanPending : BOOLEAN,
                            registered : SUBSET Luns]]
  /\ queued \in [Slots -> Nat] /\ blocks \subseteq Slots \X Luns

LEMMA TablesFit ==
  ASSUME Live
  PROVE  TablesOK
BY GoingParts DEF TypeOK, TablesOK

LEMMA ChangedInv ==
  ASSUME Live, UNCHANGED halt, WorldOK', TablesOK', stack' \in Seq(Frame),
         Tree', HubsBound', UnitsBound' \/ Units', Calls'
  PROVE  UsbInv'
<1>1. halt' = "no"
  BY DEF Live
<1>2. TypeOK'
  BY <1>1 DEF TypeOK, WorldOK, TablesOK
<1>3. ShutdownLeavesNone'
  BY <1>1 DEF ShutdownLeavesNone
<1>4. QED
  BY <1>2, <1>3 DEF UsbInv, Going, Units

(* A device that enumeration works on is in the table, and pointed to by    *)
(* the port it was asked for, and by no other.                              *)
LEMMA OnePointer ==
  ASSUME Live, stack # <<>>, FrameOK(Top), Top.fn = "enumerate", Top \in Frame,
         Top.pc \in {"descriptor", "setAddress", "configure"}
  PROVE  /\ Top.dev \in Ids /\ Used(Top.dev) /\ Fresh(Top.dev)
         /\ \A p \in RootPorts : rootDevices[p] = Top.dev <=> Top.hub = 0 /\ p = Top.port
         /\ \A h \in HubIds, p \in HubPorts :
              hubs[h].children[p] = Top.dev <=> Top.hub # 0 /\ h = Top.hub /\ p = Top.port
         /\ IF Top.hub = 0 THEN Top.port \in RootPorts ELSE Top.hub \in HubIds /\ Top.port \in HubPorts
<1> USE GoingParts
<1> DEFINE t == Top  i == t.dev
<1>1. EnumerateOK(t) /\ t.pc \in {"descriptor", "setAddress", "configure"}
  BY DEF FrameOK
<1> HIDE DEF t
<1>2. /\ i # NULL /\ Fresh(i)
      /\ t.hub # 0 => /\ t.hub \in HubIds /\ hubs[t.hub].dev # NULL /\ t.port \in HubPorts
                      /\ hubs[t.hub].children[t.port] = i
      /\ t.hub = 0 => t.port \in RootPorts /\ rootDevices[t.port] = i
  BY <1>1 DEF EnumerateOK
<1> HIDE DEF i
<1>3. /\ \A p \in RootPorts : rootDevices[p] # NULL =>
           /\ rootDevices[p] \in Ids /\ Used(rootDevices[p]) /\ p \in connectedPorts
           /\ devices[rootDevices[p]].parent = NULL /\ devices[rootDevices[p]].port = p
      /\ \A h \in HubIds, p \in HubPorts : hubs[h].children[p] # NULL =>
           /\ hubs[h].children[p] \in Ids /\ Used(hubs[h].children[p])
           /\ devices[hubs[h].children[p]].parent = hubs[h].dev
           /\ devices[hubs[h].children[p]].port = p
  BY Pointers DEF Live, Tree
<1>4. i \in Ids /\ Used(i)
  BY <1>2, <1>3
<1>5. \A h \in HubIds, p \in HubPorts : hubs[h].children[p] # NULL => hubs[h].dev # NULL
  BY DEF Tree, HubSlots
<1>6. \A h, g \in HubIds : hubs[h].dev = hubs[g].dev /\ hubs[h].dev # NULL => h = g
  BY DEF Tree, HubSlots
<1>7. \A p \in RootPorts : rootDevices[p] = i <=> t.hub = 0 /\ p = t.port
  BY <1>2, <1>3
<1>8. \A h \in HubIds, p \in HubPorts :
        hubs[h].children[p] = i <=> t.hub # 0 /\ h = t.hub /\ p = t.port
  BY <1>2, <1>3, <1>5, <1>6
<1>9. QED
  BY <1>2, <1>4, <1>7, <1>8 DEF t, i

(* No call that waits for an enumeration has a pointer to its new device.   *)
LEMMA FreshBelow ==
  ASSUME stack \in Seq(Frame), Calls, stack # <<>>, Top.fn = "enumerate", NEW i \in Ids, Fresh(i)
  PROVE  \A k \in 1..(Len(stack) - 1) : stack[k].dev # i /\ stack[k].parent # i
<1> HIDE DEF Frame
<1>0. /\ Len(stack) \in Nat /\ Len(stack) >= 1 /\ Top = stack[Len(stack)]
      /\ DOMAIN stack = 1..Len(stack)
  BY Stacked
<1>1. i # NULL /\ \A h \in HubIds : hubs[h].dev # i
  BY UsbAssumption DEF Ids, NULL, Fresh
<1>2. ASSUME NEW k \in 1..(Len(stack) - 1), stack[k].fn = "hubProbe"
      PROVE  stack[k].dev # i /\ stack[k].parent # i
  <2>1. FrameOK(stack[k]) /\ Called(stack[k], stack[k + 1])
    BY Waiting
  <2>2. HubProbeOK(stack[k]) /\ stack[k].pc = "ports"
    BY <1>2, <2>1 DEF FrameOK, Called
  <2>3. QED
    BY <1>1, <2>2 DEF HubProbeOK
<1>3. ASSUME NEW k \in 1..(Len(stack) - 1), stack[k].fn = "enumerate"
      PROVE  stack[k].dev # i /\ stack[k].parent # i
  <2>1. FrameOK(stack[k]) /\ Called(stack[k], stack[k + 1])
    BY Waiting
  <2>2. /\ EnumerateOK(stack[k]) /\ stack[k + 1].fn \in {"hubProbe", "massProbe"}
        /\ stack[k + 1].dev = stack[k].dev
    BY <1>3, <2>1 DEF FrameOK, Called
  <2>3. stack[k].parent # i
    BY <1>1, <2>2 DEF EnumerateOK
  <2> DEFINE m == k + 1
  <2>5. stack[m].fn \in {"hubProbe", "massProbe"} /\ stack[m].dev = stack[k].dev
    BY <2>2
  <2>4. m \in 1..(Len(stack) - 1)
    <3> DEFINE n == Len(stack)
    <3>1. m \in 1..n /\ n \in Nat
      BY <1>0
    <3>2. stack[m].fn # stack[n].fn
      BY <1>0, <2>5
    <3> HIDE DEF m, n
    <3>3. m \in 1..(n - 1)
      BY <3>1, <3>2
    <3>4. QED
      BY <3>3 DEF n
  <2> HIDE DEF m
  <2>6. stack[m].fn = "hubProbe"
    <3>1. Called(stack[m], stack[m + 1])
      BY <2>4, Waiting
    <3>2. QED
      BY <2>5, <3>1 DEF Called
  <2>7. QED
    BY <1>2, <2>3, <2>4, <2>5, <2>6
<1>4. ASSUME NEW k \in 1..(Len(stack) - 1) PROVE stack[k].dev # i /\ stack[k].parent # i
  <2>1. FrameOK(stack[k]) /\ Called(stack[k], stack[k + 1])
    BY Waiting
  <2>2. CASE stack[k].fn \in {"hubProbe", "enumerate"}
    BY <1>2, <1>3, <2>2
  <2>3. CASE stack[k].fn \notin {"hubProbe", "enumerate"}
    <3>1. stack[k].fn # "massProbe"
      BY <2>1 DEF Called
    <3>2. stack[k].dev = NULL /\ stack[k].parent = NULL
      BY <2>1, <2>3, <3>1 DEF FrameOK
    <3>3. QED
      BY <1>1, <3>2
  <2>4. QED
    BY <2>2, <2>3
<1>5. QED
  BY <1>4

(* enumerateDevice gives up: only its device goes.                          *)
LEMMA FailInv ==
  ASSUME UsbInv, Live, stack # <<>>, Top.fn = "enumerate",
         Top.pc \in {"descriptor", "setAddress", "configure"},
         Fail, UNCHANGED <<world, connectedPorts, halt>>,
         hw' \in [Things -> {Off} \cup 0..USB_MAX_DEVICES]
  PROVE  UsbInv'
<1> USE GoingParts
<1> DEFINE i == Top.dev
<1>1. Top \in Frame /\ FrameOK(Top)
  <2> HIDE DEF Frame
  <2>1. QED
    BY Stacked, TopOK
<1>2. /\ i \in Ids /\ Used(i) /\ Fresh(i)
      /\ \A p \in RootPorts : rootDevices[p] = i <=> Top.hub = 0 /\ p = Top.port
      /\ \A h \in HubIds, p \in HubPorts :
           hubs[h].children[p] = i <=> Top.hub # 0 /\ h = Top.hub /\ p = Top.port
      /\ IF Top.hub = 0 THEN Top.port \in RootPorts ELSE Top.hub \in HubIds /\ Top.port \in HubPorts
  <2> HIDE DEF Frame
  <2>1. QED
    BY <1>1, OnePointer
<1> HIDE DEF Frame
<1> DEFINE D == {i}
<1>3. Closed(D)
  BY <1>2 DEF Closed, Behind, Fresh
<1>4. Gone(i) = D
  <2>1. i \in Gone(i) /\ \A E \in SUBSET Ids : i \in E /\ Closed(E) => Gone(i) \subseteq E
    BY <1>2, GoneSet
  <2>2. Gone(i) \subseteq D
    BY <1>2, <1>3, <2>1
  <2>3. QED
    BY <2>1, <2>2
<1>5. /\ \A j \in Ids : devices'[j] = IF j \in D THEN NoDevice ELSE devices[j]
      /\ devices' = [j \in Ids |-> IF j \in D THEN NoDevice ELSE devices[j]]
      /\ storage' = StorageWithout(D) /\ blocks' = BlocksWithout(D)
      /\ stack' = Invalidated(Front(stack), D) /\ UNCHANGED queued
  BY <1>4 DEF Fail, Disconnect
<1>6. Result(NULL) /\ missed' \in BOOLEAN
  BY DEF Fail, TypeOK
<1>7. Return
  <2> DEFINE st == Front(stack)
  <2>1. /\ st \in Seq(Frame) /\ Len(st) = Len(stack) - 1
        /\ \A k \in 1..(Len(stack) - 1) : st[k] = stack[k]
    BY Stacked
  <2>2. DOMAIN st = 1..(Len(stack) - 1)
    BY <2>1, LenProperties
  <2>3. \A k \in DOMAIN st : st[k].dev \notin D /\ st[k].parent \notin D
    BY <1>2, <2>1, <2>2, FreshBelow
  <2>4. Invalidated(st, D) = st
    <3> HIDE DEF st, D
    <3>1. QED
      BY <2>1, <2>3, NothingInvalidated
  <2>5. QED
    BY <1>5, <2>4 DEF Return
<1> DEFINE R == [dev : Ids \cup {NULL}, children : [HubPorts -> Ids \cup {NULL}]]
<1>8. /\ rootDevices' \in [RootPorts -> Ids \cup {NULL}] /\ hubs' \in [HubIds -> R]
      /\ \A p \in RootPorts : rootDevices'[p] = IF rootDevices[p] = i THEN NULL ELSE rootDevices[p]
      /\ \A h \in HubIds : hubs'[h].dev = hubs[h].dev
      /\ \A h \in HubIds, p \in HubPorts :
           hubs'[h].children[p] = IF hubs[h].children[p] = i THEN NULL ELSE hubs[h].children[p]
  <2>1. rootDevices \in [RootPorts -> Ids \cup {NULL}] /\ hubs \in [HubIds -> R]
    BY DEF TypeOK
  <2>2. CASE Top.hub = 0
    BY <1>2, <1>6, <2>1, <2>2 DEF Result
  <2>3. CASE Top.hub # 0
    <3>1. hubs' = [hubs EXCEPT ![Top.hub].children[Top.port] = NULL] /\ UNCHANGED rootDevices
      BY <1>6, <2>3 DEF Result
    <3>2. Top.hub \in HubIds /\ Top.port \in HubPorts
      BY <1>2, <2>3
    <3>3. ASSUME NEW h \in HubIds
          PROVE  /\ hubs'[h] \in R /\ hubs'[h].dev = hubs[h].dev
                 /\ \A p \in HubPorts : hubs'[h].children[p] =
                      IF h = Top.hub /\ p = Top.port THEN NULL ELSE hubs[h].children[p]
      <4>1. hubs[h] \in R
        BY <2>1
      <4>2. hubs'[h] = IF h = Top.hub THEN [hubs[h] EXCEPT !.children = [@ EXCEPT ![Top.port] = NULL]]
                                      ELSE hubs[h]
        BY <2>1, <3>1, <3>2
      <4>3. QED
        BY <3>2, <4>1, <4>2
    <3>4. hubs' \in [HubIds -> R]
      BY <2>1, <3>1, <3>3
    <3>5. \A p \in RootPorts : rootDevices[p] # i
      BY <1>2, <2>3
    <3>6. \A h \in HubIds, p \in HubPorts :
            hubs'[h].children[p] = IF hubs[h].children[p] = i THEN NULL ELSE hubs[h].children[p]
      BY <1>2, <2>3, <3>3
    <3>7. QED
      BY <2>1, <3>1, <3>3, <3>4, <3>5, <3>6
  <2>4. QED
    BY <2>2, <2>3
<1>9. /\ \A h \in HubIds : hubs[h].dev \notin D
      /\ \A j \in Ids : devices[j].parent # i
  BY <1>2 DEF Fresh
<1>10. NULL # i
  BY <1>2, UsbAssumption DEF Ids, NULL
<1>11. WorldOK'
  BY <1>6 DEF WorldOK, world
<1>12. DOMAIN stack' = 1..(Len(stack) - 1) /\ \A k \in 1..(Len(stack) - 1) : stack'[k] = stack[k]
  BY <1>7, Popped
<1>13. BeingRegistered = {}
  <2>1. Top.pc # "mark"
    OBVIOUS
  <2>2. QED
    BY <2>1, NoneBeingRegistered
<1>14. BeingRegistered' = {}
  <2>1. \A k \in DOMAIN stack' : stack'[k].pc # "mark"
    BY <1>12, Waiting
  <2>2. QED
    BY <2>1 DEF BeingRegistered
<1>15. UnitsBound' /\ blocks' \subseteq Slots \X Luns
  <2>1. D \in SUBSET Ids
    BY <1>2
  <2> HIDE DEF D
  <2>2. QED
    BY <1>5, <1>13, <1>14, <2>1, UnitsDetached DEF Live
<1>16. Tree'
  <2>1. D \in SUBSET Ids /\ i \in D /\ Used(i) /\ \A j \in D : j # i => devices[j].parent \in D
    BY <1>2
  <2>2. /\ \A h \in HubIds : hubs'[h].dev = IF hubs[h].dev \in D THEN NULL ELSE hubs[h].dev
        /\ \A h \in HubIds, p \in HubPorts : hubs'[h].children[p] =
             IF hubs[h].dev \in D \/ hubs[h].children[p] = i THEN NULL ELSE hubs[h].children[p]
    BY <1>8, <1>9
  <2>3. \A p \in RootPorts : p \in connectedPorts /\ rootDevices[p] # i => p \in connectedPorts'
    OBVIOUS
  <2> HIDE DEF D, i
  <2>4. halt = "no"
    BY DEF Live
  <2>5. QED
    BY <1>3, <1>5, <1>8, <2>1, <2>2, <2>3, <2>4, TreeDetached
<1>17. HubsBound'
  <2>1. ASSUME NEW h \in HubIds, Probed(h) PROVE Probed(h)'
    <3>1. stack' \in Seq(Frame) /\ \A k \in 1..(Len(stack) - 1) : k \in DOMAIN stack' /\ stack'[k] = stack[k]
      BY <1>7, <1>12, Popped
    <3>2. QED
      BY <2>1, <3>1, ProbedKept
  <2>2. ASSUME NEW h \in HubIds, hubs'[h].dev # NULL
        PROVE  \/ devices'[hubs'[h].dev].driver = "hub" /\ devices'[hubs'[h].dev].data = h
               \/ devices'[hubs'[h].dev].driver = "none" /\ Probed(h)'
    <3>1. hubs'[h].dev = hubs[h].dev /\ hubs[h].dev \in Ids
      BY <1>8, <2>2 DEF TypeOK
    <3>2. devices'[hubs'[h].dev] = devices[hubs[h].dev]
      BY <1>5, <1>9, <3>1
    <3>3. QED
      BY <2>1, <2>2, <3>1, <3>2 DEF HubsBound
  <2>3. QED
    BY <2>2 DEF HubsBound
<1>18. stack' \in Seq(Frame) /\ Calls'
  <2>1. HubsStay
    <3>1. \A h \in HubIds : hubs[h].dev # NULL => devices'[hubs[h].dev] = devices[hubs[h].dev]
      BY <1>5, <1>9 DEF TypeOK
    <3>2. QED
      BY <1>8, <3>1 DEF HubsStay, Used
  <2>2. StillOK(Len(stack) - 1)
    BY <2>1, HubsStayBelow
  <2>3. QED
    BY <1>7, <2>2, CallsPopped
<1>19. TablesOK'
  <2>1. devices' \in [Ids -> Device \cup {NoDevice}]
    BY <1>5 DEF TypeOK
  <2>2. storage' \in [Slots -> [dev : Ids \cup {NULL}, scanPending : BOOLEAN, registered : SUBSET Luns]]
    BY <1>2, <1>5, StorageCleared DEF UnitsBound, Live
  <2>3. queued' \in [Slots -> Nat] /\ connectedPorts' \subseteq RootPorts
    BY <1>5 DEF TypeOK
  <2>4. QED
    BY <1>8, <1>15, <2>1, <2>2, <2>3 DEF TablesOK
<1>20. QED
  BY <1>11, <1>15, <1>16, <1>17, <1>18, <1>19, ChangedInv

(* There is an address for every device: one of them is still at 0.         *)
LEMMA AddressFree ==
  ASSUME TypeOK, NEW i \in Ids, Used(i), devices[i].address = 0
  PROVE  /\ AllocateAddress \in 1..USB_MAX_DEVICES
         /\ \A j \in Ids : Used(j) => devices[j].address # AllocateAddress
<1> DEFINE N == USB_MAX_DEVICES
           used == {devices[j].address : j \in {k \in Ids : Used(k)}}
           S == {a \in 1..N : a \notin used}
           P(a) == a \notin used /\ \A b \in 1..(a - 1) : b \in used
<1>1. N \in Nat /\ N >= 1
  BY UsbAssumption
<1>2. S # {}
  <2>1. SUFFICES ASSUME S = {} PROVE FALSE
    OBVIOUS
  <2> DEFINE J == Ids \ {i}
             f == [j \in J |-> devices[j].address]
             T == {f[j] : j \in J}
  <2>2. IsFiniteSet(1..N) /\ Cardinality(1..N) = N
    BY <1>1, FS_Interval
  <2>3. IsFiniteSet(J) /\ Cardinality(J) = N - 1
    BY <2>2, FS_RemoveElement DEF Ids
  <2>4. f \in Surjection(J, T)
    BY DEF Surjection
  <2>5. IsFiniteSet(T) /\ Cardinality(T) <= N - 1
    <3> HIDE DEF J, f, T
    <3>1. QED
      BY <2>3, <2>4, FS_Surjection
  <2>6. 1..N \subseteq T
    <3>1. SUFFICES ASSUME NEW a \in 1..N PROVE a \in T
      OBVIOUS
    <3>2. a \in used
      BY <2>1, <3>1
    <3>3. PICK j \in Ids : Used(j) /\ devices[j].address = a
      BY <3>2
    <3>4. j # i
      BY <3>1, <3>3
    <3>5. QED
      BY <3>3, <3>4
  <2>7. Cardinality(1..N) <= Cardinality(T) /\ Cardinality(T) \in Nat
    <3> HIDE DEF T
    <3>1. QED
      BY <2>5, <2>6, FS_Subset, FS_CardinalityType
  <2> HIDE DEF T
  <2>8. QED
    BY <1>1, <2>2, <2>5, <2>7
<1>3. \A a \in 1..(N + 1) : P(a) => a \in S
  <2>1. SUFFICES ASSUME NEW a \in 1..(N + 1), P(a), a = N + 1 PROVE FALSE
    BY <1>1
  <2>2. \A b \in 1..N : b \in used
    BY <1>1, <2>1
  <2>3. QED
    BY <1>2, <2>2
<1>4. \E a \in 1..(N + 1) : P(a)
  <2>1. S \in SUBSET Nat
    OBVIOUS
  <2>2. PICK a \in S : \A k \in S : a <= k
    <3> HIDE DEF S
    <3>1. QED
      BY <1>2, <2>1, LeastOf
  <2>3. a \in 1..(N + 1) /\ a \notin used
    BY <1>1
  <2>4. ASSUME NEW b \in 1..(a - 1) PROVE b \in used
    <3>1. b \in 1..N /\ ~(a <= b)
      BY <1>1
    <3>2. QED
      BY <2>2, <3>1
  <2>5. QED
    BY <2>3, <2>4
<1>5. AllocateAddress = CHOOSE a \in 1..(N + 1) : P(a)
  BY DEF AllocateAddress
<1>6. AllocateAddress \in S
  <2> HIDE DEF P, S
  <2>1. QED
    BY <1>3, <1>4, <1>5
<1>7. QED
  BY <1>6

LEMMA GetDescriptorInv ==
  ASSUME UsbInv, GetDescriptor
  PROVE  UsbInv'
<1> DEFINE t == Top  a == AllocateAddress  f == [t EXCEPT !.pc = "setAddress", !.address = a]
<1>1. /\ Running("enumerate", "descriptor") /\ UNCHANGED <<world, hw, connectedPorts, halt>>
      /\ ((Continue(f) /\ UNCHANGED <<table, drivers, missed>>) \/ Fail)
  BY DEF GetDescriptor
<1>2. Live /\ stack # <<>> /\ t \in Frame /\ t.fn = "enumerate" /\ t.pc = "descriptor" /\ FrameOK(t)
  BY <1>1, AtTop
<1>3. CASE Fail
  <2>1. hw' \in [Things -> {Off} \cup 0..USB_MAX_DEVICES]
    BY <1>1, <1>2, GoingParts DEF WorldOK
  <2>2. QED
    BY <1>1, <1>2, <1>3, <2>1, FailInv
<1>4. CASE Continue(f) /\ UNCHANGED <<table, drivers, missed>>
  <2>1. EnumerateOK(t) /\ devices[t.dev].address = 0
    BY <1>2 DEF FrameOK, EnumerateOK
  <2>2. t.dev \in Ids /\ Used(t.dev)
    <3> HIDE DEF Frame
    <3>1. QED
      BY <1>2, OnePointer
  <2>3. a \in 0..USB_MAX_DEVICES
    <3>1. a \in 1..USB_MAX_DEVICES
      BY <1>2, <2>1, <2>2, AddressFree, GoingParts
    <3>2. QED
      BY <3>1
  <2>4. SameTable /\ WorldOK'
    BY <1>1, <1>2, <1>4, WorldSame, NotMissed DEF SameTable
  <2>5. Continue(f)
    BY <1>4
  <2> HIDE DEF a, t
  <2>6. f \in Frame /\ f.pc = "setAddress" /\ f.fn = "enumerate" /\ f.port = t.port /\ f.dev = t.dev
        /\ f.parent = t.parent /\ f.hub = t.hub
    BY <1>2, <2>3 DEF Frame
  <2> HIDE DEF f, Frame
  <2>7. PICK g \in Frame : g = f
    BY <2>6
  <2>8. FrameOK(g)
    BY <1>2, <2>1, <2>6, <2>7 DEF FrameOK, EnumerateOK
  <2>9. CalledBelow(g) /\ ApartBelow(g)
    BY <1>2, <2>6, <2>7, GoingParts, FitsBelow DEF t
  <2>10. Top.fn = "enumerate" /\ Top.pc \notin {"mark", "maxLun"}
    BY <1>2 DEF t
  <2>11. QED
    BY <1>2, <2>4, <2>5, <2>6, <2>7, <2>8, <2>9, <2>10, Continued
<1>5. QED
  BY <1>1, <1>3, <1>4

(* The call of a probe, for the device i of the thing u.                    *)
LEMMA ProbeFrame ==
  ASSUME NEW c \in Frame, NEW i \in Ids, NEW u \in Things
  PROVE  LET g == [c EXCEPT !.dev = i, !.hubThing = u] IN
         /\ g \in Frame /\ g.fn = c.fn /\ g.pc = c.pc /\ g.dev = i /\ g.parent = c.parent
         /\ g.hub = c.hub /\ g.hubThing = u
  BY DEF Frame

LEMMA ConfigureInv ==
  ASSUME UsbInv, Configure
  PROVE  UsbInv'
<1> DEFINE t == Top  f == [t EXCEPT !.pc = "bound"]
           G(u) == [Call(IF u \in Hubs THEN "hubProbe" ELSE "massProbe", "probe")
                      EXCEPT !.dev = t.dev, !.hubThing = u]
<1>1. /\ Running("enumerate", "configure") /\ UNCHANGED <<world, hw, connectedPorts, halt>>
      /\ \/ (\E u \in Things : CallFrom(f, G(u))) /\ UNCHANGED <<table, drivers, missed>>
         \/ Fail
  BY DEF Configure, Target, Answering
<1>2. Live /\ stack # <<>> /\ t \in Frame /\ t.fn = "enumerate" /\ t.pc = "configure" /\ FrameOK(t)
  BY <1>1, AtTop
<1>3. CASE Fail
  <2>1. hw' \in [Things -> {Off} \cup 0..USB_MAX_DEVICES]
    BY <1>1, <1>2, GoingParts DEF WorldOK
  <2>2. QED
    BY <1>1, <1>2, <1>3, <2>1, FailInv
<1>4. ASSUME NEW u \in Things, CallFrom(f, G(u)), UNCHANGED <<table, drivers, missed>> PROVE UsbInv'
  <2>1. SameTable /\ WorldOK'
    BY <1>1, <1>2, <1>4, WorldSame, NotMissed DEF SameTable
  <2>2. EnumerateOK(t)
    BY <1>2 DEF FrameOK
  <2>3. t.dev \in Ids /\ Used(t.dev) /\ Fresh(t.dev)
    <3> HIDE DEF Frame
    <3>1. QED
      BY <1>2, OnePointer
  <2> DEFINE fn == IF u \in Hubs THEN "hubProbe" ELSE "massProbe"
             c == Call(fn, "probe")
             g == [c EXCEPT !.dev = t.dev, !.hubThing = u]
  <2>4. c \in Frame /\ c.fn = fn /\ c.pc = "probe" /\ c.parent = NULL /\ c.hub = 0
    BY CallFields DEF Call
  <2>5. CallFrom(f, g)
    BY <1>4
  <2>6. fn \in {"hubProbe", "massProbe"} /\ (fn = "hubProbe" => u \in Hubs)
    OBVIOUS
  <2>7. t.dev # NULL
    BY <2>3, UsbAssumption DEF Ids, NULL
  <2> HIDE DEF c, t, fn
  <2>8. g \in Frame /\ g.fn = fn /\ g.pc = "probe" /\ g.dev = t.dev /\ g.parent = NULL /\ g.hub = 0
        /\ g.hubThing = u
    <3> DEFINE i == t.dev
    <3>1. i \in Ids
      BY <2>3
    <3> HIDE DEF i, Frame
    <3>2. LET r == [c EXCEPT !.dev = i, !.hubThing = u] IN
          /\ r \in Frame /\ r.fn = c.fn /\ r.pc = c.pc /\ r.dev = i /\ r.parent = c.parent
          /\ r.hub = c.hub /\ r.hubThing = u
      BY <2>4, <3>1, ProbeFrame
    <3>3. QED
      BY <2>4, <3>2 DEF i
  <2>9. /\ f \in Frame /\ f.pc = "bound" /\ f.fn = t.fn /\ f.port = t.port /\ f.dev = t.dev
        /\ f.parent = t.parent /\ f.hub = t.hub
    BY <1>2 DEF Frame
  <2> HIDE DEF g, f, Frame
  <2>10. PICK x \in Frame, y \in Frame : x = f /\ y = g
    BY <2>8, <2>9
  <2>11. FrameOK(x)
    BY <1>2, <2>2, <2>7, <2>9, <2>10 DEF FrameOK, EnumerateOK
  <2>12. HubProbeOK(y) \/ y.fn # "hubProbe"
    BY <2>3, <2>6, <2>7, <2>8, <2>10 DEF HubProbeOK, Fresh
  <2>13. MassProbeOK(y)
    BY <2>3, <2>7, <2>8, <2>10 DEF MassProbeOK
  <2>14. FrameOK(y)
    BY <2>6, <2>8, <2>10, <2>12, <2>13 DEF FrameOK
  <2>15. CalledBelow(x) /\ ApartBelow(x)
    BY <1>2, <2>9, <2>10, GoingParts, FitsBelow DEF t
  <2>16. Called(x, y) /\ Apart(x, y)
    BY <1>2, <2>6, <2>8, <2>9, <2>10 DEF Called, Apart
  <2>17. ApartBelow(y)
    <3>1. SUFFICES ASSUME NEW k \in 1..(Len(stack) - 1) PROVE Apart(stack[k], y)
      BY DEF ApartBelow
    <3>2. FrameOK(stack[k])
      BY <1>2, GoingParts, Waiting
    <3>3. stack[k].fn = "hubProbe" /\ stack[k].pc = "ports" => stack[k].hub \in HubIds
      BY <3>2 DEF FrameOK, HubProbeOK
    <3>4. 0 \notin HubIds
      BY Numbers
    <3>5. QED
      BY <2>8, <2>10, <3>3, <3>4 DEF Apart
  <2>18. Top.fn = "enumerate" /\ Top.pc \notin {"mark", "maxLun"} /\ x.fn = Top.fn /\ x.pc # "mark" /\ y.pc # "mark"
    BY <1>2, <2>8, <2>9, <2>10 DEF t
  <2>19. CallFrom(x, y)
    BY <2>5, <2>10
  <2>20. QED
    BY <1>2, <2>1, <2>10, <2>11, <2>14, <2>15, <2>16, <2>17, <2>18, <2>19, CalledOn
<1>5. QED
  BY <1>1, <1>3, <1>4

(* A step on which the running call goes on.                                *)
LEMMA ContinuedCalls ==
  ASSUME Live, stack # <<>>, NEW f \in Frame, Continue(f), StillOK(Len(stack) - 1),
         FrameOK(f)', f.fn = Top.fn, CalledBelow(f), ApartBelow(f),
         Top.pc # "mark", f.pc # "mark",
         Top.fn = "hubProbe" /\ Top.pc = "ports" => f.pc = "ports" /\ f.hub = Top.hub
  PROVE  /\ stack' \in Seq(Frame) /\ Calls'
         /\ BeingRegistered = {} /\ BeingRegistered' = {}
         /\ \A h \in HubIds : Probed(h) => Probed(h)'
<1> USE GoingParts
<1> HIDE DEF Frame
<1>3. stack' \in Seq(Frame) /\ Calls'
  BY CallsReplaced
<1>4. DOMAIN stack' = 1..Len(stack) /\ (\A i \in 1..(Len(stack) - 1) : stack'[i] = stack[i])
      /\ stack'[Len(stack)] = f
  BY Replaced
<1>5. Len(stack) \in Nat /\ Len(stack) >= 1
  BY Stacked
<1>6. \A h \in HubIds : Probed(h) => Probed(h)'
  <2>1. /\ \A i \in 1..(Len(stack) - 1) : i \in DOMAIN stack' /\ stack'[i] = stack[i]
        /\ Len(stack) \in DOMAIN stack'
    BY <1>4, <1>5
  <2>2. QED
    BY <1>3, <1>4, <2>1, ProbedKept
<1>7. BeingRegistered = {}
  BY NoneBeingRegistered
<1>8. BeingRegistered' = {}
  <2>1. ASSUME NEW i \in DOMAIN stack' PROVE stack'[i].pc # "mark"
    <3>1. CASE i = Len(stack)
      BY <1>4, <3>1
    <3>2. CASE i # Len(stack)
      <4>1. i \in 1..(Len(stack) - 1)
        BY <1>4, <1>5, <3>2
      <4>2. QED
        BY <1>4, <4>1, Waiting
    <3>3. QED
      BY <3>1, <3>2
  <2>2. QED
    BY <2>1 DEF BeingRegistered
<1>9. QED
  BY <1>3, <1>6, <1>7, <1>8

(* The tree stays when no device is connected elsewhere.                    *)
LEMMA SameShape ==
  ASSUME Live, UNCHANGED <<rootDevices, connectedPorts, hubs, halt>>,
         \A j \in Ids : /\ Used(j)' <=> Used(j)
                        /\ devices'[j].parent = devices[j].parent /\ devices'[j].port = devices[j].port
  PROVE  TreeInStep' /\ PortsFit' /\ Rooted'
<1>1. Tree /\ TypeOK
  BY GoingParts
<1>2. TreeInStep'
  <2>1. /\ \A p \in RootPorts : rootDevices[p] # NULL =>
             /\ rootDevices[p] \in Ids /\ Used(rootDevices[p]) /\ p \in connectedPorts
             /\ devices[rootDevices[p]].parent = NULL /\ devices[rootDevices[p]].port = p
        /\ \A h \in HubIds, p \in HubPorts : hubs[h].children[p] # NULL =>
             /\ hubs[h].children[p] \in Ids /\ Used(hubs[h].children[p])
             /\ devices[hubs[h].children[p]].parent = hubs[h].dev
             /\ devices[hubs[h].children[p]].port = p
        /\ \A j \in Ids : Used(j) /\ devices[j].parent = NULL => rootDevices[devices[j].port] = j
        /\ \A j \in Ids : Used(j) /\ devices[j].parent # NULL =>
             /\ Used(devices[j].parent)
             /\ \E h \in HubIds : /\ hubs[h].dev = devices[j].parent
                                  /\ hubs[h].children[devices[j].port] = j
    BY <1>1, Pointers DEF Tree, Live
  <2>2. \A j \in Ids : devices[j].parent \in Ids \cup {NULL}
    BY <1>1, DeviceFields
  <2>3. QED
    BY <2>1, <2>2 DEF TreeInStep, Used
<1>3. PortsFit' /\ Rooted'
  BY <1>1, RootedSame DEF Tree, PortsFit
<1>4. QED
  BY <1>2, <1>3

LEMMA SetAddressInv ==
  ASSUME UsbInv, SetAddress
  PROVE  UsbInv'
<1> DEFINE t == Top  i == t.dev  a == t.address  f == [t EXCEPT !.pc = "configure"]
<1>1. /\ Running("enumerate", "setAddress") /\ UNCHANGED <<world, connectedPorts, halt>>
      /\ hw' = hw \/ \E T \in SUBSET Things : hw' = [u \in Things |-> IF u \in T THEN a ELSE hw[u]]
      /\ \/ /\ devices' = [devices EXCEPT ![i].address = a] /\ Continue(f)
            /\ UNCHANGED <<rootDevices, drivers, missed>>
         \/ Fail
  BY DEF SetAddress, Goto, Target, Answering
<1>2. Live /\ stack # <<>> /\ t \in Frame /\ t.fn = "enumerate" /\ t.pc = "setAddress" /\ FrameOK(t)
  BY <1>1, AtTop
<1>3. a \in 0..USB_MAX_DEVICES
  BY <1>2 DEF Frame
<1>4. hw' \in [Things -> {Off} \cup 0..USB_MAX_DEVICES]
  <2>1. hw \in [Things -> {Off} \cup 0..USB_MAX_DEVICES]
    BY <1>2, GoingParts DEF WorldOK
  <2> HIDE DEF a
  <2>2. QED
    BY <1>1, <1>3, <2>1
<1>5. CASE Fail
  BY <1>1, <1>2, <1>4, <1>5, FailInv
<1>6. CASE /\ devices' = [devices EXCEPT ![i].address = a] /\ Continue(f)
           /\ UNCHANGED <<rootDevices, drivers, missed>>
  <2> USE GoingParts
  <2>1. EnumerateOK(t)
    BY <1>2 DEF FrameOK
  <2>2. i \in Ids /\ Used(i) /\ Fresh(i)
    <3> HIDE DEF Frame
    <3>1. QED
      BY <1>2, OnePointer
  <2> HIDE DEF t, i, a
  <2>3. /\ f \in Frame /\ f.pc = "configure" /\ f.fn = "enumerate" /\ f.port = t.port /\ f.dev = t.dev
        /\ f.parent = t.parent /\ f.hub = t.hub
    BY <1>2 DEF Frame
  <2> HIDE DEF f, Frame
  <2>4. TypeOK /\ devices[i] \in Device
    BY <1>2, <2>2 DEF TypeOK, Used
  <2> DEFINE d == [devices[i] EXCEPT !.address = a]
  <2>5. /\ d \in Device /\ d.parent = devices[i].parent /\ d.port = devices[i].port
        /\ d.driver = devices[i].driver /\ d.data = devices[i].data /\ d.address = a
    BY <1>3, <2>4 DEF Device
  <2>6. \A j \in Ids : devices'[j] = IF j = i THEN d ELSE devices[j]
    BY <1>6, <2>2, <2>4 DEF TypeOK
  <2> HIDE DEF d
  <2>7. Off \notin 0..USB_MAX_DEVICES
    BY UsbAssumption DEF Off
  <2>8. d # NoDevice
    BY <1>3, <2>5, <2>7 DEF NoDevice
  <2>9. \A j \in Ids : /\ Used(j)' <=> Used(j)
                       /\ devices'[j].parent = devices[j].parent /\ devices'[j].port = devices[j].port
                       /\ devices'[j].driver = devices[j].driver /\ devices'[j].data = devices[j].data
    BY <2>2, <2>5, <2>6, <2>8 DEF Used
  <2>10. /\ UNCHANGED <<rootDevices, connectedPorts, hubs, storage, queued, blocks, halt>>
         /\ halt = "no"
    BY <1>1, <1>2, <1>6 DEF drivers, Live
  <2>11. WorldOK'
    BY <1>1, <1>2, <1>4, <1>6 DEF WorldOK, world
  <2>12. TablesOK'
    <3>1. devices' \in [Ids -> Device \cup {NoDevice}]
      BY <1>6, <2>4, <2>5, <2>6 DEF TypeOK
    <3>2. TablesOK
      BY <1>2, TablesFit
    <3>3. QED
      BY <2>10, <3>1, <3>2 DEF TablesOK
  <2>13. Tree'
    <3>1. Tree /\ TypeOK
      BY <1>2
    <3>2. TreeInStep' /\ PortsFit' /\ Rooted'
      BY <1>2, <2>9, <2>10, SameShape
    <3>4. HubSlots'
      <4>1. \A h \in HubIds : hubs[h].dev # NULL => hubs[h].dev \in Ids
        BY <3>1 DEF TypeOK
      <4>2. QED
        BY <2>9, <2>10, <3>1, <4>1 DEF Tree, HubSlots, Used
    <3>5. QED
      BY <3>2, <3>4 DEF Tree
  <2>14. /\ stack' \in Seq(Frame) /\ Calls'
         /\ BeingRegistered = {} /\ BeingRegistered' = {}
         /\ \A h \in HubIds : Probed(h) => Probed(h)'
    <3>1. HubsStay
      <4>1. \A h \in HubIds : hubs[h].dev # NULL => hubs[h].dev \in Ids
        BY <1>2 DEF TypeOK
      <4>2. QED
        BY <2>9, <2>10, <4>1 DEF HubsStay, Used
    <3>2. StillOK(Len(stack) - 1)
      BY <1>2, <3>1, HubsStayBelow
    <3>3. PICK g \in Frame : g = f
      BY <2>3
    <3>4. FrameOK(g)'
      <4>0. g.dev = i
        BY <2>3, <3>3 DEF i
      <4>1. Fresh(g.dev)'
        BY <2>2, <2>9, <2>10, <4>0 DEF Fresh
      <4>2. EnumerateOK(g)'
        BY <1>2, <2>1, <2>3, <2>10, <3>3, <4>1 DEF EnumerateOK, i
      <4>3. QED
        BY <2>3, <3>3, <4>2 DEF FrameOK
    <3>5. CalledBelow(g) /\ ApartBelow(g)
      BY <1>2, <2>3, <3>3, FitsBelow DEF t
    <3>6. Top.fn = "enumerate" /\ Top.pc = "setAddress"
      BY <1>2 DEF t
    <3>7. QED
      BY <1>2, <1>6, <2>3, <3>2, <3>3, <3>4, <3>5, <3>6, ContinuedCalls
  <2>15. HubsBound'
    <3>1. \A h \in HubIds : hubs[h].dev # NULL => hubs[h].dev \in Ids
      BY <1>2 DEF TypeOK
    <3>2. QED
      BY <1>2, <2>9, <2>10, <2>14, <3>1 DEF HubsBound
  <2>16. UnitsBound'
    <3>0. UnitsBound
      BY <1>2, GoingParts DEF t
    <3>1. \A s \in Slots : storage[s].dev # NULL => storage[s].dev \in Ids
      BY <1>2 DEF TypeOK
    <3>2. SlotsBound' /\ StorageBound'
      BY <3>0, <1>2, <2>9, <2>10, <3>1 DEF UnitsBound, SlotsBound, StorageBound
    <3>3. BlocksInStep'
      BY <3>0, <1>2, <2>10, <2>14 DEF UnitsBound, BlocksInStep
    <3>4. QED
      BY <3>2, <3>3 DEF UnitsBound
  <2>17. QED
    BY <1>1, <1>2, <2>11, <2>12, <2>13, <2>14, <2>15, <2>16, ChangedInv
<1>7. QED
  BY <1>1, <1>5, <1>6

(* What is known of the slot whose device is asked.                         *)
LEMMA AskedSlot ==
  ASSUME Live, stack # <<>>, Top.pc = "maxLun"
  PROVE  /\ Top \in Frame /\ Top.fn = "massProbe" /\ Top.dev \in Ids /\ Used(Top.dev)
         /\ Top.slot \in Slots /\ FreshBut(Top.dev, Top.slot) /\ storage[Top.slot].dev = Top.dev
         /\ SlotsButAsked /\ BlocksInStep /\ StorageBound
<1> USE GoingParts
<1>1. Top \in Frame /\ FrameOK(Top)
  <2> HIDE DEF Frame
  <2>1. QED
    BY Stacked, TopOK
<1>2. Top.fn = "massProbe"
  BY <1>1 DEF Frame, FrameOK, PollOK, HubPollOK, ScanOK, EnumerateOK, HubProbeOK, HandleOK
<1>3. MassProbeOK(Top)
  BY <1>1, <1>2 DEF FrameOK
<1>4. /\ Top.dev \in Ids /\ Used(Top.dev) /\ Top.slot \in Slots /\ FreshBut(Top.dev, Top.slot)
      /\ storage[Top.slot].dev = Top.dev
  <2>1. Top.dev \in Ids
    BY <1>1, <1>3 DEF Frame, MassProbeOK
  <2>2. QED
    BY <1>3, <2>1 DEF MassProbeOK, FreshBut
<1>5. SlotsButAsked /\ BlocksInStep /\ StorageBound
  BY DEF Units, UnitsBound, UnitsAsked, SlotsBound, SlotsButAsked
<1>6. QED
  BY <1>1, <1>2, <1>4, <1>5

(* A pointer to what is not in the table is nowhere.                        *)
LEMMA FreeIsFresh ==
  ASSUME Live, NEW i \in Ids, ~Used(i)
  PROVE  /\ Fresh(i) /\ devices[i].address = Off
         /\ \A p \in RootPorts : rootDevices[p] # i
         /\ \A h \in HubIds, p \in HubPorts : hubs[h].children[p] # i
<1> USE GoingParts
<1>1. i # NULL
  BY UsbAssumption DEF Ids, NULL
<1>2. /\ \A p \in RootPorts : rootDevices[p] # NULL => Used(rootDevices[p])
      /\ \A h \in HubIds, p \in HubPorts : hubs[h].children[p] # NULL => Used(hubs[h].children[p])
      /\ \A j \in Ids : Used(j) /\ devices[j].parent # NULL => Used(devices[j].parent)
  BY Pointers DEF Tree, Live
<1>3. \A j \in Ids : devices[j].parent # i
  BY <1>1, <1>2, DeviceFields
<1>4. \A h \in HubIds : hubs[h].dev # i
  BY <1>1 DEF Tree, HubSlots
<1>5. devices[i].driver = "none" /\ devices[i].address = Off
  BY DeviceFields
<1>6. \A s \in Slots : storage[s].dev # i
  <2>1. halt = "no"
    BY DEF Live
  <2>2. CASE UnitsBound
    BY <1>1, <1>5, <2>1, <2>2 DEF UnitsBound, SlotsBound
  <2>3. CASE UnitsAsked
    <3>1. /\ SlotsButAsked /\ Used(Top.dev) /\ Top.slot \in Slots
          /\ storage[Top.slot].dev = Top.dev
      BY <2>3, AskedSlot DEF UnitsAsked, Asking
    <3>2. \A s \in Slots : s # Top.slot => storage[s].dev # i
      BY <1>1, <1>5, <2>1, <3>1 DEF SlotsButAsked
    <3>3. QED
      BY <3>1, <3>2
  <2>4. QED
    BY <2>2, <2>3 DEF Units
<1>7. QED
  BY <1>1, <1>2, <1>3, <1>4, <1>5, <1>6 DEF Fresh

LEMMA AllocateDeviceInv ==
  ASSUME UsbInv, AllocateDevice
  PROVE  UsbInv'
<1> DEFINE t == Top  free == {j \in Ids : ~Used(j)}
           i == CHOOSE j \in free : \A k \in free : j <= k
           d == [NoDevice EXCEPT !.parent = t.parent, !.port = t.port, !.address = 0]
           f == [t EXCEPT !.dev = i, !.pc = "descriptor"]
<1>1. /\ Running("enumerate", "allocate")
      /\ UNCHANGED <<world, hw, connectedPorts, storage, queued, blocks, halt>>
      /\ \/ /\ free # {}
            /\ devices' = [devices EXCEPT ![i] = d] /\ Result(i) /\ Continue(f) /\ UNCHANGED missed
         \/ /\ Return /\ missed' = TRUE /\ UNCHANGED <<table, hubs>>
  BY DEF AllocateDevice
<1>2. Live /\ stack # <<>> /\ t \in Frame /\ t.fn = "enumerate" /\ t.pc = "allocate" /\ FrameOK(t)
  BY <1>1, AtTop
<1>3. missed' \in BOOLEAN
  BY <1>1, <1>2, NotMissed
<1>4. WorldOK'
  BY <1>1, <1>2, <1>3, WorldSame
<1>5. CASE Return /\ missed' = TRUE /\ UNCHANGED <<table, hubs>>
  <2>1. SameTable
    BY <1>1, <1>5 DEF SameTable, drivers
  <2>2. QED
    BY <1>2, <1>4, <1>5, <2>1, Returned
<1>6. CASE /\ free # {}
           /\ devices' = [devices EXCEPT ![i] = d] /\ Result(i) /\ Continue(f) /\ UNCHANGED missed
  <2> USE GoingParts
  <2>1. /\ t.dev = NULL
        /\ t.hub # 0 => t.hub \in HubIds /\ t.parent # NULL /\ hubs[t.hub].dev = t.parent
        /\ t.hub = 0 => t.parent = NULL
        /\ IF t.hub = 0
           THEN t.port \in RootPorts /\ t.port \in connectedPorts /\ rootDevices[t.port] = NULL
           ELSE t.port \in HubPorts /\ hubs[t.hub].children[t.port] = NULL
    BY <1>2 DEF FrameOK, EnumerateOK
  <2>2. i \in free
    <3>1. free \in SUBSET Nat
      BY Numbers
    <3> HIDE DEF free
    <3>2. QED
      BY <1>6, <3>1, LeastChosen
  <2> HIDE DEF i
  <2>3. i \in Ids /\ ~Used(i) /\ i # NULL
    BY <2>2, Numbers DEF NULL
  <2> HIDE DEF free
  <2>4. PICK n \in Ids : n = i
    BY <2>3
  <2>5. /\ Fresh(n)
        /\ \A p \in RootPorts : rootDevices[p] # n
        /\ \A h \in HubIds, p \in HubPorts : hubs[h].children[p] # n
    BY <1>2, <2>3, <2>4, FreeIsFresh
  <2>6. /\ d.parent = t.parent /\ d.port = t.port /\ d.address = 0 /\ d.driver = "none" /\ d.data = 0
    BY DEF NoDevice
  <2>7. d \in Device
    <3>1. t.parent \in Ids \cup {NULL} /\ t.port \in RootPorts \cup HubPorts
      BY <1>2, <2>1 DEF Frame
    <3>2. 0 \in 0..USB_MAX_DEVICES
      BY UsbAssumption
    <3> HIDE DEF t
    <3>3. QED
      BY <3>1, <3>2 DEF NoDevice, Device
  <2> HIDE DEF d, t
  <2>8. d # NoDevice
    BY <2>6 DEF NoDevice, Off
  <2>9. /\ f \in Frame /\ f.pc = "descriptor" /\ f.fn = "enumerate" /\ f.port = t.port /\ f.dev = n
        /\ f.parent = t.parent /\ f.hub = t.hub
    BY <1>2, <2>4 DEF Frame
  <2> HIDE DEF f, Frame
  <2>10. \A j \in Ids : devices'[j] = IF j = n THEN d ELSE devices[j]
    BY <1>2, <1>6, <2>4 DEF TypeOK
  <2>11. Used(n)' /\ (\A j \in Ids : j # n => (Used(j)' <=> Used(j))) /\ ~Used(n)
    BY <2>3, <2>4, <2>8, <2>10 DEF Used
  <2> DEFINE R == [dev : Ids \cup {NULL}, children : [HubPorts -> Ids \cup {NULL}]]
  <2>12. /\ rootDevices' \in [RootPorts -> Ids \cup {NULL}] /\ hubs' \in [HubIds -> R]
         /\ \A p \in RootPorts :
              rootDevices'[p] = IF t.hub = 0 /\ p = t.port THEN n ELSE rootDevices[p]
         /\ \A h \in HubIds : hubs'[h].dev = hubs[h].dev
         /\ \A h \in HubIds, p \in HubPorts :
              hubs'[h].children[p] =
                IF t.hub # 0 /\ h = t.hub /\ p = t.port THEN n ELSE hubs[h].children[p]
    <3>1. rootDevices \in [RootPorts -> Ids \cup {NULL}] /\ hubs \in [HubIds -> R]
      BY <1>2 DEF TypeOK
    <3>2. CASE t.hub = 0
      <4>1. rootDevices' = [rootDevices EXCEPT ![t.port] = n] /\ UNCHANGED hubs
        BY <1>6, <2>4, <3>2 DEF Result, t
      <4>2. QED
        BY <2>1, <3>1, <3>2, <4>1
    <3>3. CASE t.hub # 0
      <4>1. hubs' = [hubs EXCEPT ![t.hub].children[t.port] = n] /\ UNCHANGED rootDevices
        BY <1>6, <2>4, <3>3 DEF Result, t
      <4>2. t.hub \in HubIds /\ t.port \in HubPorts
        BY <2>1, <3>3
      <4>3. ASSUME NEW h \in HubIds
            PROVE  /\ hubs'[h] \in R /\ hubs'[h].dev = hubs[h].dev
                   /\ \A p \in HubPorts : hubs'[h].children[p] =
                        IF h = t.hub /\ p = t.port THEN n ELSE hubs[h].children[p]
        <5>1. hubs[h] \in R
          BY <3>1
        <5>2. hubs'[h] = IF h = t.hub THEN [hubs[h] EXCEPT !.children = [@ EXCEPT ![t.port] = n]]
                                      ELSE hubs[h]
          BY <3>1, <4>1, <4>2
        <5>3. QED
          BY <4>2, <5>1, <5>2
      <4>4. hubs' \in [HubIds -> R]
        BY <3>1, <4>1, <4>3
      <4>5. QED
        BY <3>1, <3>3, <4>1, <4>3, <4>4
    <3>4. QED
      BY <3>2, <3>3
  <2>13. UNCHANGED <<connectedPorts, storage, queued, blocks, halt>> /\ halt = "no"
    BY <1>1, <1>2 DEF Live
  <2>14. TablesOK'
    <3>1. devices' \in [Ids -> Device \cup {NoDevice}]
      BY <1>2, <1>6, <2>7, <2>10 DEF TypeOK
    <3>2. TablesOK
      BY <1>2, TablesFit
    <3>3. QED
      BY <2>12, <2>13, <3>1, <3>2 DEF TablesOK
  <2>15. t.parent # NULL => t.parent \in Ids /\ Used(t.parent) /\ t.parent # n
    <3>1. \A h \in HubIds : hubs[h].dev # NULL => Used(hubs[h].dev) /\ hubs[h].dev \in Ids
      BY <1>2 DEF Tree, HubSlots, TypeOK
    <3>2. QED
      BY <2>1, <2>11, <3>1
  <2>16. Tree'
    <3>1. Tree /\ TypeOK
      BY <1>2
    <3>2. /\ \A p \in RootPorts : rootDevices[p] # NULL =>
               /\ rootDevices[p] \in Ids /\ Used(rootDevices[p]) /\ p \in connectedPorts
               /\ devices[rootDevices[p]].parent = NULL /\ devices[rootDevices[p]].port = p
          /\ \A h \in HubIds, p \in HubPorts : hubs[h].children[p] # NULL =>
               /\ hubs[h].children[p] \in Ids /\ Used(hubs[h].children[p])
               /\ devices[hubs[h].children[p]].parent = hubs[h].dev
               /\ devices[hubs[h].children[p]].port = p
          /\ \A j \in Ids : Used(j) /\ devices[j].parent = NULL => rootDevices[devices[j].port] = j
          /\ \A j \in Ids : Used(j) /\ devices[j].parent # NULL =>
               /\ Used(devices[j].parent)
               /\ \E h \in HubIds : /\ hubs[h].dev = devices[j].parent
                                    /\ hubs[h].children[devices[j].port] = j
      BY <2>13, <3>1, Pointers DEF Tree
    <3>3. \A p \in RootPorts : rootDevices'[p] # NULL =>
            /\ p \in connectedPorts /\ devices'[rootDevices'[p]].parent = NULL
            /\ devices'[rootDevices'[p]].port = p
      <4>1. SUFFICES ASSUME NEW p \in RootPorts, rootDevices'[p] # NULL
                     PROVE  /\ p \in connectedPorts /\ devices'[rootDevices'[p]].parent = NULL
                            /\ devices'[rootDevices'[p]].port = p
        OBVIOUS
      <4>2. CASE t.hub = 0 /\ p = t.port
        BY <2>1, <2>6, <2>10, <2>12, <4>2
      <4>3. CASE ~(t.hub = 0 /\ p = t.port)
        <5>1. rootDevices'[p] = rootDevices[p] /\ rootDevices[p] # n
          BY <2>5, <2>12, <4>3
        <5>2. QED
          BY <2>10, <3>2, <4>1, <5>1
      <4>4. QED
        BY <4>2, <4>3
    <3>4. \A h \in HubIds, p \in HubPorts : hubs'[h].children[p] # NULL =>
            /\ devices'[hubs'[h].children[p]] # NoDevice
            /\ devices'[hubs'[h].children[p]].parent = hubs'[h].dev
            /\ devices'[hubs'[h].children[p]].port = p
      <4>1. SUFFICES ASSUME NEW h \in HubIds, NEW p \in HubPorts, hubs'[h].children[p] # NULL
                     PROVE  /\ devices'[hubs'[h].children[p]] # NoDevice
                            /\ devices'[hubs'[h].children[p]].parent = hubs'[h].dev
                            /\ devices'[hubs'[h].children[p]].port = p
        OBVIOUS
      <4>2. CASE t.hub # 0 /\ h = t.hub /\ p = t.port
        BY <2>1, <2>6, <2>8, <2>10, <2>12, <4>2
      <4>3. CASE ~(t.hub # 0 /\ h = t.hub /\ p = t.port)
        <5>1. hubs'[h].children[p] = hubs[h].children[p] /\ hubs[h].children[p] # n
              /\ hubs'[h].dev = hubs[h].dev
          BY <2>5, <2>12, <4>3
        <5>2. QED
          BY <2>10, <3>2, <4>1, <5>1 DEF Used
      <4>4. QED
        BY <4>2, <4>3
    <3>5. \A j \in Ids : Used(j)' =>
            IF devices'[j].parent = NULL THEN rootDevices'[devices'[j].port] = j
            ELSE /\ devices'[devices'[j].parent] # NoDevice
                 /\ \E h \in HubIds : /\ hubs'[h].dev = devices'[j].parent
                                      /\ hubs'[h].children[devices'[j].port] = j
      <4>1. SUFFICES ASSUME NEW j \in Ids, Used(j)'
                     PROVE  IF devices'[j].parent = NULL THEN rootDevices'[devices'[j].port] = j
                            ELSE /\ devices'[devices'[j].parent] # NoDevice
                                 /\ \E h \in HubIds : /\ hubs'[h].dev = devices'[j].parent
                                                      /\ hubs'[h].children[devices'[j].port] = j
        BY DEF Used
      <4>2. CASE j = n
        <5>1. devices'[j].parent = t.parent /\ devices'[j].port = t.port
          BY <2>6, <2>10, <4>2
        <5>2. CASE t.hub = 0
          BY <2>1, <2>12, <4>2, <5>1, <5>2
        <5>3. CASE t.hub # 0
          <6>1. devices'[t.parent] # NoDevice
            BY <2>1, <2>10, <2>15, <5>3 DEF Used
          <6>2. hubs'[t.hub].dev = t.parent /\ hubs'[t.hub].children[t.port] = j /\ t.hub \in HubIds
            BY <2>1, <2>12, <4>2, <5>3
          <6>3. QED
            BY <2>1, <5>1, <5>3, <6>1, <6>2
        <5>4. QED
          BY <5>2, <5>3
      <4>3. CASE j # n
        <5>1. devices'[j] = devices[j] /\ Used(j) /\ j # NULL
          BY <2>10, <2>11, <4>1, <4>3, UsbAssumption DEF Ids, NULL
        <5>2. devices[j].port \in IF devices[j].parent = NULL THEN RootPorts ELSE HubPorts
          BY <3>1, <5>1 DEF Tree, PortsFit
        <5>3. CASE devices[j].parent = NULL
          BY <2>1, <2>12, <3>2, <5>1, <5>2, <5>3
        <5>4. CASE devices[j].parent # NULL
          <6>1. devices[j].parent \in Ids /\ Used(devices[j].parent)
            BY <3>1, <3>2, <5>1, <5>4, DeviceFields
          <6>2. devices'[devices[j].parent] # NoDevice
            BY <2>10, <2>11, <6>1 DEF Used
          <6>3. PICK h \in HubIds : hubs[h].dev = devices[j].parent /\ hubs[h].children[devices[j].port] = j
            BY <3>2, <5>1, <5>4
          <6>4. hubs'[h].dev = devices[j].parent /\ hubs'[h].children[devices[j].port] = j
            BY <2>1, <2>12, <5>1, <5>2, <5>4, <6>3
          <6>5. QED
            BY <5>1, <5>4, <6>2, <6>4
        <5>5. QED
          BY <5>3, <5>4
      <4>4. QED
        BY <4>2, <4>3
    <3>6. TreeInStep'
      BY <2>13, <3>3, <3>4, <3>5 DEF TreeInStep, Used
    <3>7. PortsFit'
      BY <2>1, <2>6, <2>10, <2>11, <3>1 DEF Tree, PortsFit
    <3>8. Rooted'
      <4>1. devices'[n].parent # NULL => devices'[n].parent \in Ids /\ Used(devices'[n].parent)
        BY <2>6, <2>10, <2>15
      <4>2. \A j \in Ids : j # n => devices'[j] = devices[j]
        BY <2>10
      <4>3. QED
        BY <2>11, <3>1, <4>1, <4>2, RootedAdded DEF Tree
    <3>9. HubSlots'
      <4>1. \A h \in HubIds : hubs[h].dev # NULL => hubs[h].dev \in Ids /\ Used(hubs[h].dev)
        BY <3>1 DEF TypeOK, Tree, HubSlots
      <4>2. \A h \in HubIds : hubs'[h].dev # NULL => devices'[hubs'[h].dev] # NoDevice
        BY <2>8, <2>10, <2>12, <4>1 DEF Used
      <4>3. \A h \in HubIds, p \in HubPorts : hubs'[h].dev = NULL => hubs'[h].children[p] = NULL
        BY <2>1, <2>12, <3>1 DEF Tree, HubSlots
      <4>4. \A h, g \in HubIds : hubs'[h].dev = hubs'[g].dev /\ hubs'[h].dev # NULL => h = g
        BY <2>12, <3>1 DEF Tree, HubSlots
      <4>5. \A j \in Ids : devices'[j].driver = "hub" =>
              devices'[j].data \in HubIds /\ hubs'[devices'[j].data].dev = j
        BY <2>6, <2>10, <2>12, <3>1 DEF Tree, HubSlots
      <4>6. QED
        BY <4>2, <4>3, <4>4, <4>5 DEF HubSlots, Used
    <3>10. QED
      BY <3>6, <3>7, <3>8, <3>9 DEF Tree
  <2>17. \A h \in HubIds : hubs[h].dev # NULL => hubs[h].dev \in Ids /\ devices'[hubs[h].dev] = devices[hubs[h].dev]
    BY <1>2, <2>5, <2>10 DEF TypeOK, Fresh
  <2>18. /\ stack' \in Seq(Frame) /\ Calls'
         /\ BeingRegistered = {} /\ BeingRegistered' = {}
         /\ \A h \in HubIds : Probed(h) => Probed(h)'
    <3>1. HubsStay
      <4>1. Top = t /\ t.fn = "enumerate"
        BY <1>2 DEF t
      <4>2. QED
        BY <2>12, <2>17, <4>1 DEF HubsStay, Used
    <3>2. StillOK(Len(stack) - 1)
      BY <1>2, <3>1, HubsStayBelow
    <3>3. PICK g \in Frame : g = f
      BY <2>9
    <3>4. FrameOK(g)'
      <4>1. Fresh(n)'
        <5>1. \A j \in Ids : devices'[j].parent # n
          BY <2>3, <2>4, <2>5, <2>6, <2>10, <2>15 DEF Fresh
        <5>2. QED
          BY <2>5, <2>6, <2>10, <2>12, <2>13, <5>1 DEF Fresh
      <4>2. n # NULL /\ devices'[n].address = 0
        BY <2>3, <2>4, <2>6, <2>10
      <4>3. PICK w \in Frame : w = t
        BY <1>2
      <4>4. g.hub # 0 => g.hub \in HubIds /\ g.parent # NULL /\ hubs'[g.hub].dev = g.parent
        BY <2>1, <2>9, <2>12, <3>3
      <4>5. g.hub = 0 => g.parent = NULL
        BY <2>1, <2>9, <3>3
      <4>6. IF g.hub = 0
            THEN g.port \in RootPorts /\ g.port \in connectedPorts /\ rootDevices'[g.port] = n
            ELSE g.port \in HubPorts /\ hubs'[g.hub].children[g.port] = n
        BY <2>1, <2>9, <2>12, <3>3, <4>4
      <4>7. EnumerateOK(g)'
        BY <2>9, <2>13, <3>3, <4>1, <4>2, <4>4, <4>5, <4>6 DEF EnumerateOK
      <4>8. QED
        BY <2>9, <3>3, <4>7 DEF FrameOK
    <3>5. CalledBelow(g) /\ ApartBelow(g)
      BY <1>2, <2>9, <3>3, FitsBelow DEF t
    <3>6. Top.fn = "enumerate" /\ Top.pc = "allocate"
      BY <1>2 DEF t
    <3>7. QED
      BY <1>2, <1>6, <2>9, <3>2, <3>3, <3>4, <3>5, <3>6, ContinuedCalls
  <2>19. HubsBound'
    BY <1>2, <2>12, <2>17, <2>18 DEF HubsBound
  <2>20. UnitsBound'
    <3>0. UnitsBound
      BY <1>2, GoingParts DEF t
    <3>1. \A s \in Slots : storage[s].dev # NULL =>
            storage[s].dev \in Ids /\ devices'[storage[s].dev] = devices[storage[s].dev]
      BY <1>2, <2>5, <2>10 DEF TypeOK, Fresh
    <3>2. SlotsBound' /\ StorageBound'
      BY <3>0, <1>2, <2>6, <2>10, <2>13, <3>1 DEF UnitsBound, SlotsBound, StorageBound
    <3>3. BlocksInStep'
      BY <3>0, <1>2, <2>13, <2>18 DEF UnitsBound, BlocksInStep
    <3>4. QED
      BY <3>2, <3>3 DEF UnitsBound
  <2>21. QED
    BY <1>1, <1>2, <1>4, <2>14, <2>16, <2>18, <2>19, <2>20, ChangedInv
<1>7. QED
  BY <1>1, <1>5, <1>6

LEMMA HubProbeInv ==
  ASSUME UsbInv, HubProbe
  PROVE  UsbInv'
<1> DEFINE t == Top  u == t.hubThing
           free == {g \in HubIds : hubs[g].dev = NULL}
           h == CHOOSE g \in free : \A k \in free : g <= k
           f == [t EXCEPT !.hub = h, !.pc = "ports"]
           r == [NoHub EXCEPT !.dev = t.dev]
<1>1. /\ Running("hubProbe", "probe")
      /\ UNCHANGED <<at, hw, table, connectedPorts, storage, queued, blocks, halt>>
      /\ \/ /\ powered' = powered \cup {u} /\ change' = change \cup {at[v] : v \in OnHub(u)}
            /\ \/ /\ free # {} /\ hubs' = [hubs EXCEPT ![h] = r] /\ Continue(f) /\ UNCHANGED missed
               \/ Return /\ missed' = TRUE /\ UNCHANGED hubs
         \/ /\ Return /\ (\E b \in BOOLEAN : missed' = (missed \/ b))
            /\ UNCHANGED <<hubs, powered, change>>
  BY DEF HubProbe
<1>2. Live /\ stack # <<>> /\ t \in Frame /\ t.fn = "hubProbe" /\ t.pc = "probe" /\ FrameOK(t)
  BY <1>1, AtTop
<1>3. /\ t.dev # NULL /\ t.parent = NULL /\ u \in Hubs /\ Used(t.dev) /\ devices[t.dev].driver = "none"
      /\ Fresh(t.dev)
  BY <1>2 DEF FrameOK, HubProbeOK
<1>4. WorldOK'
  <2>1. WorldOK /\ missed \in BOOLEAN
    BY <1>2, GoingParts DEF WorldOK
  <2>2. missed' \in BOOLEAN
    BY <1>1, <2>1
  <2>3. \A v \in OnHub(u) : at[v] \in Hubs \X HubPorts
    BY <1>3 DEF OnHub
  <2>4. powered' \subseteq Hubs /\ change' \subseteq Hubs \X HubPorts
    BY <1>1, <1>3, <2>1, <2>3 DEF WorldOK
  <2>5. QED
    BY <1>1, <2>1, <2>2, <2>4 DEF WorldOK
<1>5. CASE Return /\ UNCHANGED hubs
  <2>1. SameTable
    BY <1>1, <1>5 DEF SameTable, drivers
  <2>2. QED
    BY <1>2, <1>4, <1>5, <2>1, Returned
<1>6. CASE free # {} /\ hubs' = [hubs EXCEPT ![h] = r] /\ Continue(f)
  <2> USE GoingParts
  <2>1. h \in free
    <3>1. free \in SUBSET Nat
      BY Numbers
    <3> HIDE DEF free
    <3>2. QED
      BY <1>6, <3>1, LeastChosen
  <2>2. t.dev \in Ids
    BY <1>2, <1>3 DEF Frame
  <2> HIDE DEF h
  <2>3. h \in HubIds /\ hubs[h].dev = NULL
    BY <2>1
  <2> HIDE DEF t, free
  <2> DEFINE R == [dev : Ids \cup {NULL}, children : [HubPorts -> Ids \cup {NULL}]]
  <2>4. r \in R /\ r.dev = t.dev /\ \A p \in HubPorts : r.children[p] = NULL
    BY <2>2 DEF NoHub
  <2> HIDE DEF r
  <2>5. hubs' \in [HubIds -> R] /\ \A g \in HubIds : hubs'[g] = IF g = h THEN r ELSE hubs[g]
    BY <1>2, <1>6, <2>3, <2>4 DEF TypeOK
  <2>6. h \in 0..(USB_MAX_HUBS + 1)
    BY <2>3, UsbAssumption DEF HubIds
  <2>7. /\ f \in Frame /\ f.pc = "ports" /\ f.fn = "hubProbe" /\ f.dev = t.dev /\ f.parent = NULL
        /\ f.hub = h /\ f.hubThing = u
    BY <1>2, <1>3, <2>6 DEF Frame
  <2> HIDE DEF f, Frame
  <2>8. PICK g \in Frame : g = f
    BY <2>7
  <2>9. UNCHANGED <<devices, rootDevices, connectedPorts, storage, queued, blocks, halt>> /\ halt = "no"
    BY <1>1, <1>2 DEF table, Live
  <2>10. \A k \in HubIds : hubs[k].dev # t.dev
    BY <1>3 DEF Fresh
  <2>11. \A k \in HubIds, p \in HubPorts : hubs'[k].children[p] = hubs[k].children[p]
    BY <1>2, <2>3, <2>4, <2>5 DEF Tree, HubSlots
  <2>12. \A k \in HubIds : hubs[k].dev # NULL => hubs'[k] = hubs[k]
    BY <2>3, <2>5
  <2>13. StillOK(Len(stack) - 1)
    <3>1. HubsStay
      <4>1. \A k \in HubIds : hubs[k].dev # NULL => hubs[k].dev \in Ids
        BY <1>2 DEF TypeOK
      <4>2. QED
        BY <2>9, <2>12, <4>1 DEF HubsStay, Used
    <3>2. QED
      BY <1>2, <3>1, HubsStayBelow
  <2>14. FrameOK(g)'
    <3>1. HubProbeOK(g)'
      BY <1>3, <2>3, <2>4, <2>5, <2>7, <2>8, <2>9 DEF HubProbeOK, Used
    <3>2. QED
      BY <2>7, <2>8, <3>1 DEF FrameOK
  <2>15. CalledBelow(g)
    <3>1. SUFFICES ASSUME NEW e \in Frame, Len(stack) >= 2, e = stack[Len(stack) - 1]
                   PROVE  Called(e, g)'
      BY DEF CalledBelow
    <3>2. Called(e, Top)
      BY <1>2, <3>1, Below DEF Callbacks, t
    <3>3. QED
      BY <1>2, <2>7, <2>8, <3>2 DEF Called, t
  <2>16. ApartBelow(g)
    <3>1. SUFFICES ASSUME NEW k \in 1..(Len(stack) - 1) PROVE Apart(stack[k], g)
      BY DEF ApartBelow
    <3>2. FrameOK(stack[k])
      BY <1>2, Waiting
    <3>3. stack[k].fn = "hubProbe" /\ stack[k].pc = "ports" => hubs[stack[k].hub].dev # NULL
      BY <3>2 DEF FrameOK, HubProbeOK
    <3>4. QED
      BY <2>3, <2>7, <2>8, <3>3 DEF Apart
  <2>17. Top.fn = "hubProbe" /\ Top.pc = "probe"
    BY <1>2 DEF t
  <2>18. /\ stack' \in Seq(Frame) /\ Calls'
         /\ BeingRegistered = {} /\ BeingRegistered' = {}
         /\ \A k \in HubIds : Probed(k) => Probed(k)'
    BY <1>2, <1>6, <2>7, <2>8, <2>13, <2>14, <2>15, <2>16, <2>17, ContinuedCalls
  <2>19. \A k \in HubIds : k = h => Probed(k)'
    <3>1. Len(stack) \in DOMAIN stack' /\ stack'[Len(stack)] = g
      BY <1>2, <1>6, <2>8, Replaced, Stacked
    <3>2. QED
      BY <2>7, <2>8, <3>1 DEF Probed
  <2>20. Tree'
    <3>1. Tree /\ TypeOK
      BY <1>2
    <3>2. /\ \A p \in RootPorts : rootDevices[p] # NULL =>
               /\ p \in connectedPorts
               /\ devices[rootDevices[p]].parent = NULL /\ devices[rootDevices[p]].port = p
          /\ \A k \in HubIds, p \in HubPorts : hubs[k].children[p] # NULL =>
               /\ Used(hubs[k].children[p])
               /\ devices[hubs[k].children[p]].parent = hubs[k].dev
               /\ devices[hubs[k].children[p]].port = p
          /\ \A j \in Ids : Used(j) /\ devices[j].parent = NULL => rootDevices[devices[j].port] = j
          /\ \A j \in Ids : Used(j) /\ devices[j].parent # NULL =>
               /\ Used(devices[j].parent)
               /\ \E k \in HubIds : /\ hubs[k].dev = devices[j].parent
                                    /\ hubs[k].children[devices[j].port] = j
      BY <2>9, <3>1, Pointers DEF Tree
    <3>3. \A k \in HubIds, p \in HubPorts : hubs[k].children[p] # NULL => hubs[k].dev # NULL
      BY <3>1 DEF Tree, HubSlots
    <3>4. \A k \in HubIds, p \in HubPorts : hubs'[k].children[p] # NULL =>
            /\ Used(hubs'[k].children[p])
            /\ devices[hubs'[k].children[p]].parent = hubs'[k].dev
            /\ devices[hubs'[k].children[p]].port = p
      BY <2>11, <2>12, <3>2, <3>3
    <3>5. \A j \in Ids : Used(j) /\ devices[j].parent # NULL =>
            \E k \in HubIds : /\ hubs'[k].dev = devices[j].parent
                              /\ hubs'[k].children[devices[j].port] = j
      <4>1. SUFFICES ASSUME NEW j \in Ids, Used(j), devices[j].parent # NULL
                     PROVE  \E k \in HubIds : /\ hubs'[k].dev = devices[j].parent
                                              /\ hubs'[k].children[devices[j].port] = j
        OBVIOUS
      <4>2. PICK k \in HubIds : hubs[k].dev = devices[j].parent /\ hubs[k].children[devices[j].port] = j
        BY <3>2, <4>1
      <4>3. hubs'[k] = hubs[k]
        BY <2>12, <4>1, <4>2
      <4>4. QED
        BY <4>2, <4>3
    <3>6. TreeInStep'
      BY <2>9, <3>2, <3>4, <3>5 DEF TreeInStep, Used
    <3>7. PortsFit' /\ Rooted'
      BY <2>9, <3>1, RootedSame DEF Tree, PortsFit, Used
    <3>8. HubSlots'
      <4>1. \A k \in HubIds : hubs'[k].dev # NULL => Used(hubs'[k].dev)
        BY <1>3, <2>4, <2>5, <3>1 DEF Tree, HubSlots
      <4>2. \A k \in HubIds, p \in HubPorts : hubs'[k].dev = NULL => hubs'[k].children[p] = NULL
        BY <2>4, <2>5, <3>1 DEF Tree, HubSlots
      <4>3. \A k, g_1 \in HubIds : hubs'[k].dev = hubs'[g_1].dev /\ hubs'[k].dev # NULL => k = g_1
        BY <2>4, <2>5, <2>10, <3>1 DEF Tree, HubSlots
      <4>4. \A j \in Ids : devices[j].driver = "hub" =>
              devices[j].data \in HubIds /\ hubs'[devices[j].data].dev = j
        <5>1. \A j \in Ids : j # NULL
          BY UsbAssumption DEF Ids, NULL
        <5>2. QED
          BY <2>12, <3>1, <5>1 DEF Tree, HubSlots
      <4>5. QED
        BY <2>9, <4>1, <4>2, <4>3, <4>4 DEF HubSlots, Used
    <3>9. QED
      BY <3>6, <3>7, <3>8 DEF Tree
  <2>21. HubsBound'
    <3>1. ASSUME NEW k \in HubIds, hubs'[k].dev # NULL
          PROVE  \/ devices[hubs'[k].dev].driver = "hub" /\ devices[hubs'[k].dev].data = k
                 \/ devices[hubs'[k].dev].driver = "none" /\ Probed(k)'
      <4>1. CASE k = h
        BY <1>3, <2>4, <2>5, <2>19, <4>1
      <4>2. CASE k # h
        BY <1>2, <2>5, <2>18, <3>1, <4>2 DEF HubsBound
      <4>3. QED
        BY <4>1, <4>2
    <3>2. QED
      BY <2>9, <3>1 DEF HubsBound
  <2>22. UnitsBound'
    <3>0. UnitsBound
      BY <1>2, GoingParts DEF t
    <3>1. SlotsBound' /\ StorageBound'
      BY <3>0, <1>2, <2>9 DEF UnitsBound, SlotsBound, StorageBound
    <3>2. BlocksInStep'
      BY <3>0, <1>2, <2>9, <2>18 DEF UnitsBound, BlocksInStep
    <3>3. QED
      BY <3>1, <3>2 DEF UnitsBound
  <2>23. TablesOK'
    <3>1. TablesOK
      BY <1>2, TablesFit
    <3>2. QED
      BY <2>5, <2>9, <3>1 DEF TablesOK
  <2>24. QED
    BY <1>1, <1>2, <1>4, <2>18, <2>20, <2>21, <2>22, <2>23, ChangedInv
<1>7. QED
  BY <1>1, <1>5, <1>6

LEMMA HubProbePortsInv ==
  ASSUME UsbInv, HubProbePorts
  PROVE  UsbInv'
<1> DEFINE t == Top  n == t.port + 1  f == [t EXCEPT !.port = n]  y == HandlePort(t.hub, t.port)
<1>1. /\ Running("hubProbe", "ports")
      /\ UNCHANGED <<world, hw, rootDevices, connectedPorts, drivers, halt, missed>>
      /\ \/ t.port \in HubPorts /\ CallFrom(f, y) /\ UNCHANGED devices
         \/ t.port \notin HubPorts /\ Return /\ Bound(t.dev, "hub", t.hub)
  BY DEF HubProbePorts
<1>2. Live /\ stack # <<>> /\ t \in Frame /\ t.fn = "hubProbe" /\ t.pc = "ports" /\ FrameOK(t)
  BY <1>1, AtTop
<1>3. /\ t.dev # NULL /\ t.parent = NULL /\ t.hubThing \in Hubs /\ Used(t.dev)
      /\ devices[t.dev].driver = "none" /\ t.hub \in HubIds /\ hubs[t.hub].dev = t.dev
      /\ \A p \in HubPorts : p >= t.port => hubs[t.hub].children[p] = NULL
  BY <1>2 DEF FrameOK, HubProbeOK
<1>4. WorldOK'
  BY <1>1, <1>2, WorldSame, NotMissed
<1>5. CASE t.port \in HubPorts /\ CallFrom(f, y) /\ UNCHANGED devices
  <2>1. SameTable
    BY <1>1, <1>5 DEF SameTable, table
  <2>2. y \in Frame /\ y.fn = "handle" /\ y.pc = "status" /\ y.hub = t.hub /\ y.port = t.port
        /\ y.dev = NULL /\ y.parent = NULL
    BY <1>3, <1>5, HandleFrame
  <2>3. t.port \in Nat /\ n \in Nat /\ \A p \in HubPorts : p \in Nat
    BY <1>2, Numbers DEF Frame
  <2>4. \A p \in HubPorts : p >= n => p >= t.port
    BY <2>3
  <2>5. t.port < n
    BY <2>3
  <2> HIDE DEF t, n, y
  <2>6. f \in Frame /\ f.fn = "hubProbe" /\ f.pc = "ports" /\ f.hub = t.hub /\ f.port = n
        /\ f.dev = t.dev /\ f.parent = t.parent /\ f.hubThing = t.hubThing
    BY <1>2, <2>3 DEF Frame
  <2> HIDE DEF f, Frame
  <2>7. PICK e \in Frame, g \in Frame : e = f /\ g = y
    BY <2>2, <2>6
  <2>8. FrameOK(e)
    <3>1. HubProbeOK(e)
      BY <1>3, <2>4, <2>6, <2>7 DEF HubProbeOK
    <3>2. QED
      BY <2>6, <2>7, <3>1 DEF FrameOK
  <2>9. hubs[t.hub].children[t.port] = NULL /\ hubs[t.hub].dev # NULL
    BY <1>3, <1>5, <2>3
  <2>10. FrameOK(g)
    BY <1>3, <1>5, <2>2, <2>7, <2>9 DEF FrameOK, HandleOK
  <2>11. CalledBelow(e)
    <3>1. SUFFICES ASSUME NEW d \in Frame, Len(stack) >= 2, d = stack[Len(stack) - 1]
                   PROVE  Called(d, e)'
      BY DEF CalledBelow
    <3>2. Called(d, Top)
      BY <1>2, <3>1, GoingParts, Below DEF Callbacks, t
    <3>3. QED
      BY <1>2, <2>6, <2>7, <3>2 DEF Called, t
  <2>12. ApartBelow(e) /\ ApartBelow(g)
    <3>1. SUFFICES ASSUME NEW k \in 1..(Len(stack) - 1)
                   PROVE  Apart(stack[k], e) /\ Apart(stack[k], g)
      BY DEF ApartBelow
    <3>2. Apart(stack[k], Top)
      <4>1. Len(stack) \in Nat /\ DOMAIN stack = 1..Len(stack) /\ Top = stack[Len(stack)]
        BY <1>2, GoingParts, Stacked
      <4>2. k \in DOMAIN stack /\ Len(stack) \in DOMAIN stack /\ k < Len(stack)
        BY <4>1
      <4>3. QED
        BY <1>2, <4>1, <4>2, GoingParts DEF Calls, Spread
    <3>3. QED
      BY <1>2, <2>2, <2>6, <2>7, <3>2 DEF Apart, t
  <2>13. Called(e, g) /\ Apart(e, g)
    BY <2>2, <2>5, <2>6, <2>7, <2>9 DEF Called, Apart
  <2>14. Top.fn = "hubProbe" /\ Top.pc = "ports" /\ Top.hub = t.hub
    BY <1>2 DEF t
  <2>15. CallFrom(e, g)
    BY <1>5, <2>7
  <2>16. e.pc # "mark" /\ g.pc # "mark" /\ e.fn = Top.fn /\ e.pc = "ports" /\ e.hub = Top.hub /\ Top.pc \notin {"mark", "maxLun"}
    BY <2>2, <2>6, <2>7, <2>14
  <2>17. QED
    BY <1>2, <1>4, <2>1, <2>7, <2>8, <2>10, <2>11, <2>12, <2>13, <2>15, <2>16, CalledOn
<1>6. CASE Return /\ Bound(t.dev, "hub", t.hub)
  <2> USE GoingParts
  <2>1. t.dev \in Ids
    BY <1>2, <1>3 DEF Frame
  <2> HIDE DEF Frame
  <2>2. PICK i \in Ids, h \in HubIds : i = t.dev /\ h = t.hub
    BY <1>3, <2>1
  <2>3. devices[i] \in Device
    BY <1>2, <1>3, <2>2 DEF TypeOK, Used
  <2> DEFINE d == [devices[i] EXCEPT !.driver = "hub", !.data = h]
  <2>4. /\ d \in Device /\ d.parent = devices[i].parent /\ d.port = devices[i].port
        /\ d.driver = "hub" /\ d.data = h
    BY <2>3 DEF Device
  <2>5. devices' = [devices EXCEPT ![i] = d]
    BY <1>2, <1>6, <2>2 DEF Bound, TypeOK
  <2> HIDE DEF d
  <2>6. \A j \in Ids : devices'[j] = IF j = i THEN d ELSE devices[j]
    BY <1>2, <2>5 DEF TypeOK
  <2>7. d # NoDevice
    BY <2>4 DEF NoDevice
  <2>8. \A j \in Ids : /\ Used(j)' <=> Used(j)
                       /\ devices'[j].parent = devices[j].parent /\ devices'[j].port = devices[j].port
    BY <1>3, <2>2, <2>4, <2>6, <2>7 DEF Used
  <2>9. UNCHANGED <<rootDevices, connectedPorts, hubs, storage, queued, blocks, halt>> /\ halt = "no"
    BY <1>1, <1>2 DEF drivers, Live
  <2>10. \A g \in HubIds : g # h /\ hubs[g].dev # NULL => hubs[g].dev # i /\ hubs[g].dev \in Ids
    BY <1>2, <1>3, <2>2 DEF Tree, HubSlots, TypeOK
  <2>11. Tree'
    <3>1. TreeInStep' /\ PortsFit' /\ Rooted'
      BY <1>2, <2>8, <2>9, SameShape
    <3>2. HubSlots'
      <4>1. HubSlots /\ \A g \in HubIds : hubs[g].dev # NULL => hubs[g].dev \in Ids
        BY <1>2 DEF Tree, TypeOK
      <4>2. \A j \in Ids : devices'[j].driver = "hub" =>
              devices'[j].data \in HubIds /\ hubs[devices'[j].data].dev = j
        BY <1>3, <2>2, <2>4, <2>6, <4>1 DEF HubSlots
      <4>3. \A g \in HubIds : hubs[g].dev # NULL => devices'[hubs[g].dev] # NoDevice
        BY <2>8, <4>1 DEF HubSlots, Used
      <4>4. QED
        BY <2>9, <4>1, <4>2, <4>3 DEF HubSlots, Used
    <3>3. QED
      BY <3>1, <3>2 DEF Tree
  <2>12. /\ stack' \in Seq(Frame) /\ DOMAIN stack' = 1..(Len(stack) - 1)
         /\ \A k \in 1..(Len(stack) - 1) : stack'[k] = stack[k]
    BY <1>2, <1>6, Popped
  <2>13. Calls'
    <3>1. HubsStay
      <4>1. \A g \in HubIds : hubs[g].dev # NULL /\ ~(Top.fn = "hubProbe" /\ Top.pc = "ports" /\ Top.hub = g) =>
              devices'[hubs[g].dev] = devices[hubs[g].dev]
        BY <1>2, <2>2, <2>6, <2>10
      <4>2. QED
        BY <2>9, <4>1 DEF HubsStay, Used
    <3>2. StillOK(Len(stack) - 1)
      BY <1>2, <3>1, HubsStayBelow
    <3>3. QED
      BY <1>2, <1>6, <3>2, CallsPopped
  <2>14. BeingRegistered = {} /\ BeingRegistered' = {}
    <3>1. BeingRegistered = {}
      BY <1>2, NoneBeingRegistered
    <3>2. \A k \in DOMAIN stack' : stack'[k].pc # "mark"
      BY <1>2, <2>12, Waiting
    <3>3. QED
      BY <3>1, <3>2 DEF BeingRegistered
  <2>15. HubsBound'
    <3>1. ASSUME NEW g \in HubIds, hubs[g].dev # NULL
          PROVE  \/ devices'[hubs[g].dev].driver = "hub" /\ devices'[hubs[g].dev].data = g
                 \/ devices'[hubs[g].dev].driver = "none" /\ Probed(g)'
      <4>1. CASE g = h
        BY <1>3, <2>2, <2>4, <2>6, <4>1
      <4>2. CASE g # h
        <5>1. devices'[hubs[g].dev] = devices[hubs[g].dev]
          BY <2>6, <2>10, <3>1, <4>2
        <5>2. ASSUME Probed(g) PROVE Probed(g)'
          <6>1. PICK k \in DOMAIN stack : stack[k].fn = "hubProbe" /\ stack[k].pc = "ports" /\ stack[k].hub = g
            BY <5>2 DEF Probed
          <6>2. Len(stack) \in Nat /\ DOMAIN stack = 1..Len(stack) /\ Top = stack[Len(stack)]
            BY <1>2, Stacked
          <6>3. k # Len(stack)
            BY <2>2, <4>2, <6>1, <6>2
          <6>4. k \in 1..(Len(stack) - 1)
            BY <6>1, <6>2, <6>3
          <6>5. k \in DOMAIN stack' /\ stack'[k] = stack[k]
            BY <2>12, <6>4
          <6>6. QED
            BY <6>1, <6>5 DEF Probed
        <5>3. QED
          BY <1>2, <3>1, <5>1, <5>2 DEF HubsBound
      <4>3. QED
        BY <4>1, <4>2
    <3>2. QED
      BY <2>9, <3>1 DEF HubsBound
  <2>16. UnitsBound'
    <3>1. \A s \in Slots : storage[s].dev # NULL => storage[s].dev \in Ids /\ storage[s].dev # i
      BY <1>2, <1>3, <2>2, <2>9 DEF TypeOK, UnitsBound, SlotsBound
    <3>2. SlotsBound'
      BY <1>2, <2>6, <2>9, <3>1 DEF UnitsBound, SlotsBound
    <3>3. StorageBound'
      BY <1>2, <2>4, <2>6, <2>9 DEF UnitsBound, StorageBound
    <3>4. BlocksInStep'
      BY <1>2, <2>9, <2>14 DEF UnitsBound, BlocksInStep
    <3>5. QED
      BY <3>2, <3>3, <3>4 DEF UnitsBound
  <2>17. TablesOK'
    <3>1. TablesOK
      BY <1>2, TablesFit
    <3>2. devices' \in [Ids -> Device \cup {NoDevice}]
      BY <1>2, <2>4, <2>5 DEF TypeOK
    <3>3. QED
      BY <2>9, <3>1, <3>2 DEF TablesOK
  <2>18. QED
    BY <1>1, <1>2, <1>4, <2>11, <2>12, <2>13, <2>15, <2>16, <2>17, ChangedInv
<1>7. QED
  BY <1>1, <1>5, <1>6

(* A slot that is not in use has no units.                                  *)
LEMMA EmptySlot ==
  ASSUME Live, NEW s \in Slots, storage[s].dev = NULL
  PROVE  storage[s].registered = {} /\ \A b \in blocks : b[1] # s
<1> USE GoingParts
<1>0. BlocksInStep /\ halt = "no"
  BY DEF Units, UnitsBound, UnitsAsked, Live
<1>1. \A b \in blocks : b[1] # s
  BY <1>0 DEF BlocksInStep
<1>2. ASSUME NEW b \in BeingRegistered PROVE b[1] # s
  <2>1. PICK i \in DOMAIN stack : stack[i].pc = "mark" /\ b = <<stack[i].slot, stack[i].lun>>
    BY DEF BeingRegistered
  <2>2. PICK f \in Frame : f = stack[i]
    BY ElementOfSeq
  <2>3. FrameOK(f) /\ f.pc = "mark"
    BY <2>1, <2>2 DEF Calls, FramesOK
  <2>4. ScanOK(f)
    BY <2>2, <2>3 DEF Frame, FrameOK, PollOK, HubPollOK, EnumerateOK, HubProbeOK, MassProbeOK, HandleOK
  <2>5. QED
    BY <2>1, <2>2, <2>4 DEF ScanOK
<1>3. ASSUME NEW l \in storage[s].registered PROVE FALSE
  <2>1. l \in Luns
    BY <1>3 DEF TypeOK
  <2> DEFINE b == <<s, l>>
  <2>2. b \in Slots \X Luns /\ b[1] = s /\ b[2] = l
    BY <2>1
  <2> HIDE DEF b
  <2>3. b \notin BeingRegistered
    BY <1>2, <2>2
  <2>4. b \in blocks
    BY <1>0, <1>3, <2>2, <2>3 DEF BlocksInStep
  <2>5. QED
    BY <1>1, <2>2, <2>4
<1>4. QED
  BY <1>1, <1>3

(* The tree does not see the drivers' own slots.                            *)
LEMMA SameTree ==
  ASSUME Live, UNCHANGED <<devices, rootDevices, connectedPorts, hubs, halt>>
  PROVE  Tree'
<1>1. Tree
  BY GoingParts
<1>2. \A j \in Ids : /\ Used(j)' <=> Used(j)
                     /\ devices'[j].parent = devices[j].parent /\ devices'[j].port = devices[j].port
  BY DEF Used
<1>3. TreeInStep' /\ PortsFit' /\ Rooted'
  BY <1>2, SameShape
<1>4. HubSlots'
  BY <1>1 DEF Tree, HubSlots, Used
<1>5. QED
  BY <1>3, <1>4 DEF Tree

LEMMA MassProbeInv ==
  ASSUME UsbInv, MassProbe
  PROVE  UsbInv'
<1> DEFINE t == Top  s == CHOOSE r \in FreeSlots : \A q \in FreeSlots : r <= q
           x == [NoStorage EXCEPT !.dev = t.dev]
           f == [t EXCEPT !.slot = s, !.pc = "maxLun"]
<1>1. /\ Running("massProbe", "probe")
      /\ UNCHANGED <<world, hw, table, connectedPorts, hubs, queued, blocks, halt>>
      /\ \/ /\ FreeSlots # {} /\ storage' = [storage EXCEPT ![s] = x]
            /\ Continue(f) /\ UNCHANGED missed
         \/ /\ Return /\ \E b \in BOOLEAN : missed' = (missed \/ b)
            /\ UNCHANGED storage
  BY DEF MassProbe
<1>2. Live /\ stack # <<>> /\ t \in Frame /\ t.fn = "massProbe" /\ t.pc = "probe" /\ FrameOK(t)
  BY <1>1, AtTop
<1>3. t.dev # NULL /\ t.parent = NULL /\ Used(t.dev) /\ Fresh(t.dev)
  BY <1>2 DEF FrameOK, MassProbeOK
<1>4. WorldOK'
  <2>1. missed \in BOOLEAN
    BY <1>2, GoingParts DEF TypeOK
  <2>2. missed' \in BOOLEAN
    BY <1>1, <2>1
  <2>3. QED
    BY <1>1, <1>2, <2>2, WorldSame
<1>5. CASE Return /\ UNCHANGED storage
  <2>1. SameTable
    BY <1>1, <1>5 DEF SameTable, table, drivers
  <2>2. QED
    BY <1>2, <1>4, <1>5, <2>1, Returned
<1>6. CASE /\ FreeSlots # {} /\ storage' = [storage EXCEPT ![s] = x] /\ Continue(f)
  <2> USE GoingParts
  <2>1. s \in FreeSlots
    <3>1. FreeSlots \in SUBSET Nat
      BY Numbers DEF FreeSlots
    <3>2. QED
      BY <1>6, <3>1, LeastChosen
  <2>2. t.dev \in Ids
    BY <1>2, <1>3 DEF Frame
  <2> HIDE DEF s
  <2>3. PICK r \in Slots : r = s /\ storage[r].dev = NULL /\ ~storage[r].scanPending
    BY <2>1 DEF FreeSlots
  <2>20. /\ f \in Frame /\ f.fn = "massProbe" /\ f.pc = "maxLun" /\ f.dev = t.dev
         /\ f.parent = NULL /\ f.slot = r /\ f.hub = t.hub /\ f.port = t.port
    <3>1. PICK w \in Frame : w = t
      BY <1>2
    <3>2. f = [w EXCEPT !.slot = r, !.pc = "maxLun"]
      BY <2>3, <3>1
    <3>3. w.fn = "massProbe" /\ w.parent = NULL
      BY <1>2, <1>3, <3>1
    <3> HIDE DEF f, t
    <3>4. f \in Frame
      BY <3>2 DEF Frame
    <3>5. QED
      BY <3>1, <3>2, <3>3, <3>4 DEF Frame
  <2> HIDE DEF f, Frame
  <2>4. PICK g : /\ g = f /\ g \in Frame /\ g.fn = "massProbe" /\ g.pc = "maxLun" /\ g.dev = t.dev
                 /\ g.parent = NULL /\ g.slot = r /\ g.hub = t.hub /\ g.port = t.port
    BY <2>20
  <2>5. PICK i \in Ids : i = t.dev
    BY <2>2
  <2> DEFINE S == [dev : Ids \cup {NULL}, scanPending : BOOLEAN, registered : SUBSET Luns]
  <2>6. x \in S /\ x.dev = i /\ x.scanPending = FALSE /\ x.registered = {}
    BY <2>5 DEF NoStorage
  <2> HIDE DEF x
  <2>7. storage' \in [Slots -> S] /\ \A q \in Slots : storage'[q] = IF q = r THEN x ELSE storage[q]
    BY <1>2, <1>6, <2>3, <2>6 DEF TypeOK
  <2>8. UNCHANGED <<devices, rootDevices, connectedPorts, hubs, queued, blocks, halt>> /\ halt = "no"
    BY <1>1, <1>2 DEF table, Live
  <2>9. Tree'
    BY <1>2, <2>8, SameTree
  <2>10. FrameOK(g)'
    <3>1. MassProbeOK(g)'
      <4>1. g.dev = i /\ i # NULL /\ Used(i) /\ Fresh(i)
        BY <1>3, <2>4, <2>5
      <4>2. Used(i)'
        BY <2>8, <4>1 DEF Used
      <4>3. FreshBut(i, r)'
        BY <2>6, <2>7, <2>8, <4>1 DEF Fresh, FreshBut
      <4>4. QED
        BY <2>4, <4>1, <4>2, <4>3 DEF MassProbeOK, Used, FreshBut
    <3>2. QED
      BY <2>4, <3>1 DEF FrameOK
  <2>11. StillOK(Len(stack) - 1)
    <3>1. HubsStay
      BY <2>8 DEF HubsStay, Used
    <3>2. QED
      BY <1>2, <3>1, HubsStayBelow
  <2>12. CalledBelow(g) /\ ApartBelow(g)
    <3>1. stack \in Seq(Frame) /\ Calls /\ stack # <<>>
      BY <1>2
    <3>2. g.fn = Top.fn /\ g.hub = Top.hub /\ g.port = Top.port /\ g.dev = Top.dev /\ g.fn # "handle"
      BY <1>2, <2>4
    <3> HIDE DEF t
    <3>3. QED
      BY <2>4, <3>1, <3>2, FitsBelow
  <2>13. Continue(g)
    BY <1>6, <2>4
  <2>14. /\ stack' \in Seq(Frame) /\ Calls' /\ BeingRegistered = {} /\ BeingRegistered' = {}
         /\ \A h \in HubIds : Probed(h) => Probed(h)'
    <3>1. Top.fn = "massProbe" /\ Top.pc = "probe"
      BY <1>2
    <3> HIDE DEF t
    <3>2. QED
      BY <1>2, <2>4, <2>10, <2>11, <2>12, <2>13, <3>1, ContinuedCalls
  <2>15. HubsBound'
    BY <1>2, <2>8, <2>14 DEF HubsBound
  <2>16. UnitsBound /\ storage[r].registered = {} /\ \A b \in blocks : b[1] # r
    BY <1>2, <2>3, <2>14, EmptySlot
  <2>17. Units'
    <3>1. Top' = g /\ stack' # <<>>
      <4>1. stack \in Seq(Frame) /\ stack # <<>>
        BY <1>2
      <4>2. /\ stack' \in Seq(Frame) /\ stack' # <<>> /\ Len(stack') = Len(stack)
            /\ stack'[Len(stack)] = g
        BY <2>4, <2>13, <4>1, Replaced
      <4>3. QED
        BY <4>2 DEF Top, Last
    <3>2. Asking'
      BY <2>4, <3>1 DEF Asking
    <3>3. SlotsButAsked'
      <4>1. \A q \in Slots : q # r => storage'[q] = storage[q]
        BY <2>7
      <4>2. queued'[r] = 0 /\ ~storage'[r].scanPending
        BY <2>3, <2>6, <2>7, <2>8, <2>16 DEF UnitsBound, SlotsBound
      <4>3. QED
        BY <2>4, <2>8, <2>16, <3>1, <4>1, <4>2 DEF UnitsBound, SlotsBound, SlotsButAsked
    <3>4. StorageBound'
      <4>1. \A j \in Ids : j # NULL
        BY UsbAssumption DEF Ids, NULL
      <4>2. QED
        BY <2>3, <2>7, <2>8, <2>16, <4>1 DEF UnitsBound, StorageBound
    <3>5. BlocksInStep'
      <4>1. \A b \in Slots \X Luns : b[2] \in storage'[b[1]].registered <=> b[2] \in storage[b[1]].registered
        BY <2>6, <2>7, <2>16
      <4>2. \A b \in blocks : b[1] \in Slots /\ storage'[b[1]] = storage[b[1]]
        BY <1>2, <2>7, <2>16 DEF TypeOK
      <4>3. QED
        BY <2>8, <2>14, <2>16, <4>1, <4>2 DEF UnitsBound, BlocksInStep
    <3>6. QED
      BY <3>2, <3>3, <3>4, <3>5 DEF Units, UnitsAsked
  <2>18. TablesOK'
    <3>1. TablesOK
      BY <1>2, TablesFit
    <3>2. QED
      BY <2>7, <2>8, <3>1 DEF TablesOK
  <2>19. QED
    BY <1>1, <1>2, <1>4, <2>9, <2>14, <2>15, <2>17, <2>18, ChangedInv
<1>7. QED
  BY <1>1, <1>5, <1>6

LEMMA MaxLunInv ==
  ASSUME UsbInv, MaxLun
  PROVE  UsbInv'
<1> USE GoingParts
<1> DEFINE S == [dev : Ids \cup {NULL}, scanPending : BOOLEAN, registered : SUBSET Luns]
<1>1. /\ Running("massProbe", "maxLun") /\ Return
      /\ UNCHANGED <<world, hw, rootDevices, connectedPorts, hubs, blocks, halt>>
      /\ \/ /\ storage' = [storage EXCEPT ![Top.slot].scanPending = TRUE]
            /\ queued' = [queued EXCEPT ![Top.slot] = @ + 1]
            /\ Bound(Top.dev, "mass", Top.slot) /\ UNCHANGED missed
         \/ /\ storage' = [storage EXCEPT ![Top.slot] = NoStorage]
            /\ \E b \in BOOLEAN : missed' = (missed \/ b)
            /\ UNCHANGED <<queued, devices>>
  BY DEF MaxLun
<1>2. Live /\ stack # <<>> /\ stack \in Seq(Frame) /\ Calls /\ Top.fn = "massProbe" /\ Top.pc = "maxLun"
  BY <1>1, AtTop
<1>3. PICK i \in Ids, r \in Slots :
        /\ i = Top.dev /\ r = Top.slot /\ Used(i) /\ FreshBut(i, r) /\ storage[r].dev = i
        /\ SlotsButAsked /\ BlocksInStep /\ StorageBound
  BY <1>2, AskedSlot
<1> HIDE DEF Frame
<1>4. WorldOK'
  <2>1. missed \in BOOLEAN
    BY <1>2 DEF TypeOK
  <2>2. missed' \in BOOLEAN
    BY <1>1, <2>1
  <2>3. QED
    BY <1>1, <1>2, <2>2, WorldSame
<1>5. UNCHANGED <<rootDevices, connectedPorts, hubs, blocks, halt>> /\ halt = "no"
  BY <1>1, <1>2 DEF Live
<1>6. /\ stack' \in Seq(Frame) /\ DOMAIN stack' = 1..(Len(stack) - 1)
      /\ \A k \in 1..(Len(stack) - 1) : stack'[k] = stack[k]
  BY <1>1, <1>2, Popped
<1>7. BeingRegistered = {} /\ BeingRegistered' = {}
  <2>1. BeingRegistered = {}
    BY <1>2, NoneBeingRegistered
  <2>2. \A k \in DOMAIN stack' : stack'[k].pc # "mark"
    BY <1>2, <1>6, Waiting
  <2>3. QED
    BY <2>1, <2>2 DEF BeingRegistered
<1>8. \A g \in HubIds : Probed(g) => Probed(g)'
  <2>1. \A k \in 1..(Len(stack) - 1) : k \in DOMAIN stack' /\ stack'[k] = stack[k]
    BY <1>6
  <2>2. QED
    BY <1>2, <1>6, <2>1, ProbedKept
<1>9. /\ storage[r].registered = {} /\ ~storage[r].scanPending /\ \A b \in blocks : b[1] # r
      /\ devices[i].driver = "none" /\ queued[r] = 0 /\ queued \in [Slots -> Nat] /\ storage \in [Slots -> S]
      /\ \A q \in Slots : storage[q].dev = i => q = r
  <2>1. /\ storage[r].registered = {} /\ ~storage[r].scanPending /\ devices[i].driver = "none"
        /\ \A q \in Slots : storage[q].dev = i => q = r
    BY <1>3 DEF FreshBut
  <2>2. queued \in [Slots -> Nat] /\ storage \in [Slots -> S] /\ blocks \subseteq Slots \X Luns
    BY <1>2 DEF TypeOK
  <2>3. queued[r] = 0
    BY <1>3, <1>5, <2>1 DEF SlotsButAsked
  <2>4. ASSUME NEW b \in blocks PROVE b[1] # r
    BY <1>3, <1>5, <1>7, <2>1, <2>2 DEF BlocksInStep
  <2>5. QED
    BY <2>1, <2>2, <2>3, <2>4
<1>10. CASE /\ storage' = [storage EXCEPT ![Top.slot].scanPending = TRUE]
            /\ queued' = [queued EXCEPT ![Top.slot] = @ + 1]
            /\ Bound(Top.dev, "mass", Top.slot)
  <2> DEFINE x == [storage[r] EXCEPT !.scanPending = TRUE]
  <2>1. x \in S /\ x.dev = i /\ x.scanPending = TRUE /\ x.registered = {}
    BY <1>3, <1>9
  <2>2. storage' = [storage EXCEPT ![r] = x]
    BY <1>3, <1>10
  <2> HIDE DEF x
  <2>3. storage' \in [Slots -> S] /\ \A q \in Slots : storage'[q] = IF q = r THEN x ELSE storage[q]
    BY <1>9, <2>1, <2>2
  <2>4. devices[i] \in Device
    BY <1>2, <1>3 DEF TypeOK, Used
  <2> DEFINE d == [devices[i] EXCEPT !.driver = "mass", !.data = r]
  <2>5. /\ d \in Device /\ d.parent = devices[i].parent /\ d.port = devices[i].port
        /\ d.driver = "mass" /\ d.data = r
    BY <2>4 DEF Device
  <2>6. devices' = [devices EXCEPT ![i] = d]
    BY <1>2, <1>3, <1>10 DEF Bound, TypeOK
  <2> HIDE DEF d
  <2>7. \A j \in Ids : devices'[j] = IF j = i THEN d ELSE devices[j]
    BY <1>2, <2>6 DEF TypeOK
  <2>8. d # NoDevice
    BY <2>5 DEF NoDevice
  <2>9. \A j \in Ids : /\ Used(j)' <=> Used(j)
                       /\ devices'[j].parent = devices[j].parent /\ devices'[j].port = devices[j].port
    BY <1>3, <2>5, <2>7, <2>8 DEF Used
  <2>10. \A g \in HubIds : hubs[g].dev # NULL => hubs[g].dev \in Ids /\ devices'[hubs[g].dev] = devices[hubs[g].dev]
    BY <1>2, <1>3, <2>7 DEF FreshBut, TypeOK
  <2>11. Tree'
    <3>1. TreeInStep' /\ PortsFit' /\ Rooted'
      <4>1. UNCHANGED <<rootDevices, connectedPorts, hubs, halt>>
        BY <1>5
      <4>2. QED
        BY <1>2, <2>9, <4>1, SameShape
    <3>2. HubSlots'
      <4>1. HubSlots
        BY <1>2 DEF Tree
      <4>2. \A j \in Ids : devices'[j].driver = "hub" =>
              devices'[j].data \in HubIds /\ hubs[devices'[j].data].dev = j
        BY <2>5, <2>7, <4>1 DEF HubSlots
      <4>3. \A g \in HubIds : hubs[g].dev # NULL => devices'[hubs[g].dev] # NoDevice
        BY <2>10, <4>1 DEF HubSlots, Used
      <4>4. QED
        BY <1>5, <4>1, <4>2, <4>3 DEF HubSlots, Used
    <3>3. QED
      BY <3>1, <3>2 DEF Tree
  <2>12. Calls'
    <3>1. HubsStay
      BY <1>5, <2>10 DEF HubsStay, Used
    <3>2. StillOK(Len(stack) - 1)
      BY <1>2, <3>1, HubsStayBelow
    <3>3. QED
      BY <1>1, <1>2, <3>2, CallsPopped
  <2>13. HubsBound'
    BY <1>2, <1>5, <1>8, <2>10 DEF HubsBound
  <2>14. queued' \in [Slots -> Nat] /\ \A q \in Slots : queued'[q] = IF q = r THEN 1 ELSE queued[q]
    BY <1>3, <1>9, <1>10
  <2>15. UnitsBound'
    <3>1. \A q \in Slots : q # r /\ storage[q].dev # NULL =>
            storage[q].dev \in Ids /\ devices'[storage[q].dev] = devices[storage[q].dev]
      BY <1>9, <2>7
    <3>2. SlotsBound'
      BY <1>3, <1>5, <2>1, <2>3, <2>5, <2>7, <2>14, <3>1 DEF SlotsButAsked, SlotsBound
    <3>3. StorageBound'
      <4>1. SUFFICES ASSUME NEW j \in Ids, devices'[j].driver = "mass"
                     PROVE  /\ devices'[j].data \in Slots
                            /\ storage'[devices'[j].data].dev = j
        BY DEF StorageBound
      <4>2. CASE j = i
        BY <1>3, <2>1, <2>3, <2>5, <2>7, <4>2
      <4>3. CASE j # i
        <5>1. devices[j].data \in Slots /\ storage[devices[j].data].dev = j /\ devices'[j] = devices[j]
          BY <1>3, <2>7, <4>1, <4>3 DEF StorageBound
        <5>2. devices[j].data # r
          BY <1>3, <4>3, <5>1
        <5>3. QED
          BY <2>3, <5>1, <5>2
      <4>4. QED
        BY <4>2, <4>3
    <3>4. BlocksInStep'
      <4>1. \A b \in Slots \X Luns : b[2] \in storage'[b[1]].registered <=> b[2] \in storage[b[1]].registered
        BY <1>9, <2>1, <2>3
      <4>2. \A b \in blocks : b[1] \in Slots /\ storage'[b[1]] = storage[b[1]]
        BY <1>2, <1>9, <2>3 DEF TypeOK
      <4>3. QED
        BY <1>3, <1>5, <1>7, <4>1, <4>2 DEF BlocksInStep
    <3>5. QED
      BY <3>2, <3>3, <3>4 DEF UnitsBound
  <2>16. TablesOK'
    <3>1. TablesOK
      BY <1>2, TablesFit
    <3>2. devices' \in [Ids -> Device \cup {NoDevice}]
      BY <1>2, <2>5, <2>6 DEF TypeOK
    <3>3. QED
      BY <1>5, <2>3, <2>14, <3>1, <3>2 DEF TablesOK
  <2>17. QED
    BY <1>2, <1>4, <1>5, <1>6, <2>11, <2>12, <2>13, <2>15, <2>16, ChangedInv
<1>11. CASE storage' = [storage EXCEPT ![Top.slot] = NoStorage] /\ UNCHANGED <<queued, devices>>
  <2>1. NoStorage \in S /\ NoStorage.dev = NULL /\ NoStorage.scanPending = FALSE /\ NoStorage.registered = {}
    BY DEF NoStorage
  <2>2. storage' \in [Slots -> S] /\ \A q \in Slots : storage'[q] = IF q = r THEN NoStorage ELSE storage[q]
    BY <1>3, <1>9, <1>11, <2>1
  <2>3. UNCHANGED <<devices, queued>>
    BY <1>11
  <2>4. Tree'
    BY <1>2, <1>5, <2>3, SameTree
  <2>5. Calls'
    <3>1. HubsStay
      BY <1>5, <2>3 DEF HubsStay, Used
    <3>2. StillOK(Len(stack) - 1)
      BY <1>2, <3>1, HubsStayBelow
    <3>3. QED
      BY <1>1, <1>2, <3>2, CallsPopped
  <2>6. HubsBound'
    BY <1>2, <1>5, <1>8, <2>3 DEF HubsBound
  <2>7. UnitsBound'
    <3>1. SlotsBound'
      BY <1>3, <1>5, <1>9, <2>1, <2>2, <2>3 DEF SlotsButAsked, SlotsBound
    <3>2. StorageBound'
      <4>1. SUFFICES ASSUME NEW j \in Ids, devices'[j].driver = "mass"
                     PROVE  /\ devices'[j].data \in Slots
                            /\ storage'[devices'[j].data].dev = j
        BY DEF StorageBound
      <4>2. devices'[j] = devices[j] /\ devices[j].driver = "mass" /\ j # i
        BY <1>9, <2>3, <4>1
      <4>3. devices[j].data \in Slots /\ storage[devices[j].data].dev = j
        BY <1>3, <4>2 DEF StorageBound
      <4>4. devices[j].data # r
        BY <1>3, <4>2, <4>3
      <4>5. QED
        BY <2>2, <4>2, <4>3, <4>4
    <3>3. BlocksInStep'
      <4>1. \A b \in Slots \X Luns : b[2] \in storage'[b[1]].registered <=> b[2] \in storage[b[1]].registered
        BY <1>9, <2>1, <2>2
      <4>2. \A b \in blocks : b[1] \in Slots /\ storage'[b[1]] = storage[b[1]]
        BY <1>2, <1>9, <2>2 DEF TypeOK
      <4>3. QED
        BY <1>3, <1>5, <1>7, <4>1, <4>2 DEF BlocksInStep
    <3>4. QED
      BY <3>1, <3>2, <3>3 DEF UnitsBound
  <2>8. TablesOK'
    <3>1. TablesOK
      BY <1>2, TablesFit
    <3>2. QED
      BY <1>5, <2>2, <2>3, <3>1 DEF TablesOK
  <2>9. QED
    BY <1>2, <1>4, <1>5, <1>6, <2>4, <2>5, <2>6, <2>7, <2>8, ChangedInv
<1>12. QED
  BY <1>1, <1>10, <1>11

(* A scan whose stick is gone gives its slot back, whatever it interrupts.  *)
LEMMA StaleScanInv ==
  ASSUME Live, NEW s \in Slots, queued[s] > 0, storage[s].dev = NULL,
         queued' = [queued EXCEPT ![s] = @ - 1], storage' = [storage EXCEPT ![s] = NoStorage],
         stack' = stack, UNCHANGED <<world, hw, table, connectedPorts, hubs, blocks, halt, missed>>
  PROVE  UsbInv'
<1> USE GoingParts
<1> DEFINE S == [dev : Ids \cup {NULL}, scanPending : BOOLEAN, registered : SUBSET Luns]
<1>1. UNCHANGED <<devices, rootDevices, connectedPorts, hubs, blocks, halt>> /\ halt = "no"
  BY DEF table, Live
<1>2. WorldOK' /\ Tree'
  BY <1>1, WorldSame, NotMissed, SameTree
<1>3. storage[s].registered = {}
  BY EmptySlot
<1>4. queued \in [Slots -> Nat] /\ storage \in [Slots -> S]
  BY DEF TypeOK
<1>5. storage[s].scanPending /\ queued[s] = 1
  <2>1. queued[s] = IF storage[s].scanPending THEN 1 ELSE 0
    BY <1>1 DEF Units, UnitsBound, UnitsAsked, SlotsBound, SlotsButAsked
  <2>2. QED
    BY <2>1
<1>6. queued' \in [Slots -> Nat] /\ \A q \in Slots : queued'[q] = IF q = s THEN 0 ELSE queued[q]
  BY <1>4, <1>5
<1>7. /\ storage' \in [Slots -> S] /\ ~storage'[s].scanPending
      /\ \A q \in Slots : /\ storage'[q].dev = storage[q].dev
                          /\ storage'[q].registered = storage[q].registered
                          /\ q # s => storage'[q].scanPending = storage[q].scanPending
  <2>1. NoStorage \in S /\ NoStorage.dev = NULL /\ NoStorage.registered = {} /\ ~NoStorage.scanPending
    BY DEF NoStorage
  <2>2. storage' \in [Slots -> S] /\ \A q \in Slots : storage'[q] = IF q = s THEN NoStorage ELSE storage[q]
    BY <1>4, <2>1
  <2>3. QED
    BY <1>3, <2>1, <2>2
<1>8. TablesOK'
  BY <1>1, <1>6, <1>7, TablesFit DEF TablesOK
<1> HIDE DEF Frame
<1>9. Calls'
  <2>1. ASSUME NEW f \in Frame, FrameOK(f) PROVE FrameOK(f)'
    <3>1. \A i \in Ids : (Used(i)' <=> Used(i)) /\ (Fresh(i) => Fresh(i)')
      BY <1>1, <1>7 DEF Used, Fresh
    <3>2. f.dev \in Ids \cup {NULL}
      BY DEF Frame
    <3>3. CASE f.fn = "massProbe"
      <4>1. MassProbeOK(f) /\ f.dev \in Ids
        BY <2>1, <3>2, <3>3 DEF FrameOK, MassProbeOK
      <4>2. f.pc = "maxLun" => FreshBut(f.dev, f.slot)'
        <5> SUFFICES ASSUME f.pc = "maxLun" PROVE FreshBut(f.dev, f.slot)'
          OBVIOUS
        <5>1. f.slot \in Slots /\ FreshBut(f.dev, f.slot) /\ f.slot # s
          BY <4>1 DEF MassProbeOK, FreshBut
        <5>2. QED
          BY <1>1, <1>7, <5>1 DEF FreshBut
      <4>3. MassProbeOK(f)'
        BY <3>1, <4>1, <4>2 DEF MassProbeOK
      <4>4. QED
        BY <3>3, <4>3 DEF FrameOK
    <3>4. CASE f.fn = "scan"
      <4>1. ScanOK(f)'
        BY <1>1, <1>7, <2>1, <3>4 DEF FrameOK, ScanOK
      <4>2. QED
        BY <2>1, <3>4, <4>1 DEF FrameOK
    <3>5. CASE f.fn \in {"enumerate", "hubProbe"}
      <4>1. f.fn = "enumerate" => EnumerateOK(f)'
        BY <1>1, <2>1, <3>1, <3>2 DEF FrameOK, EnumerateOK
      <4>2. f.fn = "hubProbe" => HubProbeOK(f)'
        BY <1>1, <2>1, <3>1, <3>2 DEF FrameOK, HubProbeOK
      <4>3. QED
        BY <3>5, <4>1, <4>2 DEF FrameOK
    <3>6. CASE f.fn \notin {"massProbe", "scan", "enumerate", "hubProbe"}
      BY <1>1, <2>1, <3>6 DEF FrameOK, PollOK, HubPollOK, HandleOK
    <3>7. QED
      BY <3>3, <3>4, <3>5, <3>6
  <2>2. FramesOK'
    <3>1. ASSUME NEW i \in DOMAIN stack PROVE FrameOK(stack[i])'
      <4>1. PICK f \in Frame : f = stack[i]
        BY ElementOfSeq
      <4>2. FrameOK(f)
        BY <4>1 DEF Calls, FramesOK
      <4>3. FrameOK(f)'
        BY <2>1, <4>2
      <4>4. QED
        BY <4>1, <4>3
        DEF FrameOK, PollOK, HubPollOK, ScanOK, EnumerateOK, HubProbeOK, MassProbeOK, HandleOK, Fresh, FreshBut
    <3>2. QED
      BY <3>1 DEF FramesOK
  <2>3. Chained' /\ Spread'
    <3>1. Chained'
      BY <1>1 DEF Calls, Chained, Called
    <3>2. Spread'
      BY DEF Calls, Spread, Apart
    <3>3. QED
      BY <3>1, <3>2
  <2>4. QED
    BY <2>2, <2>3 DEF Calls
<1>10. HubsBound'
  BY <1>1 DEF HubsBound, Probed
<1>11. Units'
  <2>1. StorageBound'
    BY <1>1, <1>7 DEF Units, UnitsBound, UnitsAsked, StorageBound
  <2>2. BlocksInStep'
    <3>1. \A b \in Slots \X Luns : storage'[b[1]].registered = storage[b[1]].registered
      BY <1>7
    <3>2. \A b \in blocks : storage'[b[1]].dev = storage[b[1]].dev
      BY <1>7 DEF TypeOK
    <3>3. BeingRegistered' = BeingRegistered
      BY DEF BeingRegistered
    <3>4. BlocksInStep
      BY DEF Units, UnitsBound, UnitsAsked
    <3>5. QED
      BY <1>1, <3>1, <3>2, <3>3, <3>4 DEF BlocksInStep
  <2>3. CASE UnitsBound
    <3>1. SlotsBound'
      BY <1>1, <1>6, <1>7, <2>3 DEF UnitsBound, SlotsBound
    <3>2. QED
      BY <2>1, <2>2, <3>1 DEF Units, UnitsBound
  <2>4. CASE UnitsAsked
    <3>1. SlotsButAsked'
      <4>1. Top' = Top
        BY DEF Top
      <4>2. QED
        BY <1>1, <1>6, <1>7, <2>4, <4>1 DEF UnitsAsked, SlotsButAsked
    <3>2. Asking'
      BY <2>4 DEF UnitsAsked, Asking, Top
    <3>3. QED
      BY <2>1, <2>2, <3>1, <3>2 DEF Units, UnitsAsked
  <2>5. QED
    BY <2>3, <2>4 DEF Units
<1>12. QED
  BY <1>1, <1>2, <1>8, <1>9, <1>10, <1>11, ChangedInv

LEMMA StartScanInv ==
  ASSUME UsbInv, ~Crossing', NEW s \in Slots, StartScan(s)
  PROVE  UsbInv'
<1> USE GoingParts
<1> DEFINE c == Call("scan", "lun")  f == [c EXCEPT !.slot = s]
<1>1. /\ Live /\ queued[s] > 0
      /\ queued' = [queued EXCEPT ![s] = @ - 1]
      /\ UNCHANGED <<world, hw, table, connectedPorts, hubs, blocks, halt, missed>>
      /\ \/ storage[s].dev = NULL /\ storage' = [storage EXCEPT ![s] = NoStorage] /\ stack' = stack
         \/ storage[s].dev # NULL /\ storage' = [storage EXCEPT ![s].scanPending = FALSE] /\ Push(f)
  BY DEF StartScan, Callback, Live
<1>2. CASE storage[s].dev = NULL /\ storage' = [storage EXCEPT ![s] = NoStorage] /\ stack' = stack
  BY <1>1, <1>2, StaleScanInv
<1>3. CASE storage[s].dev # NULL /\ storage' = [storage EXCEPT ![s].scanPending = FALSE] /\ Push(f)
  <2>1. /\ f \in Frame /\ f.fn = "scan" /\ f.pc = "lun" /\ f.lun = 1 /\ f.dev = NULL /\ f.parent = NULL
        /\ f.slot = s
    <3>1. c \in Frame /\ c.fn = "scan" /\ c.pc = "lun" /\ c.lun = 1 /\ c.dev = NULL /\ c.parent = NULL
      BY CallFields DEF Call
    <3> HIDE DEF c
    <3>2. QED
      BY <3>1 DEF Frame
  <2> HIDE DEF f, Frame
  <2>2. PICK g \in Frame : g = f
    BY <2>1
  <2>3. stack = <<>>
    BY <1>1, <1>3, <2>1, <2>2, Idle DEF Callbacks
  <2>4. BeingRegistered = {} /\ \A h \in HubIds : ~Probed(h)
    BY <2>3 DEF BeingRegistered, Probed
  <2>5. WorldOK'
    BY <1>1, WorldSame, NotMissed
  <2>6. UNCHANGED <<devices, rootDevices, connectedPorts, hubs, blocks, halt>> /\ halt = "no"
    BY <1>1 DEF table, Live
  <2>7. Tree'
    BY <1>1, <2>6, SameTree
  <2>8. queued \in [Slots -> Nat] /\ storage[s].scanPending /\ queued[s] = 1 /\ UnitsBound
    BY <1>1, <2>3, <2>6 DEF TypeOK, UnitsBound, SlotsBound
  <2>9. queued' \in [Slots -> Nat] /\ \A q \in Slots : queued'[q] = IF q = s THEN 0 ELSE queued[q]
    BY <1>1, <2>8
  <2> DEFINE S == [dev : Ids \cup {NULL}, scanPending : BOOLEAN, registered : SUBSET Luns]
  <2>10. storage \in [Slots -> S]
    BY <1>1 DEF TypeOK
  <2>11. /\ storage' \in [Slots -> S]
         /\ \A q \in Slots : /\ storage'[q].dev = storage[q].dev
                             /\ storage'[q].registered = storage[q].registered
                             /\ storage'[q].scanPending <=> storage[q].scanPending /\ q # s
    <3> DEFINE x == [storage[s] EXCEPT !.scanPending = FALSE]
    <3>1. /\ x \in S /\ x.dev = storage[s].dev /\ x.registered = storage[s].registered
          /\ ~x.scanPending
      BY <2>10
    <3> HIDE DEF x
    <3>2. storage' \in [Slots -> S] /\ \A q \in Slots : storage'[q] = IF q = s THEN x ELSE storage[q]
      BY <1>3, <2>10, <3>1 DEF x
    <3>3. QED
      BY <3>1, <3>2
  <2>12. TablesOK'
    BY <1>1, <2>6, <2>9, <2>11, TablesFit DEF TablesOK
  <2>13. stack' \in Seq(Frame) /\ Calls' /\ BeingRegistered' = {}
    <3>1. FrameOK(g)'
      BY <1>3, <2>1, <2>2, <2>11 DEF FrameOK, ScanOK
    <3>2. stack' \in Seq(Frame) /\ Calls' /\ stack' = <<g>>
      BY <1>3, <2>1, <2>2, <2>3, <3>1, Begun DEF Callbacks
    <3>3. BeingRegistered' = {}
      BY <2>1, <2>2, <3>2 DEF BeingRegistered
    <3>4. QED
      BY <3>2, <3>3
  <2>14. HubsBound'
    <3>1. \A h \in HubIds : hubs[h].dev # NULL =>
            devices[hubs[h].dev].driver = "hub" /\ devices[hubs[h].dev].data = h
      BY <1>1, <2>4 DEF HubsBound
    <3>2. QED
      BY <2>6, <3>1 DEF HubsBound
  <2>15. UnitsBound'
    <3>1. SlotsBound'
      BY <2>6, <2>8, <2>9, <2>11 DEF UnitsBound, SlotsBound
    <3>2. StorageBound'
      BY <2>6, <2>8, <2>11 DEF UnitsBound, StorageBound
    <3>3. BlocksInStep'
      <4>1. \A b \in Slots \X Luns : storage'[b[1]].registered = storage[b[1]].registered
        BY <2>11
      <4>2. \A b \in blocks : storage'[b[1]].dev = storage[b[1]].dev
        BY <1>1, <2>11 DEF TypeOK
      <4>3. QED
        BY <2>4, <2>6, <2>8, <2>13, <4>1, <4>2 DEF UnitsBound, BlocksInStep
    <3>4. QED
      BY <3>1, <3>2, <3>3 DEF UnitsBound
  <2>16. QED
    BY <1>1, <2>5, <2>7, <2>12, <2>13, <2>14, <2>15, ChangedInv
<1>4. QED
  BY <1>1, <1>2, <1>3

(* The steps of massScan: it is alone, and only its slot's units change.    *)
LEMMA ScanStep ==
  ASSUME UsbInv, Live, stack # <<>>, Top.fn = "scan", NEW f \in Frame, Continue(f), f.fn = "scan",
         f.slot = Top.slot, FrameOK(f)',
         NEW r \in SUBSET Luns, storage' = [storage EXCEPT ![Top.slot].registered = r],
         blocks' \subseteq Slots \X Luns, BlocksInStep',
         UNCHANGED <<world, hw, table, connectedPorts, hubs, queued, halt, missed>>
  PROVE  UsbInv'
<1> USE GoingParts
<1> DEFINE s == Top.slot
<1>1. Top \in Frame /\ FrameOK(Top) /\ Top.fn = "scan"
  <2> HIDE DEF Frame
  <2>1. QED
    BY Stacked, TopOK
<1>2. s \in Slots
  BY <1>1 DEF FrameOK, ScanOK
<1> HIDE DEF s, Frame
<1>3. Len(stack) = 1
  BY <1>1, CallbackAtBottom DEF Callbacks
<1>4. stack' \in Seq(Frame) /\ Calls'
  <2>1. StillOK(Len(stack) - 1)
    BY <1>3 DEF StillOK
  <2>2. CalledBelow(f) /\ ApartBelow(f)
    BY <1>3 DEF CalledBelow, ApartBelow
  <2>3. QED
    BY <1>1, <2>1, <2>2, CallsReplaced
<1>5. UNCHANGED <<devices, rootDevices, connectedPorts, hubs, queued, halt>> /\ halt = "no"
  BY DEF table, Live
<1>6. Tree'
  BY <1>5, SameTree
<1> DEFINE S == [dev : Ids \cup {NULL}, scanPending : BOOLEAN, registered : SUBSET Luns]
<1>7. /\ storage' \in [Slots -> S]
      /\ \A q \in Slots : storage'[q].dev = storage[q].dev /\ storage'[q].scanPending = storage[q].scanPending
  <2>1. storage \in [Slots -> S]
    BY DEF TypeOK
  <2> DEFINE x == [storage[s] EXCEPT !.registered = r]
  <2>2. x \in S /\ x.dev = storage[s].dev /\ x.scanPending = storage[s].scanPending
    BY <1>2, <2>1
  <2> HIDE DEF x
  <2>3. storage' \in [Slots -> S] /\ \A q \in Slots : storage'[q] = IF q = s THEN x ELSE storage[q]
    BY <1>2, <2>1, <2>2 DEF x, s
  <2>4. QED
    BY <2>2, <2>3
<1>8. WorldOK'
  BY WorldSame, NotMissed
<1>9. TablesOK'
  BY <1>5, <1>7, TablesFit DEF TablesOK
<1>10. HubsBound'
  <2>1. \A h \in HubIds : ~Probed(h)
    <3>1. DOMAIN stack = 1..1 /\ stack[1] = Top
      BY <1>3, Stacked
    <3>2. QED
      BY <1>1, <3>1 DEF Probed
  <2>2. QED
    BY <1>5, <2>1 DEF HubsBound
<1>11. UnitsBound'
  BY <1>1, <1>5, <1>7 DEF UnitsBound, SlotsBound, StorageBound
<1>12. QED
  BY <1>4, <1>6, <1>8, <1>9, <1>10, <1>11, ChangedInv

LEMMA SetupLunInv ==
  ASSUME UsbInv, SetupLun
  PROVE  UsbInv'
<1> USE GoingParts
<1> DEFINE t == Top  s == t.slot  l == t.lun  n == l + 1  r == storage[s].registered \ {l}
           f == [t EXCEPT !.pc = "mark"]  g == [t EXCEPT !.lun = n]
<1>1. /\ Running("scan", "lun") /\ l \in Luns
      /\ UNCHANGED <<world, hw, table, connectedPorts, hubs, queued, halt>>
      /\ \/ /\ storage' = [storage EXCEPT ![s].registered = r] /\ blocks' = blocks \cup {<<s, l>>}
            /\ Continue(f) /\ UNCHANGED missed
         \/ /\ Continue(g) /\ (\E b \in BOOLEAN : missed' = (missed \/ b)) /\ UNCHANGED <<storage, blocks>>
  BY DEF SetupLun, Goto
<1>2. Live /\ stack # <<>> /\ t \in Frame /\ t.fn = "scan" /\ t.pc = "lun" /\ FrameOK(t)
  BY <1>1, AtTop
<1>3. s \in Slots /\ l >= 1 /\ storage[s].dev # NULL /\ t.dev = NULL /\ t.parent = NULL /\ l \in Nat
  BY <1>2 DEF FrameOK, ScanOK, Frame
<1>4. BeingRegistered = {}
  <2> HIDE DEF Frame
  <2>1. QED
    BY <1>2, NoneBeingRegistered
<1>5. CASE /\ storage' = [storage EXCEPT ![s].registered = r] /\ blocks' = blocks \cup {<<s, l>>}
           /\ Continue(f) /\ UNCHANGED missed
  <2>1. r \in SUBSET Luns
    BY <1>2, <1>3 DEF TypeOK
  <2>2. /\ storage' \in [Slots -> [dev : Ids \cup {NULL}, scanPending : BOOLEAN, registered : SUBSET Luns]]
        /\ \A q \in Slots : storage'[q].dev = storage[q].dev
        /\ \A q \in Slots : storage'[q].registered = IF q = s THEN r ELSE storage[q].registered
    <3>1. storage \in [Slots -> [dev : Ids \cup {NULL}, scanPending : BOOLEAN, registered : SUBSET Luns]]
      BY <1>2 DEF TypeOK
    <3> HIDE DEF r, s
    <3>2. QED
      BY <1>3, <1>5, <2>1, <3>1
  <2> HIDE DEF t, s, l, r
  <2>3. /\ f \in Frame /\ f.pc = "mark" /\ f.fn = "scan" /\ f.slot = s /\ f.lun = l /\ f.dev = NULL
        /\ f.parent = NULL
    BY <1>2, <1>3 DEF Frame, s, l
  <2> HIDE DEF f, Frame
  <2>4. PICK e \in Frame : e = f
    BY <2>3
  <2>5. FrameOK(e)'
    BY <1>1, <1>3, <1>5, <2>2, <2>3, <2>4 DEF FrameOK, ScanOK
  <2> DEFINE b == <<s, l>>
  <2>6. b \in Slots \X Luns /\ b[1] = s /\ b[2] = l
    BY <1>1, <1>3
  <2>7. stack' = <<e>>
    <3>1. Len(stack) = 1
      BY <1>2, CallbackAtBottom DEF Callbacks, t
    <3>2. stack' \in Seq(Frame) /\ Len(stack') = 1 /\ stack'[1] = e
      BY <1>2, <1>5, <2>4, <3>1, Replaced
    <3>3. QED
      BY <3>2
  <2>8. BeingRegistered' = {b}
    <3>1. DOMAIN stack' = {1} /\ stack'[1] = e
      BY <2>7
    <3>2. e.pc = "mark" /\ e.slot = s /\ e.lun = l
      BY <2>3, <2>4
    <3>3. BeingRegistered' = {<<e.slot, e.lun>>}
      BY <3>1, <3>2 DEF BeingRegistered
    <3>4. QED
      BY <3>2, <3>3
  <2>9. blocks' \subseteq Slots \X Luns /\ blocks \subseteq Slots \X Luns
    BY <1>2, <1>5, <2>6 DEF TypeOK
  <2>10. BlocksInStep'
    <3>1. /\ \A a \in Slots \X Luns : a \in blocks <=> a[2] \in storage[a[1]].registered
          /\ \A a \in blocks : storage[a[1]].dev # NULL
      <4>1. UnitsBound /\ halt = "no"
        BY GoingParts, <1>2 DEF t, Live
      <4>2. QED
        BY <1>4, <2>9, <4>1 DEF UnitsBound, BlocksInStep
    <3>2. \A a \in Slots \X Luns : a # b => (a \in blocks' <=> a[2] \in storage'[a[1]].registered)
      <4>1. SUFFICES ASSUME NEW a \in Slots \X Luns, a # b
                     PROVE  a \in blocks' <=> a[2] \in storage'[a[1]].registered
        OBVIOUS
      <4>2. a \in blocks' <=> a \in blocks
        BY <1>5, <4>1
      <4>3. a[1] # s \/ a[2] # l
        BY <2>6, <4>1
      <4>4. a[2] \in storage'[a[1]].registered <=> a[2] \in storage[a[1]].registered
        BY <2>2, <4>3 DEF r
      <4>5. QED
        BY <3>1, <4>2, <4>4
    <3>3. \A a \in blocks' : storage'[a[1]].dev # NULL
      <4>1. SUFFICES ASSUME NEW a \in blocks' PROVE storage'[a[1]].dev # NULL
        OBVIOUS
      <4>2. a[1] \in Slots /\ (a \in blocks \/ a = b)
        BY <1>5, <2>9
      <4>3. QED
        BY <1>3, <2>2, <2>6, <3>1, <4>2
    <3> HIDE DEF b
    <3>4. blocks' \ {b} = {a \in Slots \X Luns : a[2] \in storage'[a[1]].registered} \ {b}
      BY <2>9, <3>2
    <3>5. QED
      BY <2>8, <3>3, <3>4 DEF BlocksInStep
  <2>11. Top.fn = "scan" /\ e.slot = Top.slot /\ storage' = [storage EXCEPT ![Top.slot].registered = r]
    BY <1>2, <1>5, <2>3, <2>4 DEF t, s
  <2>12. Continue(e) /\ e.fn = "scan" /\ UNCHANGED <<world, hw, table, connectedPorts, hubs, queued, halt, missed>>
    BY <1>1, <1>5, <2>3, <2>4
  <2>13. QED
    BY <1>2, <2>1, <2>5, <2>9, <2>10, <2>11, <2>12, ScanStep
<1>6. CASE /\ Continue(g) /\ (\E b \in BOOLEAN : missed' = (missed \/ b)) /\ UNCHANGED <<storage, blocks>>
  <2>1. SameTable
    BY <1>1, <1>6 DEF SameTable, drivers
  <2>2. missed' \in BOOLEAN
    BY <1>2, <1>6 DEF TypeOK
  <2>3. WorldOK'
    BY <1>1, <1>2, <2>2, WorldSame
  <2>4. n \in Nat /\ n >= 1
    BY <1>3
  <2> HIDE DEF t, n
  <2>5. /\ g \in Frame /\ g.pc = "lun" /\ g.fn = "scan" /\ g.slot = t.slot /\ g.lun = n /\ g.dev = NULL
        /\ g.parent = NULL
    BY <1>2, <1>3, <2>4 DEF Frame
  <2> HIDE DEF g, Frame
  <2>6. PICK e \in Frame : e = g
    BY <2>5
  <2>7. FrameOK(e)
    BY <1>3, <2>4, <2>5, <2>6 DEF FrameOK, ScanOK
  <2>8. CalledBelow(e) /\ ApartBelow(e)
    BY <1>2, <2>5, <2>6, FitsBelow DEF Callbacks, t
  <2>9. Top.pc \notin {"mark", "maxLun"} /\ Top.fn = "scan"
    BY <1>2 DEF t
  <2>10. QED
    BY <1>2, <1>6, <2>1, <2>3, <2>5, <2>6, <2>7, <2>8, <2>9, Continued
<1>7. QED
  BY <1>1, <1>5, <1>6

LEMMA MarkRegisteredInv ==
  ASSUME UsbInv, MarkRegistered
  PROVE  UsbInv'
<1> USE GoingParts
<1> DEFINE t == Top  s == t.slot  l == t.lun  n == l + 1  r == storage[s].registered \cup {l}
           f == [t EXCEPT !.pc = "lun", !.lun = n]
<1>1. /\ Running("scan", "mark")
      /\ UNCHANGED <<world, hw, table, connectedPorts, hubs, queued, blocks, halt, missed>>
      /\ storage' = [storage EXCEPT ![s].registered = r] /\ Continue(f)
  BY DEF MarkRegistered
<1>2. Live /\ stack # <<>> /\ t \in Frame /\ t.fn = "scan" /\ t.pc = "mark" /\ FrameOK(t)
  BY <1>1, AtTop
<1>3. /\ s \in Slots /\ l >= 1 /\ storage[s].dev # NULL /\ t.dev = NULL /\ t.parent = NULL /\ l \in Nat
      /\ l \in Luns /\ <<s, l>> \in blocks
  BY <1>2 DEF FrameOK, ScanOK, Frame
<1>4. r \in SUBSET Luns
  BY <1>2, <1>3 DEF TypeOK
<1>5. /\ \A q \in Slots : storage'[q].dev = storage[q].dev
      /\ \A q \in Slots : storage'[q].registered = IF q = s THEN r ELSE storage[q].registered
  <2>1. storage \in [Slots -> [dev : Ids \cup {NULL}, scanPending : BOOLEAN, registered : SUBSET Luns]]
    BY <1>2 DEF TypeOK
  <2> HIDE DEF r, s
  <2>2. QED
    BY <1>1, <1>3, <1>4, <2>1
<1>6. n \in Nat /\ n >= 1
  BY <1>3
<1> HIDE DEF t, s, l, r, n
<1>7. /\ f \in Frame /\ f.pc = "lun" /\ f.fn = "scan" /\ f.slot = s /\ f.lun = n /\ f.dev = NULL
      /\ f.parent = NULL
  BY <1>2, <1>3, <1>6 DEF Frame, s
<1> HIDE DEF f, Frame
<1>8. PICK e \in Frame : e = f
  BY <1>7
<1>9. FrameOK(e)'
  BY <1>1, <1>3, <1>5, <1>6, <1>7, <1>8 DEF FrameOK, ScanOK
<1> DEFINE b == <<s, l>>
<1>10. b \in Slots \X Luns /\ b[1] = s /\ b[2] = l /\ b \in blocks
  BY <1>3
<1>11. Len(stack) = 1 /\ stack[1] = t /\ DOMAIN stack = 1..1
  BY <1>2, CallbackAtBottom, Stacked DEF Callbacks, t
<1>12. stack' = <<e>>
  <2>1. stack' \in Seq(Frame) /\ Len(stack') = 1 /\ stack'[1] = e
    BY <1>1, <1>2, <1>8, <1>11, Replaced
  <2>2. QED
    BY <2>1
<1>13. BeingRegistered = {b}
  <2>1. BeingRegistered = {<<t.slot, t.lun>>}
    BY <1>2, <1>11 DEF BeingRegistered
  <2>2. QED
    BY <2>1 DEF s, l
<1>14. BeingRegistered' = {}
  <2>1. DOMAIN stack' = {1} /\ stack'[1] = e
    BY <1>12
  <2>2. QED
    BY <1>7, <1>8, <2>1 DEF BeingRegistered
<1>15. blocks \subseteq Slots \X Luns
  BY <1>2 DEF TypeOK
<1>16. BlocksInStep'
  <2>1. /\ blocks \ {b} = {a \in Slots \X Luns : a[2] \in storage[a[1]].registered} \ {b}
        /\ \A a \in blocks : storage[a[1]].dev # NULL
    <3>1. UnitsBound /\ halt = "no"
      BY GoingParts, <1>2 DEF t, Live
    <3>2. QED
      BY <1>13, <3>1 DEF UnitsBound, BlocksInStep
  <2>2. \A a \in Slots \X Luns : a \in blocks <=> a[2] \in storage'[a[1]].registered
    <3>1. SUFFICES ASSUME NEW a \in Slots \X Luns
                   PROVE  a \in blocks <=> a[2] \in storage'[a[1]].registered
      OBVIOUS
    <3>2. CASE a = b
      BY <1>3, <1>5, <1>10, <3>2 DEF r
    <3>3. CASE a # b
      <4>1. a[1] # s \/ a[2] # l
        BY <1>10, <3>3
      <4>2. a[2] \in storage'[a[1]].registered <=> a[2] \in storage[a[1]].registered
        BY <1>5, <4>1 DEF r
      <4>3. a \in blocks <=> a[2] \in storage[a[1]].registered
        <5> HIDE DEF b
        <5>1. QED
          BY <2>1, <3>3
      <4>4. QED
        BY <4>2, <4>3
    <3>4. QED
      BY <3>2, <3>3
  <2>3. blocks = {a \in Slots \X Luns : a[2] \in storage'[a[1]].registered}
    BY <1>15, <2>2
  <2>4. \A a \in blocks : storage'[a[1]].dev # NULL
    BY <1>5, <1>15, <2>1
  <2>5. UNCHANGED blocks
    BY <1>1
  <2>6. QED
    BY <1>14, <2>3, <2>4, <2>5 DEF BlocksInStep
<1>17. Top.fn = "scan" /\ e.slot = Top.slot /\ storage' = [storage EXCEPT ![Top.slot].registered = r]
  BY <1>1, <1>2, <1>7, <1>8 DEF t, s
<1>18. /\ Continue(e) /\ e.fn = "scan" /\ blocks' \subseteq Slots \X Luns
       /\ UNCHANGED <<world, hw, table, connectedPorts, hubs, queued, halt, missed>>
  BY <1>1, <1>7, <1>8, <1>15
<1>19. QED
  BY <1>2, <1>4, <1>9, <1>16, <1>17, <1>18, ScanStep

(* What is seen of the root ports changes, and no device.                   *)
LEMMA ConnectedInv ==
  ASSUME Live, UNCHANGED <<table, drivers, halt>>, WorldOK', connectedPorts' \subseteq RootPorts,
         \A p \in RootPorts : rootDevices[p] # NULL => p \in connectedPorts',
         stack' \in Seq(Frame), Calls', BeingRegistered' = BeingRegistered,
         UnitsBound, \A h \in HubIds : ~Probed(h)
  PROVE  UsbInv'
<1> USE GoingParts
<1>0. /\ UNCHANGED <<devices, rootDevices, hubs, storage, queued, blocks, halt>>
      /\ halt = "no"
  BY DEF table, drivers, Live
<1>1. TablesOK'
  BY <1>0, TablesFit DEF TablesOK
<1>2. Tree'
  <2>1. TreeInStep'
    BY <1>0 DEF Tree, TreeInStep, Used
  <2>2. PortsFit' /\ HubSlots'
    BY <1>0 DEF Tree, PortsFit, HubSlots, Used
  <2>3. Rooted'
    BY <1>0, RootedSame DEF Used, Tree
  <2>4. QED
    BY <2>1, <2>2, <2>3 DEF Tree
<1>3. HubsBound'
  BY <1>0 DEF HubsBound
<1>4. UnitsBound'
  <2>1. SlotsBound' /\ StorageBound'
    BY <1>0 DEF UnitsBound, SlotsBound, StorageBound
  <2>2. BlocksInStep'
    BY <1>0 DEF UnitsBound, BlocksInStep
  <2>3. QED
    BY <2>1, <2>2 DEF UnitsBound
<1>5. QED
  BY <1>0, <1>1, <1>2, <1>3, <1>4, ChangedInv

(* USB_Poll, which nothing waits for, goes on as f.                         *)
LEMMA PollOnward ==
  ASSUME stack \in Seq(Frame), Calls, stack # <<>>, Top.fn = "poll", FrameOK(Top),
         NEW f \in Frame, Continue(f), f.fn = "poll", f.pc # "mark", FrameOK(f)'
  PROVE  /\ stack' \in Seq(Frame) /\ Calls'
         /\ BeingRegistered = {} /\ BeingRegistered' = {} /\ \A h \in HubIds : ~Probed(h)
<1> HIDE DEF Frame
<1>1. Len(stack) = 1 /\ DOMAIN stack = 1..1 /\ stack[1] = Top
  BY CallbackAtBottom, Stacked DEF Callbacks
<1>2. stack' = <<f>>
  <2>1. stack' \in Seq(Frame) /\ Len(stack') = 1 /\ stack'[1] = f
    BY <1>1, Replaced
  <2>2. QED
    BY <2>1
<1>3. stack' \in Seq(Frame) /\ Calls'
  <2>1. StillOK(Len(stack) - 1) /\ CalledBelow(f) /\ ApartBelow(f)
    BY <1>1 DEF StillOK, CalledBelow, ApartBelow
  <2>2. QED
    BY <2>1, CallsReplaced
<1>4. BeingRegistered = {} /\ \A h \in HubIds : ~Probed(h)
  <2>1. Top.pc # "mark"
    BY DEF FrameOK, PollOK
  <2>2. QED
    BY <1>1, <2>1 DEF BeingRegistered, Probed
<1>5. BeingRegistered' = {}
  BY <1>2 DEF BeingRegistered
<1>6. QED
  BY <1>3, <1>4, <1>5

LEMMA RootResetInv ==
  ASSUME UsbInv, RootReset
  PROVE  UsbInv'
<1> DEFINE t == Top  p == t.port  there == At(<<Root, p>>)
<1>1. /\ Running("poll", "settle") /\ UNCHANGED <<at, table, drivers, halt>>
      /\ \/ /\ \E u \in Things : Resets(u)
            /\ connectedPorts' = connectedPorts \cup {p} /\ Goto("enumerate") /\ UNCHANGED missed
         \/ /\ \E u \in Things : Resets(u)
            /\ stack' = Onwards /\ missed' = TRUE /\ UNCHANGED connectedPorts
         \/ /\ stack' = Onwards /\ (\E b \in BOOLEAN : missed' = (missed \/ b))
            /\ UNCHANGED <<hw, powered, change, connectedPorts>>
  BY DEF RootReset, At
<1>2. /\ Live /\ stack # <<>> /\ stack \in Seq(Frame) /\ Calls
      /\ t \in Frame /\ t.fn = "poll" /\ t.pc = "settle" /\ FrameOK(t)
  BY <1>1, AtTop
<1>3. missed' \in BOOLEAN
  <2>1. missed \in BOOLEAN
    BY <1>2, GoingParts DEF TypeOK
  <2>2. QED
    BY <1>1, <2>1
<1>4. WorldOK'
  <2>1. CASE \E u \in Things : Resets(u)
    BY <1>1, <1>2, <1>3, <2>1, WorldReset
  <2>2. CASE UNCHANGED <<hw, powered, change>>
    BY <1>1, <1>2, <1>3, <2>2, WorldSame DEF world
  <2>3. QED
    BY <1>1, <2>1, <2>2
<1>5. CASE stack' = Onwards /\ UNCHANGED connectedPorts
  <2>1. SameTable
    BY <1>1, <1>5 DEF SameTable
  <2>2. QED
    BY <1>2, <1>4, <1>5, <2>1, NextPortInv
<1>6. CASE connectedPorts' = connectedPorts \cup {p} /\ Goto("enumerate")
  <2>1. p \in RootPorts /\ rootDevices[p] = NULL /\ t.dev = NULL /\ t.parent = NULL /\ p >= 1
    BY <1>2 DEF FrameOK, PollOK
  <2> DEFINE f == [t EXCEPT !.pc = "enumerate"]
  <2>2. Continue(f)
    BY <1>6 DEF Goto
  <2>3. /\ f \in Frame /\ f.pc = "enumerate" /\ f.fn = "poll" /\ f.port = p
        /\ f.dev = NULL /\ f.parent = NULL
    <3> HIDE DEF t
    <3>1. f \in Frame /\ f.pc = "enumerate" /\ f.fn = t.fn /\ f.port = t.port /\ f.dev = t.dev
          /\ f.parent = t.parent
      BY <1>2 DEF Frame
    <3>2. QED
      BY <1>2, <2>1, <3>1
  <2> HIDE DEF f, t, p, Frame
  <2>4. PICK g \in Frame : g = f
    BY <2>3
  <2>5. rootDevices' = rootDevices /\ p \in connectedPorts'
    BY <1>1, <1>6 DEF table
  <2>6. FrameOK(g)'
    BY <2>1, <2>3, <2>4, <2>5 DEF FrameOK, PollOK
  <2>7. /\ stack' \in Seq(Frame) /\ Calls'
        /\ BeingRegistered = {} /\ BeingRegistered' = {} /\ \A h \in HubIds : ~Probed(h)
    <3>1. Top.fn = "poll" /\ FrameOK(Top)
      BY <1>2 DEF t
    <3>2. Continue(g) /\ g.fn = "poll" /\ g.pc # "mark"
      BY <2>2, <2>3, <2>4
    <3>3. QED
      BY <1>2, <2>6, <3>1, <3>2, PollOnward
  <2>8. connectedPorts' \subseteq RootPorts /\ \A q \in RootPorts : rootDevices[q] # NULL => q \in connectedPorts'
    <3>1. TypeOK /\ TreeInStep /\ halt = "no"
      BY <1>2, GoingParts DEF Tree, Live
    <3>2. connectedPorts \subseteq RootPorts
      BY <3>1 DEF TypeOK
    <3>3. \A q \in RootPorts : rootDevices[q] # NULL => q \in connectedPorts
      BY <3>1 DEF TreeInStep
    <3>4. QED
      BY <1>6, <2>1, <3>2, <3>3
  <2>9. UnitsBound
    BY <1>2, GoingParts DEF t
  <2>10. QED
    BY <1>1, <1>2, <1>4, <2>7, <2>8, <2>9, ConnectedInv
<1>7. QED
  BY <1>1, <1>5, <1>6

(* disconnectDevice of c, while no hub is being probed and no unit being    *)
(* registered.                                                              *)
LEMMA DetachedInv ==
  ASSUME Live, UNCHANGED <<halt, queued>>, WorldOK', NEW c \in Ids, Used(c),
         devices' = [j \in Ids |-> IF j \in Gone(c) THEN NoDevice ELSE devices[j]],
         storage' = StorageWithout(Gone(c)), blocks' = BlocksWithout(Gone(c)),
         rootDevices' \in [RootPorts -> Ids \cup {NULL}], connectedPorts' \subseteq RootPorts,
         hubs' \in [HubIds -> [dev : Ids \cup {NULL}, children : [HubPorts -> Ids \cup {NULL}]]],
         \A p \in RootPorts : rootDevices'[p] = IF rootDevices[p] = c THEN NULL ELSE rootDevices[p],
         \A p \in RootPorts : p \in connectedPorts /\ rootDevices[p] # c => p \in connectedPorts',
         \A h \in HubIds : hubs'[h].dev = IF hubs[h].dev \in Gone(c) THEN NULL ELSE hubs[h].dev,
         \A h \in HubIds, p \in HubPorts :
           hubs'[h].children[p] =
             IF hubs[h].dev \in Gone(c) \/ hubs[h].children[p] = c THEN NULL ELSE hubs[h].children[p],
         \A h \in HubIds : ~Probed(h), BeingRegistered = {}, BeingRegistered' = {},
         UnitsBound, stack' \in Seq(Frame), Calls'
  PROVE  UsbInv'
<1> USE GoingParts
<1>0. halt = "no" /\ UNCHANGED halt /\ UNCHANGED queued
  BY DEF Live
<1> DEFINE D == Gone(c)
<1>1. D \in SUBSET Ids /\ c \in D /\ Closed(D) /\ \A j \in D : j # c => devices[j].parent \in D
  BY GoneSet
<1> HIDE DEF D, Frame
<1>2. \A i \in Ids : devices'[i] = IF i \in D THEN NoDevice ELSE devices[i]
  BY DEF D
<1>3. Tree'
  <2>1. /\ \A h \in HubIds : hubs'[h].dev = IF hubs[h].dev \in D THEN NULL ELSE hubs[h].dev
        /\ \A h \in HubIds, p \in HubPorts : hubs'[h].children[p] =
             IF hubs[h].dev \in D \/ hubs[h].children[p] = c THEN NULL ELSE hubs[h].children[p]
    BY DEF D
  <2>2. QED
    BY <1>0, <1>1, <1>2, <2>1, TreeDetached
<1>4. UnitsBound' /\ blocks' \subseteq Slots \X Luns
  <2>1. storage' = StorageWithout(D) /\ blocks' = BlocksWithout(D)
    BY DEF D
  <2>2. QED
    BY <1>0, <1>1, <1>2, <2>1, UnitsDetached
<1>5. HubsBound'
  <2>1. SUFFICES ASSUME NEW h \in HubIds, hubs'[h].dev # NULL
                 PROVE  devices'[hubs'[h].dev].driver = "hub" /\ devices'[hubs'[h].dev].data = h
    BY DEF HubsBound
  <2>2. hubs'[h].dev = hubs[h].dev /\ hubs[h].dev \notin D /\ hubs[h].dev \in Ids
    BY <2>1 DEF D, TypeOK
  <2>3. devices'[hubs'[h].dev] = devices[hubs[h].dev]
    BY <1>2, <2>2
  <2>4. QED
    BY <2>1, <2>2, <2>3 DEF HubsBound
<1>6. TablesOK'
  <2>1. devices' \in [Ids -> Device \cup {NoDevice}]
    BY DEF TypeOK
  <2>2. storage' \in [Slots -> [dev : Ids \cup {NULL}, scanPending : BOOLEAN, registered : SUBSET Luns]]
    BY <1>0, <1>1, StorageCleared DEF UnitsBound, D
  <2>3. queued' \in [Slots -> Nat]
    BY <1>0 DEF TypeOK
  <2>4. QED
    BY <1>4, <2>1, <2>2, <2>3 DEF TablesOK
<1>7. QED
  BY <1>0, <1>3, <1>4, <1>5, <1>6, ChangedInv

(* Nothing is behind a pointer that is NULL.                                *)
LEMMA NothingDetached ==
  ASSUME TypeOK, NEW st \in Seq(Frame), Disconnect(NULL, st)
  PROVE  /\ UNCHANGED <<devices, storage, blocks>> /\ stack' = st /\ HubsWithout(Gone(NULL)) = hubs
<1>1. Gone(NULL) = {}
  BY NoneGone
<1> HIDE DEF Frame
<1>2. devices' = devices
  BY <1>1 DEF Disconnect, TypeOK
<1>3. BoundStorage({}) = {}
  BY DEF BoundStorage
<1>4. storage' = storage
  BY <1>1, <1>3 DEF Disconnect, StorageWithout, TypeOK
<1>5. blocks' = blocks
  BY <1>1, <1>3 DEF Disconnect, BlocksWithout, TypeOK
<1>6. stack' = st
  <2>1. stack' = Invalidated(st, {})
    BY <1>1 DEF Disconnect
  <2>2. QED
    BY <2>1, NothingInvalidated
<1>7. HubsWithout({}) = hubs
  BY DEF HubsWithout, TypeOK
<1>8. QED
  BY <1>1, <1>2, <1>4, <1>5, <1>6, <1>7

LEMMA RootStatusInv ==
  ASSUME UsbInv, RootStatus
  PROVE  UsbInv'
<1> DEFINE t == Top  p == t.port  connected == At(<<Root, p>>) # {}
<1>1. /\ Running("poll", "status") /\ p \in RootPorts /\ UNCHANGED <<world, hw, halt, missed>>
      /\ \/ stack' = Onwards /\ UNCHANGED <<table, connectedPorts, drivers>>
         \/ /\ p \in connectedPorts /\ connectedPorts' = connectedPorts \ {p}
            /\ Disconnect(rootDevices[p], Onwards)
            /\ rootDevices' = [rootDevices EXCEPT ![p] = NULL]
            /\ hubs' = HubsWithout(Gone(rootDevices[p])) /\ UNCHANGED queued
         \/ p \notin connectedPorts /\ Goto("settle") /\ UNCHANGED <<table, connectedPorts, drivers>>
  BY DEF RootStatus
<1>2. /\ Live /\ stack # <<>> /\ stack \in Seq(Frame) /\ Calls
      /\ t \in Frame /\ t.fn = "poll" /\ t.pc = "status" /\ FrameOK(t)
  BY <1>1, AtTop
<1>3. WorldOK'
  BY <1>1, <1>2, WorldSame, NotMissed
<1>4. CASE stack' = Onwards /\ UNCHANGED <<table, connectedPorts, drivers>>
  <2>1. SameTable
    BY <1>1, <1>4 DEF SameTable
  <2>2. QED
    BY <1>2, <1>3, <1>4, <2>1, NextPortInv
<1>5. /\ TypeOK /\ Tree /\ HubsBound /\ TreeInStep /\ halt = "no"
  BY <1>2, GoingParts DEF Tree, Live
<1>6. CASE p \notin connectedPorts /\ Goto("settle") /\ UNCHANGED <<table, connectedPorts, drivers>>
  <2>1. rootDevices[p] = NULL /\ t.dev = NULL /\ t.parent = NULL /\ p >= 1
    BY <1>1, <1>2, <1>5, <1>6 DEF FrameOK, PollOK, TreeInStep
  <2> DEFINE f == [t EXCEPT !.pc = "settle"]
  <2>2. Continue(f)
    BY <1>6 DEF Goto
  <2>3. /\ f \in Frame /\ f.pc = "settle" /\ f.fn = "poll" /\ f.port = p
        /\ f.dev = NULL /\ f.parent = NULL
    <3> HIDE DEF t
    <3>1. f \in Frame /\ f.pc = "settle" /\ f.fn = t.fn /\ f.port = t.port /\ f.dev = t.dev
          /\ f.parent = t.parent
      BY <1>2 DEF Frame
    <3>2. QED
      BY <1>2, <2>1, <3>1
  <2> HIDE DEF f, t, p, Frame
  <2>4. PICK g \in Frame : g = f
    BY <2>3
  <2>5. FrameOK(g)
    BY <1>1, <2>1, <2>3, <2>4 DEF FrameOK, PollOK
  <2>6. CalledBelow(g) /\ ApartBelow(g)
    BY <1>2, <2>3, <2>4, FitsBelow DEF Callbacks, t
  <2>7. SameTable /\ Continue(g) /\ g.fn = "poll" /\ g.pc = "settle"
    BY <1>1, <1>6, <2>2, <2>3, <2>4 DEF SameTable
  <2>8. Top.pc = "status" /\ Top.fn = "poll"
    BY <1>2 DEF t
  <2>9. QED
    BY <1>2, <1>3, <2>5, <2>6, <2>7, <2>8, Continued
<1>7. CASE /\ p \in connectedPorts /\ connectedPorts' = connectedPorts \ {p}
           /\ Disconnect(rootDevices[p], Onwards)
           /\ rootDevices' = [rootDevices EXCEPT ![p] = NULL]
           /\ hubs' = HubsWithout(Gone(rootDevices[p])) /\ UNCHANGED queued
  <2> DEFINE c == rootDevices[p]
  <2>0. t.fn = "poll"
    BY <1>2
  <2>1. PICK f \in Frame :
          /\ f = NextPort /\ f.fn = "poll" /\ f.pc = "status" /\ FrameOK(f) /\ FrameOK(f)'
    BY <1>2, NextPortOK
  <2>2. Onwards = <<f>>
    <3> HIDE DEF Frame
    <3>1. Len(stack) = 1
      BY <1>2, CallbackAtBottom DEF Callbacks
    <3>2. Front(stack) \in Seq(Frame) /\ Len(Front(stack)) = 0
      BY <1>2, <3>1, Stacked
    <3>3. Front(stack) = <<>>
      BY <3>2
    <3>4. QED
      BY <2>1, <3>3 DEF Onwards
  <2>3. f.dev = NULL /\ f.parent = NULL
    BY <2>1 DEF FrameOK
  <2> HIDE DEF c, p, Frame
  <2>4. c \in Ids \cup {NULL}
    BY <1>1, <1>5 DEF TypeOK, c
  <2>5. /\ devices' = [j \in Ids |-> IF j \in Gone(c) THEN NoDevice ELSE devices[j]]
        /\ storage' = StorageWithout(Gone(c)) /\ blocks' = BlocksWithout(Gone(c))
        /\ hubs' = HubsWithout(Gone(c)) /\ stack' = Invalidated(<<f>>, Gone(c)) /\ UNCHANGED queued
    BY <1>7, <2>2 DEF Disconnect, c
  <2>6. stack' = <<f>>
    <3>1. NULL \notin Gone(c)
      BY <2>4, NoneGone, GoneSet, UsbAssumption DEF Ids, NULL
    <3> DEFINE st == <<f>>
    <3>2. st \in Seq(Frame) /\ \A i \in DOMAIN st : st[i].dev \notin Gone(c) /\ st[i].parent \notin Gone(c)
      BY <2>3, <3>1
    <3> HIDE DEF st
    <3>3. Invalidated(st, Gone(c)) = st
      BY <3>2, NothingInvalidated
    <3>4. QED
      BY <2>5, <3>3 DEF st
  <2>7. Continue(f)
    BY <2>1, <2>2, <2>6 DEF Onwards, Continue
  <2>8. /\ stack' \in Seq(Frame) /\ Calls'
        /\ BeingRegistered = {} /\ BeingRegistered' = {} /\ \A h \in HubIds : ~Probed(h)
    <3>1. f.pc # "mark"
      BY <2>1
    <3> HIDE DEF t
    <3>2. Top.fn = "poll" /\ FrameOK(Top)
      BY <1>2, <2>0 DEF t
    <3>3. QED
      BY <1>2, <2>1, <2>7, <3>1, <3>2, PollOnward
  <2>12. UnitsBound
    BY <1>2, GoingParts DEF t
  <2>9. CASE c = NULL
    <3>1. UNCHANGED <<devices, storage, blocks, hubs>>
      <4>1. Onwards \in Seq(Frame) /\ Disconnect(NULL, Onwards)
        BY <1>7, <2>2, <2>9 DEF c
      <4>2. UNCHANGED <<devices, storage, blocks>> /\ HubsWithout(Gone(NULL)) = hubs
        BY <1>5, <4>1, NothingDetached
      <4>3. QED
        BY <2>5, <2>9, <4>2
    <3>2. rootDevices' = rootDevices
      BY <1>1, <1>5, <1>7, <2>9 DEF TypeOK, c
    <3>3. connectedPorts' \subseteq RootPorts /\ \A q \in RootPorts : rootDevices[q] # NULL => q \in connectedPorts'
      BY <1>5, <1>7, <2>9 DEF TypeOK, TreeInStep, c
    <3>4. UNCHANGED <<table, drivers, halt>>
      BY <1>1, <2>5, <3>1, <3>2 DEF table, drivers
    <3>5. QED
      BY <1>2, <1>3, <2>8, <2>12, <3>3, <3>4, ConnectedInv
  <2>10. CASE c # NULL
    <3>1. c \in Ids /\ Used(c) /\ devices[c].parent = NULL /\ devices[c].port = p /\ rootDevices[p] = c
      <4>1. c = rootDevices[p]
        BY DEF c
      <4>2. QED
        BY <1>1, <1>5, <2>10, <4>1, Pointers
    <3>2. \A q \in RootPorts : rootDevices[q] = c => q = p
      BY <1>5, <2>10, <3>1, Pointers
    <3>3. /\ rootDevices' \in [RootPorts -> Ids \cup {NULL}]
          /\ \A q \in RootPorts : rootDevices'[q] = IF rootDevices[q] = c THEN NULL ELSE rootDevices[q]
      BY <1>1, <1>5, <1>7, <3>1, <3>2 DEF TypeOK
    <3>4. /\ connectedPorts' \subseteq RootPorts
          /\ \A q \in RootPorts : q \in connectedPorts /\ rootDevices[q] # c => q \in connectedPorts'
      BY <1>5, <1>7, <3>1 DEF TypeOK
    <3>5. \A h \in HubIds, q \in HubPorts : hubs[h].children[q] # c
      <4>1. ASSUME NEW h \in HubIds, NEW q \in HubPorts, hubs[h].children[q] = c PROVE FALSE
        <5>1. devices[c].parent = hubs[h].dev
          BY <1>5, <2>10, <4>1, Pointers
        <5>2. hubs[h].dev # NULL
          BY <1>5, <2>10, <4>1 DEF Tree, HubSlots
        <5>3. QED
          BY <3>1, <5>1, <5>2
      <4>2. QED
        BY <4>1
    <3>6. Gone(c) \in SUBSET Ids
      BY <3>1, GoneSet
    <3>7. \A h \in HubIds : hubs'[h] = IF hubs[h].dev \in Gone(c) THEN NoHub ELSE hubs[h]
      BY <1>5, <2>5, <2>8, <3>6, HubSlotsCleared
    <3>8. /\ NoHub \in [dev : Ids \cup {NULL}, children : [HubPorts -> Ids \cup {NULL}]]
          /\ NoHub.dev = NULL /\ \A q \in HubPorts : NoHub.children[q] = NULL
      BY DEF NoHub
    <3>9. hubs' \in [HubIds -> [dev : Ids \cup {NULL}, children : [HubPorts -> Ids \cup {NULL}]]]
      <4>1. hubs' = [h \in HubIds |-> hubs'[h]]
        BY <2>5 DEF HubsWithout
      <4>2. hubs \in [HubIds -> [dev : Ids \cup {NULL}, children : [HubPorts -> Ids \cup {NULL}]]]
        BY <1>5 DEF TypeOK
      <4>3. \A h \in HubIds : hubs'[h] \in [dev : Ids \cup {NULL}, children : [HubPorts -> Ids \cup {NULL}]]
        BY <3>7, <3>8, <4>2
      <4> HIDE DEF NoHub
      <4>4. QED
        BY <4>1, <4>3
    <3>10. /\ \A h \in HubIds : hubs'[h].dev = IF hubs[h].dev \in Gone(c) THEN NULL ELSE hubs[h].dev
           /\ \A h \in HubIds, q \in HubPorts : hubs'[h].children[q] =
                IF hubs[h].dev \in Gone(c) \/ hubs[h].children[q] = c THEN NULL ELSE hubs[h].children[q]
      BY <3>5, <3>7, <3>8
    <3>11. QED
      BY <1>1, <1>2, <1>3, <2>5, <2>8, <2>12, <3>1, <3>3, <3>4, <3>9, <3>10, DetachedInv
  <2>11. QED
    BY <2>9, <2>10
<1>8. QED
  BY <1>1, <1>4, <1>6, <1>7

(* hubHandlePort, of the port p of a hub whose own device stays.            *)
LEMMA HandleClearedInv ==
  ASSUME UsbInv, Live, WorldOK', UNCHANGED <<rootDevices, connectedPorts, queued, halt>>,
         stack # <<>>, Top.fn = "handle", Top.pc = "clear", FrameOK(Top), Top \in Frame,
         NEW g \in Frame, g.fn = "handle", g.pc = "reset", g.hub = Top.hub, g.port = Top.port,
         g.dev = NULL, g.parent = NULL,
         NEW st, st = Front(stack) \/ st = Append(Front(stack), g),
         Disconnect(Child, st), Child # NULL,
         hubs' = [HubsWithout(Gone(Child)) EXCEPT ![Top.hub].children[Top.port] = NULL]
  PROVE  UsbInv'
<1> USE GoingParts
<1> HIDE DEF Frame
<1> DEFINE c == Child  D == Gone(c)  h0 == Top.hub  p0 == Top.port
           R == [dev : Ids \cup {NULL}, children : [HubPorts -> Ids \cup {NULL}]]
<1>0. TreeInStep /\ Tree /\ halt = "no" /\ Len(stack) \in Nat
  BY Stacked DEF Tree, Live
<1>1. h0 \in HubIds /\ hubs[h0].dev # NULL /\ p0 \in HubPorts /\ hubs[h0].children[p0] = c
  BY DEF FrameOK, HandleOK, Child
<1>2. Len(stack) = 2 /\ stack[1].fn = "hubPoll" /\ stack[1].pc = "ports" /\ FrameOK(stack[1])
  BY ChildFound
<1> HIDE DEF c
<1>3. c # NULL
  BY DEF c
<1>4. c \in Ids /\ Used(c) /\ devices[c].parent = hubs[h0].dev /\ devices[c].port = p0
  BY <1>0, <1>1, <1>3, Pointers
<1>5. D \in SUBSET Ids /\ c \in D /\ NULL \notin D
  BY <1>4, GoneSet, UsbAssumption DEF Ids, NULL
<1>6. hubs[h0].dev \notin D
  <2>1. Rooted /\ devices[c].parent # NULL
    BY <1>1, <1>4 DEF Tree
  <2>2. QED
    BY <1>4, <2>1, NoCycle
<1> HIDE DEF D, h0, p0
<1>7. PICK e \in Frame : e = stack[1]
  BY <1>2, ElementOfSeq
<1>8. /\ e.fn = "hubPoll" /\ e.pc = "ports" /\ FrameOK(e) /\ e.dev = NULL /\ e.parent = NULL
      /\ e.hub = h0
  <2>1. Called(stack[1], stack[2])
    <3>1. 1 \in 1..(Len(stack) - 1) /\ 1 + 1 = 2
      BY <1>2
    <3>2. QED
      BY <3>1, Waiting
  <2>2. stack[2] = Top
    BY <1>2, Stacked
  <2>3. QED
    BY <1>2, <1>7, <2>1, <2>2 DEF FrameOK, Called, h0
<1>9. st \in Seq(Frame) /\ \A i \in DOMAIN st : st[i].dev \notin D /\ st[i].parent \notin D
  <2>1. Front(stack) = <<e>>
    <3>1. Front(stack) \in Seq(Frame) /\ Len(Front(stack)) = 1 /\ Front(stack)[1] = e
      BY <1>2, <1>7, Stacked
    <3>2. QED
      BY <3>1
  <2>2. st = <<e>> \/ st = <<e, g>>
    BY <2>1
  <2>3. g.dev \notin D /\ g.parent \notin D /\ e.dev \notin D /\ e.parent \notin D
    BY <1>5, <1>8
  <2>4. CASE st = <<e>>
    BY <2>3, <2>4
  <2>5. CASE st = <<e, g>>
    BY <2>3, <2>5
  <2>6. QED
    BY <2>2, <2>4, <2>5
<1>10. /\ devices' = [j \in Ids |-> IF j \in D THEN NoDevice ELSE devices[j]]
       /\ storage' = StorageWithout(D) /\ blocks' = BlocksWithout(D) /\ stack' = st
  <2>1. Invalidated(st, D) = st
    BY <1>9, NothingInvalidated
  <2>2. QED
    BY <2>1 DEF Disconnect, D, c
<1>11. BeingRegistered = {} /\ \A h \in HubIds : ~Probed(h)
  <2>1. BeingRegistered = {}
    BY NoneBeingRegistered
  <2>2. DOMAIN stack = 1..2 /\ stack[2] = Top
    BY <1>2, Stacked
  <2>3. QED
    BY <1>2, <2>1, <2>2 DEF Probed
<1>12. HubsWithout(D) \in [HubIds -> R] /\ \A h \in HubIds : HubsWithout(D)[h] = IF hubs[h].dev \in D THEN NoHub ELSE hubs[h]
  <2>1. \A h \in HubIds : HubsWithout(D)[h] = IF hubs[h].dev \in D THEN NoHub ELSE hubs[h]
    BY <1>5, <1>11, HubSlotsCleared
  <2>2. NoHub \in R
    BY DEF NoHub
  <2>3. hubs \in [HubIds -> R]
    BY DEF TypeOK
  <2> HIDE DEF R
  <2>4. QED
    BY <2>1, <2>2, <2>3 DEF HubsWithout
<1> DEFINE W == HubsWithout(D)
<1>13. /\ hubs' \in [HubIds -> R]
       /\ \A h \in HubIds : hubs'[h].dev = IF hubs[h].dev \in D THEN NULL ELSE hubs[h].dev
       /\ \A h \in HubIds, q \in HubPorts : hubs'[h].children[q] =
            IF hubs[h].dev \in D \/ (h = h0 /\ q = p0) THEN NULL ELSE hubs[h].children[q]
  <2>1. hubs' = [W EXCEPT ![h0].children[p0] = NULL]
    BY DEF D, c, h0, p0
  <2>2. W \in [HubIds -> R] /\ \A h \in HubIds : W[h] = IF hubs[h].dev \in D THEN NoHub ELSE hubs[h]
    BY <1>12
  <2> HIDE DEF W
  <2>3. ASSUME NEW h \in HubIds
        PROVE  /\ hubs'[h] \in R /\ hubs'[h].dev = W[h].dev
               /\ \A q \in HubPorts : hubs'[h].children[q] =
                    IF h = h0 /\ q = p0 THEN NULL ELSE W[h].children[q]
    <3>1. W[h] \in R
      BY <2>2
    <3>2. hubs'[h] = IF h = h0 THEN [W[h] EXCEPT !.children = [@ EXCEPT ![p0] = NULL]] ELSE W[h]
      BY <1>1, <2>1, <2>2
    <3> DEFINE w == W[h]
    <3>3. ASSUME h = h0
          PROVE  /\ hubs'[h] \in R /\ hubs'[h].dev = w.dev
                 /\ \A q \in HubPorts : hubs'[h].children[q] = IF q = p0 THEN NULL ELSE w.children[q]
      <4>1. w \in R /\ hubs'[h] = [w EXCEPT !.children = [@ EXCEPT ![p0] = NULL]]
        BY <3>1, <3>2, <3>3
      <4> HIDE DEF w
      <4>2. QED
        BY <1>1, <4>1
    <3>4. QED
      BY <3>1, <3>2, <3>3
  <2>4. hubs' \in [HubIds -> R]
    BY <2>1, <2>2, <2>3
  <2>5. NoHub.dev = NULL /\ \A q \in HubPorts : NoHub.children[q] = NULL
    BY DEF NoHub
  <2>6. ASSUME NEW h \in HubIds PROVE hubs'[h].dev = IF hubs[h].dev \in D THEN NULL ELSE hubs[h].dev
    BY <2>2, <2>3, <2>5
  <2>7. ASSUME NEW h \in HubIds, NEW q \in HubPorts
        PROVE  hubs'[h].children[q] =
                 IF hubs[h].dev \in D \/ (h = h0 /\ q = p0) THEN NULL ELSE hubs[h].children[q]
    <3>1. W[h].children[q] = IF hubs[h].dev \in D THEN NULL ELSE hubs[h].children[q]
      <4>1. W[h] = IF hubs[h].dev \in D THEN NoHub ELSE hubs[h]
        BY <2>2
      <4> HIDE DEF NoHub
      <4>2. QED
        BY <2>5, <4>1
    <3>2. hubs'[h].children[q] = IF h = h0 /\ q = p0 THEN NULL ELSE W[h].children[q]
      BY <2>3
    <3>3. QED
      BY <3>1, <3>2
  <2> HIDE DEF R
  <2>8. QED
    BY <2>4, <2>6, <2>7
<1>14. \A h \in HubIds, q \in HubPorts : hubs[h].children[q] = c <=> h = h0 /\ q = p0
  <2>1. ASSUME NEW h \in HubIds, NEW q \in HubPorts, hubs[h].children[q] = c PROVE h = h0 /\ q = p0
    <3>1. devices[c].parent = hubs[h].dev /\ devices[c].port = q
      BY <1>0, <1>3, <2>1, Pointers
    <3>2. hubs[h].dev = hubs[h0].dev /\ q = p0 /\ hubs[h].dev # NULL
      BY <1>1, <1>4, <3>1
    <3>3. \A x, y \in HubIds : hubs[x].dev = hubs[y].dev /\ hubs[x].dev # NULL => x = y
      BY <1>0 DEF Tree, HubSlots
    <3>4. QED
      BY <1>1, <3>2, <3>3
  <2>2. QED
    BY <1>1, <2>1
<1>15. \A p \in RootPorts : rootDevices[p] # c
  BY <1>0, <1>1, <1>3, <1>4, Pointers
<1>16. hubs'[h0].dev = hubs[h0].dev /\ hubs'[h0].children[p0] = NULL
  BY <1>1, <1>6, <1>13
<1>17. FrameOK(e)' /\ FrameOK(g)'
  <2>1. FrameOK(e)'
    BY <1>1, <1>8, <1>16 DEF FrameOK, HubPollOK
  <2>2. FrameOK(g)'
    BY <1>1, <1>16 DEF FrameOK, HandleOK, h0, p0
  <2>3. QED
    BY <2>1, <2>2
<1>18. StillOK(Len(stack) - 1)
  <2>1. SUFFICES ASSUME NEW i \in 1..(Len(stack) - 1), NEW x \in Frame, x = stack[i] PROVE FrameOK(x)'
    BY DEF StillOK
  <2>2. i = 1
    BY <1>2
  <2>3. x = e
    BY <1>7, <2>1, <2>2
  <2>4. QED
    BY <1>17, <2>3
<1>19. stack' \in Seq(Frame) /\ Calls'
  <2>1. CASE st = Front(stack)
    BY <1>10, <1>18, <2>1, CallsPopped DEF Return
  <2>2. CASE st = Append(Front(stack), g)
    <3>1. CalledBelow(g)
      <4>1. SUFFICES ASSUME NEW x \in Frame, x = stack[Len(stack) - 1] PROVE Called(x, g)'
        BY DEF CalledBelow
      <4>2. x = e
        BY <1>2, <1>7, <4>1
      <4>3. QED
        BY <1>8, <4>2 DEF Called, h0
    <3>2. ApartBelow(g)
      <4>1. \A i \in 1..(Len(stack) - 1) : i = 1
        BY <1>2
      <4>2. QED
        BY <1>2, <4>1 DEF ApartBelow, Apart
    <3>3. Continue(g)
      BY <1>10, <2>2 DEF Continue
    <3>4. QED
      BY <1>17, <1>18, <3>1, <3>2, <3>3, CallsReplaced
  <2>3. QED
    BY <2>1, <2>2
<1>20. BeingRegistered' = {}
  <2>1. Front(stack) = <<e>>
    <3>1. Front(stack) \in Seq(Frame) /\ Len(Front(stack)) = 1 /\ Front(stack)[1] = e
      BY <1>2, <1>7, Stacked
    <3>2. QED
      BY <3>1
  <2>2. stack' = <<e>> \/ stack' = <<e, g>>
    BY <1>10, <2>1
  <2>3. QED
    BY <1>8, <2>2 DEF BeingRegistered
<1>21. /\ \A p \in RootPorts : rootDevices'[p] = IF rootDevices[p] = c THEN NULL ELSE rootDevices[p]
       /\ \A p \in RootPorts : p \in connectedPorts /\ rootDevices[p] # c => p \in connectedPorts'
       /\ rootDevices' \in [RootPorts -> Ids \cup {NULL}] /\ connectedPorts' \subseteq RootPorts
  BY <1>15 DEF TypeOK
<1>22. \A h \in HubIds, q \in HubPorts : hubs'[h].children[q] =
         IF hubs[h].dev \in D \/ hubs[h].children[q] = c THEN NULL ELSE hubs[h].children[q]
  BY <1>13, <1>14
<1>23. UNCHANGED <<halt, queued>>
  OBVIOUS
<1>24. QED
  BY <1>4, <1>10, <1>11, <1>13, <1>19, <1>20, <1>21, <1>22, <1>23, DetachedInv DEF D

LEMMA PortClearInv ==
  ASSUME UsbInv, PortClear
  PROVE  UsbInv'
<1> DEFINE t == Top  g == [t EXCEPT !.pc = "reset"]
           st == IF t.todo = {} THEN Front(stack) ELSE Append(Front(stack), g)
<1>1. /\ Running("handle", "clear")
      /\ change' \subseteq change /\ (missed' = missed \/ missed' \in BOOLEAN)
      /\ UNCHANGED <<at, powered, hw, rootDevices, connectedPorts, queued, halt>>
      /\ Disconnect(Child, st)
      /\ hubs' = [HubsWithout(Gone(Child)) EXCEPT ![t.hub].children[t.port] = NULL]
  <2> DEFINE c == <<Top.hubThing, Top.port>>
  <2>1. \/ change' = change \ {c} /\ missed' = missed
        \/ change' = change /\ missed' = (missed \/ c \in change)
    BY Zenon DEF PortClear
  <2>2. missed' = missed \/ missed' = (missed \/ c \in change)
    BY <2>1
  <2>3. missed' = (missed \/ c \in change) => missed' \in BOOLEAN
    OBVIOUS
  <2>4. change' \subseteq change
    BY <2>1
  <2>5. QED
    BY <2>2, <2>3, <2>4 DEF PortClear
<1>2. /\ Live /\ stack # <<>> /\ stack \in Seq(Frame) /\ Calls
      /\ t \in Frame /\ t.fn = "handle" /\ t.pc = "clear" /\ FrameOK(t)
  BY <1>1, AtTop
<1>3. WorldOK'
  <2>1. WorldOK
    BY <1>2, GoingParts
  <2>2. QED
    BY <1>1, <2>1 DEF WorldOK
<1>4. HandleOK(t) /\ t.dev = NULL /\ t.parent = NULL
  BY <1>2 DEF FrameOK
<1>5. /\ g \in Frame /\ g.pc = "reset" /\ g.fn = t.fn /\ g.port = t.port /\ g.dev = t.dev
      /\ g.parent = t.parent /\ g.hub = t.hub
  <2> HIDE DEF t
  <2>1. QED
    BY <1>2 DEF Frame
<1> HIDE DEF g, Frame
<1>6. PICK e \in Frame : e = g
  BY <1>5
<1>7. CASE Child # NULL
  <2>1. st = Front(stack) \/ st = Append(Front(stack), e)
    BY <1>6
  <2> HIDE DEF st
  <2>2. QED
    BY <1>1, <1>2, <1>3, <1>4, <1>5, <1>6, <1>7, <2>1, HandleClearedInv
<1>8. CASE Child = NULL
  <2>1. TypeOK
    BY <1>2, GoingParts
  <2>2. st \in Seq(Frame)
    <3>1. Front(stack) \in Seq(Frame)
      BY <1>2, Stacked
    <3>2. Append(Front(stack), g) \in Seq(Frame)
      BY <1>5, <3>1
    <3>3. QED
      BY <3>1, <3>2
  <2> HIDE DEF st
  <2>3. UNCHANGED <<devices, storage, blocks>> /\ stack' = st /\ HubsWithout(Gone(NULL)) = hubs
    BY <1>1, <1>8, <2>1, <2>2, NothingDetached
  <2>4. hubs' = hubs
    <3>1. hubs' = [hubs EXCEPT ![t.hub].children[t.port] = NULL]
      BY <1>1, <1>8, <2>3
    <3>2. hubs[t.hub].children[t.port] = NULL /\ t.hub \in HubIds /\ t.port \in HubPorts
      BY <1>4, <1>8 DEF Child, HandleOK
    <3>3. hubs \in [HubIds -> [dev : Ids \cup {NULL}, children : [HubPorts -> Ids \cup {NULL}]]]
      BY <2>1 DEF TypeOK
    <3> HIDE DEF t
    <3> DEFINE h == t.hub  x == hubs[h]  ch == x.children
    <3>4. [ch EXCEPT ![t.port] = NULL] = ch
      BY <3>2, <3>3
    <3>5. [x EXCEPT !.children = ch] = x
      BY <3>2, <3>3
    <3>6. QED
      BY <3>1, <3>2, <3>3, <3>4, <3>5
  <2>5. SameTable
    BY <1>1, <2>3, <2>4 DEF SameTable, table, drivers
  <2>6. CASE t.todo = {}
    <3>1. Return
      BY <2>3, <2>6 DEF Return, st
    <3>2. QED
      BY <1>2, <1>3, <2>5, <3>1, Returned
  <2>7. CASE t.todo # {}
    <3>1. Continue(e)
      BY <1>6, <2>3, <2>7 DEF Continue, st
    <3>2. HandleOK(e)
      BY <1>4, <1>5, <1>6, <1>8 DEF HandleOK, Child
    <3>3. QED
      BY <1>2, <1>3, <1>5, <1>6, <2>5, <3>1, <3>2, HandleContinued
  <2>8. QED
    BY <2>6, <2>7
<1>9. QED
  BY <1>7, <1>8

(* The tree has no part that USB_Shutdown does not reach.                   *)
LEMMA ShutdownInv ==
  ASSUME UsbInv, USB_Shutdown
  PROVE  UsbInv'
<1> DEFINE D == UNION {Gone(i) : i \in Roots}
<1>1. /\ halt = "no" /\ halt' = "shutdown"
      /\ devices' = [i \in Ids |-> IF i \in D THEN NoDevice ELSE devices[i]]
      /\ hubs' = HubsWithout(D) /\ storage' = StorageWithout(D) /\ blocks' = BlocksWithout(D)
      /\ UNCHANGED <<world, hw, rootDevices, connectedPorts, queued, stack, missed>>
  BY DEF USB_Shutdown, Roots
<1>2. Live /\ TypeOK /\ stack \in Seq(Frame) /\ Tree /\ Units /\ BlocksInStep /\ StorageBound
  BY <1>1, GoingParts DEF Live, Units, UnitsBound, UnitsAsked
<1>3. D \in SUBSET Ids
  <2>1. ASSUME NEW r \in Roots PROVE Gone(r) \subseteq Ids
    BY GoneSet DEF Roots
  <2>2. QED
    BY <2>1
<1>4. \A i \in Ids : Used(i) => i \in D
  BY <1>2, AllBehindRoots DEF Tree
<1> HIDE DEF D, Frame
<1>5. \A i \in Ids : ~Used(i)'
  BY <1>1, <1>4 DEF Used
<1>6. blocks' \subseteq BeingRegistered'
  <2>1. SUFFICES ASSUME NEW b \in blocks', b \notin BeingRegistered PROVE FALSE
    BY <1>1 DEF BeingRegistered
  <2>2. b \in blocks /\ (b[1] \notin BoundStorage(D) \/ b[2] \notin storage[b[1]].registered)
    BY <1>1 DEF BlocksWithout
  <2>3. b \in Slots \X Luns
    BY <1>2, <2>2 DEF TypeOK
  <2> DEFINE s == b[1]
  <2>4. s \in Slots /\ storage[s].dev # NULL
    BY <1>1, <1>2, <2>2, <2>3 DEF BlocksInStep
  <2>5. b[2] \in storage[s].registered
    BY <1>1, <1>2, <2>1, <2>2, <2>3 DEF BlocksInStep
  <2>6. /\ storage[s].dev \in Ids /\ devices[storage[s].dev].driver = "mass"
        /\ devices[storage[s].dev].data = s
    <3>1. storage[s].dev \in Ids
      BY <1>2, <2>4 DEF TypeOK
    <3>2. CASE UnitsBound
      BY <1>1, <2>4, <3>1, <3>2 DEF UnitsBound, SlotsBound
    <3>3. CASE UnitsAsked
      <4>1. Top.slot \in Slots /\ storage[Top.slot].registered = {} /\ SlotsButAsked
        BY <1>2, <3>3, AskedSlot DEF UnitsAsked, Asking, FreshBut
      <4>2. s # Top.slot
        BY <2>5, <4>1
      <4>3. QED
        BY <1>1, <2>4, <3>1, <4>1, <4>2 DEF SlotsButAsked
    <3>4. QED
      BY <1>2, <3>2, <3>3 DEF Units
  <2>7. storage[s].dev \in D
    BY <1>4, <2>6 DEF Used, NoDevice
  <2>8. s \in BoundStorage(D)
    BY <2>4, <2>6, <2>7 DEF BoundStorage
  <2>9. QED
    BY <2>2, <2>5, <2>8
<1>7. TypeOK'
  <2>1. devices' \in [Ids -> Device \cup {NoDevice}]
    BY <1>1, <1>2 DEF TypeOK
  <2>2. storage' \in [Slots -> [dev : Ids \cup {NULL}, scanPending : BOOLEAN, registered : SUBSET Luns]]
    <3> DEFINE S == [dev : Ids \cup {NULL}, scanPending : BOOLEAN, registered : SUBSET Luns]
    <3>1. storage \in [Slots -> S] /\ NoStorage \in S
      BY <1>2 DEF TypeOK, NoStorage
    <3>2. \A q \in Slots : storage[q] \in S /\ [storage[q] EXCEPT !.dev = NULL, !.registered = {}] \in S
      BY <3>1
    <3> HIDE DEF S
    <3>3. storage' \in [Slots -> S]
      BY <1>1, <3>1, <3>2 DEF StorageWithout
    <3>4. QED
      BY <3>3 DEF S
  <2>3. hubs' \in [HubIds -> [dev : Ids \cup {NULL}, children : [HubPorts -> Ids \cup {NULL}]]]
    BY <1>1, <1>2 DEF TypeOK, HubsWithout, NoHub
  <2>4. blocks' \subseteq Slots \X Luns
    BY <1>1, <1>2 DEF TypeOK, BlocksWithout
  <2>5. UNCHANGED <<at, hw, powered, change, rootDevices, connectedPorts, queued, missed>> /\ halt' = "shutdown"
    BY <1>1 DEF world
  <2>6. QED
    BY <1>2, <2>1, <2>2, <2>3, <2>4, <2>5 DEF TypeOK
<1>8. stack' \in Seq(Frame)
  BY <1>1, <1>2
<1>9. QED
  BY <1>1, <1>5, <1>6, <1>7, <1>8 DEF UsbInv, ShutdownLeavesNone

-----------------------------------------------------------------------------
(* Every step keeps the invariant.                                          *)
LEMMA UsbInvInit ==
  ASSUME Init
  PROVE  UsbInv
<1>1. TypeOK
  <2>1. /\ at \in [Things -> Places \cup {Nowhere}] /\ hw \in [Things -> {Off} \cup 0..USB_MAX_DEVICES]
        /\ powered \subseteq Hubs /\ change \subseteq Hubs \X HubPorts
    BY DEF Init
  <2>2. devices \in [Ids -> Device \cup {NoDevice}] /\ rootDevices \in [RootPorts -> Ids \cup {NULL}]
        /\ connectedPorts \subseteq RootPorts
    BY DEF Init
  <2>3. hubs \in [HubIds -> [dev : Ids \cup {NULL}, children : [HubPorts -> Ids \cup {NULL}]]]
    BY DEF Init, NoHub
  <2>4. storage \in [Slots -> [dev : Ids \cup {NULL}, scanPending : BOOLEAN, registered : SUBSET Luns]]
    BY DEF Init, NoStorage
  <2>5. queued \in [Slots -> Nat] /\ blocks \subseteq Slots \X Luns /\ halt \in {"no", "shutdown"}
        /\ missed \in BOOLEAN
    BY DEF Init
  <2>6. QED
    BY <2>1, <2>2, <2>3, <2>4, <2>5 DEF TypeOK
<1>2. stack \in Seq(Frame) /\ stack = <<>> /\ halt = "no" /\ DOMAIN stack = {}
  BY DEF Init
<1>3. /\ \A i \in Ids : devices[i] = NoDevice /\ ~Used(i)
      /\ \A p \in RootPorts : rootDevices[p] = NULL
      /\ \A h \in HubIds : hubs[h].dev = NULL /\ \A p \in HubPorts : hubs[h].children[p] = NULL
      /\ \A s \in Slots : storage[s] = NoStorage /\ queued[s] = 0
      /\ blocks = {}
  BY DEF Init, Used, NoHub
<1>4. Tree
  <2>1. TreeInStep /\ PortsFit /\ Rooted
    BY <1>3 DEF TreeInStep, PortsFit, Rooted
  <2>2. HubSlots
    BY <1>3 DEF HubSlots, NoDevice
  <2>3. QED
    BY <2>1, <2>2 DEF Tree
<1>5. HubsBound
  BY <1>3 DEF HubsBound
<1>6. UnitsBound
  <2>1. SlotsBound /\ StorageBound
    BY <1>3 DEF SlotsBound, StorageBound, NoStorage, NoDevice
  <2>2. BlocksInStep
    BY <1>3 DEF BlocksInStep, NoStorage
  <2>3. QED
    BY <2>1, <2>2 DEF UnitsBound
<1>7. Calls
  <2>1. FramesOK /\ Spread
    BY <1>2 DEF FramesOK, Spread
  <2>2. Chained
    BY <1>2 DEF Chained
  <2>3. QED
    BY <2>1, <2>2 DEF Calls
<1>8. QED
  BY <1>1, <1>2, <1>4, <1>5, <1>6, <1>7 DEF UsbInv, Going, Units, ShutdownLeavesNone

LEMMA UsbInvStutter ==
  ASSUME UsbInv, UNCHANGED vars
  PROVE  UsbInv'
<1>1. /\ UNCHANGED <<world, hw, table, connectedPorts, drivers, halt, missed>> /\ stack' = stack
      /\ UNCHANGED <<at, powered, change, devices, rootDevices, hubs, storage, queued, blocks>>
  BY DEF vars, sysVars, world, table, drivers
<1>2. CASE halt = "no"
  <2>1. Live /\ SameTable
    BY <1>1, <1>2 DEF Live, SameTable
  <2>2. WorldOK'
    BY <1>1, <2>1, WorldSame, NotMissed
  <2>3. QED
    BY <1>1, <2>1, <2>2, SameCallsInv
<1>3. CASE halt # "no"
  <2>1. TypeOK /\ ShutdownLeavesNone /\ stack \in Seq(Frame)
    BY DEF UsbInv
  <2>2. TypeOK'
    BY <1>1, <2>1 DEF TypeOK
  <2>3. ShutdownLeavesNone'
    BY <1>1, <2>1 DEF ShutdownLeavesNone, Used, BeingRegistered
  <2>4. QED
    BY <1>1, <1>3, <2>1, <2>2, <2>3 DEF UsbInv
<1>4. QED
  BY <1>2, <1>3

LEMMA UsbInvStep ==
  ASSUME UsbInv, ~Crossing', [Next]_vars
  PROVE  UsbInv'
<1>1. CASE \E t \in Things : Unplug(t) \/ \E place \in Places : Plug(t, place)
  BY <1>1, UnplugInv, PlugInv
<1>2. CASE StartPoll
  BY <1>2, StartPollInv
<1>3. CASE StartHubPoll
  BY <1>3, StartHubPollInv
<1>4. CASE \E s \in Slots : StartScan(s)
  BY <1>4, StartScanInv
<1>5. CASE PollStep
  BY <1>5, RootStatusInv, EndPollInv, RootResetInv, EnumerateRootInv DEF PollStep
<1>6. CASE EnumerationStep
  BY <1>6, AllocateDeviceInv, GetDescriptorInv, SetAddressInv, ConfigureInv, EndEnumerationInv
  DEF EnumerationStep
<1>7. CASE HubStep
  BY <1>7, HubProbeInv, HubProbePortsInv, HubPollInv, HubPollPortsInv, EndHubPollInv, PortStatusInv,
     PortClearInv, PortResetInv, EnumerateChildInv, EndHandleInv DEF HubStep
<1>8. CASE StorageStep
  BY <1>8, MassProbeInv, MaxLunInv, SetupLunInv, MarkRegisteredInv, EndScanInv DEF StorageStep
<1>9. CASE USB_Shutdown
  BY <1>9, ShutdownInv
<1>10. CASE UNCHANGED vars
  BY <1>10, UsbInvStutter
<1>11. QED
  BY <1>1, <1>2, <1>3, <1>4, <1>5, <1>6, <1>7, <1>8, <1>9, <1>10 DEF Next, Step

(* What is known as long as no callbacks have crossed.                      *)
LEMMA Uncrossed ==
  ASSUME [Next]_vars, ~crossed'
  PROVE  ~crossed /\ (~Crossing' \/ UNCHANGED vars)
<1>1. CASE Next
  <2>1. crossed' = (crossed \/ Crossing')
    BY <1>1, Zenon DEF Next
  <2>2. QED
    BY <2>1, Zenon
<1>2. CASE UNCHANGED vars
  BY <1>2 DEF vars
<1>3. QED
  BY <1>1, <1>2

LEMMA UsbInvHolds ==
  Spec => [](crossed \/ UsbInv)
<1>1. Init => crossed \/ UsbInv
  BY UsbInvInit
<1>2. (crossed \/ UsbInv) /\ [Next]_vars => (crossed \/ UsbInv)'
  <2> SUFFICES ASSUME crossed \/ UsbInv, [Next]_vars, ~crossed' PROVE UsbInv'
    OBVIOUS
  <2>1. UsbInv /\ (~Crossing' \/ UNCHANGED vars)
    BY Uncrossed
  <2>2. CASE ~Crossing'
    BY <2>1, <2>2, UsbInvStep
  <2>3. CASE UNCHANGED vars
    BY <2>1, <2>3, UsbInvStutter
  <2>4. QED
    BY <2>1, <2>2, <2>3
<1>3. QED
  BY <1>1, <1>2, PTL DEF Spec

(* The device table, the drivers' structures and the block layer agree,     *)
(* whatever is plugged and unplugged, however an enumeration ends, and      *)
(* whenever a boot shuts the stack down, until a callback that has found    *)
(* something to do interrupts another one.                                  *)
THEOREM UsbInStep ==
  Spec => []InStep
<1>1. UsbInv => InStep
  <2> SUFFICES ASSUME UsbInv PROVE InStep
    OBVIOUS
  <2>1. TypeOK /\ ShutdownLeavesNone /\ (halt = "no" => Going)
    BY DEF UsbInv
  <2>2. CASE halt = "no"
    <3>1. Live /\ TreeInStep /\ Units
      BY <2>1, <2>2 DEF Live, Going, Tree
    <3>2. BlocksInStep
      BY <3>1 DEF Units, UnitsBound, UnitsAsked
    <3>3. CASE UnitsBound
      <4>1. ScanOnce
        BY <3>3 DEF UnitsBound, SlotsBound, ScanOnce
      <4>2. QED
        BY <2>1, <3>1, <3>2, <4>1 DEF InStep
    <3>4. CASE UnitsAsked
      <4>1. /\ Top.fn = "massProbe" /\ Top.pc = "maxLun" /\ Top.slot \in Slots /\ SlotsButAsked
            /\ storage[Top.slot].dev = Top.dev /\ ~storage[Top.slot].scanPending
        BY <3>1, <3>4, AskedSlot DEF UnitsAsked, Asking, FreshBut
      <4>2. Len(stack) \in DOMAIN stack /\ Top = stack[Len(stack)]
        <5>1. stack \in Seq(Frame) /\ stack # <<>>
          BY <3>1, <3>4, GoingParts DEF UnitsAsked, Asking
        <5>2. QED
          BY <5>1, Stacked
      <4>3. Probing(Top.slot)
        BY <4>1, <4>2 DEF Probing
      <4>4. ScanOnce
        BY <4>1, <4>3 DEF SlotsButAsked, ScanOnce
      <4>5. QED
        BY <2>1, <3>1, <3>2, <4>4 DEF InStep
    <3>5. QED
      BY <3>1, <3>3, <3>4 DEF Units
  <2>3. CASE halt # "no"
    BY <2>1, <2>3 DEF InStep, TreeInStep, ScanOnce, BlocksInStep
  <2>4. QED
    BY <2>2, <2>3
<1>2. crossed \/ UsbInv => InStep
  BY <1>1 DEF InStep
<1>3. Spec => [](crossed \/ UsbInv)
  BY UsbInvHolds
<1>4. QED
  BY <1>2, <1>3, PTL

-----------------------------------------------------------------------------
(***************************************************************************)
(* Addresses.  What the bus has to do with the table, as long as nothing   *)
(* was missed.                                                             *)
(***************************************************************************)
(* A place holds one thing, and hubs are plugged into root ports.           *)
Plugged ==
  /\ \A t, u \in Things : at[t] = at[u] /\ at[t] # Nowhere => t = u
  /\ \A h \in Hubs : at[h] \in RootPlaces \cup {Nowhere}

Enumerating(pcs) == stack # <<>> /\ Top.fn = "enumerate" /\ Top.pc \in pcs

(* Addresses are unique, and 0 is that of the device being enumerated.      *)
Numbered ==
  /\ \A i, j \in Ids : Used(i) /\ Used(j) /\ devices[i].address = devices[j].address => i = j
  /\ \A i \in Ids : devices[i].address = 0 =>
       Enumerating({"descriptor", "setAddress"}) /\ Top.dev = i
  /\ Enumerating({"setAddress"}) =>
       Top.address >= 1 /\ \A i \in Ids : devices[i].address # Top.address

(* Slot g is that of the hub h, which has power.                            *)
Serves(g, h) ==
  /\ h \in powered /\ hubs[g].dev # NULL /\ devices[hubs[g].dev].parent = NULL
  /\ at[h] = <<Root, devices[hubs[g].dev].port>> /\ hw[h] = devices[hubs[g].dev].address

(* Device i is that of t: it has its address and is where t is plugged in.  *)
Represents(i, t) ==
  /\ Used(i) /\ hw[t] = devices[i].address
  /\ \/ devices[i].parent = NULL /\ at[t] = <<Root, devices[i].port>>
     \/ /\ devices[i].parent # NULL
        /\ \E g \in HubIds, h \in Hubs :
             hubs[g].dev = devices[i].parent /\ Serves(g, h) /\ at[t] = <<h, devices[i].port>>

(* The running call is about to enumerate, or to reset, what is at place.   *)
Expected(place) ==
  /\ stack # <<>>
  /\ \/ Top.fn = "poll" /\ Top.pc = "enumerate" /\ place = <<Root, Top.port>>
     \/ Top.fn = "handle" /\ Top.pc = "enumerate" /\ place = <<Top.hubThing, Top.port>>
     \/ Enumerating({"allocate"}) /\ Top.hub = 0 /\ place = <<Root, Top.port>>
     \/ /\ Enumerating({"allocate"}) /\ Top.hub # 0
        /\ place = <<stack[Len(stack) - 1].hubThing, Top.port>>
Resetting(place) ==
  /\ stack # <<>> /\ Top.fn = "handle" /\ Top.pc = "reset"
  /\ place = <<Top.hubThing, Top.port>>

(* Whatever answers has a device, or will be enumerated, or reset.          *)
Traced(t) ==
  \/ \E i \in Ids : Represents(i, t)
  \/ hw[t] = 0 /\ Expected(at[t])
  \/ Resetting(at[t]) /\ \A i \in Ids : Used(i) => devices[i].address # hw[t]
Traces == \A t \in Things : hw[t] # Off => at[t] # Nowhere /\ Traced(t)

HubsServed ==
  /\ \A h \in powered : \E g \in HubIds : Serves(g, h)
  /\ \A h \in Hubs \ powered : \A t \in OnHub(h) : hw[t] = Off
  /\ \A g \in HubIds, t \in Things :
       hubs[g].dev # NULL /\ Represents(hubs[g].dev, t) => Serves(g, t)

(* A call that handles a port knows the hub, if that still has power, and   *)
(* nothing was plugged in since it has seen the port empty.                 *)
Handles(f) ==
  /\ f.fn = "handle" /\ f.pc # "status" =>
       f.hubThing \in Hubs /\ \A h \in powered : h = f.hubThing <=> Serves(f.hub, h)
  /\ f.fn = "handle" /\ f.pc = "clear" /\ f.todo = {} => At(<<f.hubThing, f.port>>) = {}
HandlesFit == \A i \in DOMAIN stack : Handles(stack[i])

(* No hub is probed behind a hub.                                           *)
OneLevel == \A i, j \in DOMAIN stack : i < j /\ stack[j].fn = "hubProbe" => stack[i].fn # "handle"

Exclusive == Traces /\ HubsServed /\ HandlesFit /\ OneLevel
BusInv == Plugged /\ (halt = "no" => Numbered /\ (~missed => Exclusive))

-----------------------------------------------------------------------------
(* The call that runs after a step.                                         *)
LEMMA LastOf ==
  ASSUME NEW s \in Seq(Frame), s # <<>>
  PROVE  Len(s) \in Nat /\ Len(s) >= 1 /\ Last(s) = s[Len(s)] /\ DOMAIN s = 1..Len(s)
<1> HIDE DEF Frame
<1>1. QED
  BY EmptySeq, LenProperties DEF Last

LEMMA TopPopped ==
  ASSUME stack \in Seq(Frame), stack # <<>>, Return, stack' # <<>>
  PROVE  Len(stack) >= 2 /\ Top' = stack[Len(stack) - 1]
<1> HIDE DEF Frame
<1>1. /\ stack' \in Seq(Frame) /\ Len(stack') = Len(stack) - 1
      /\ \A i \in 1..(Len(stack) - 1) : stack'[i] = stack[i]
  BY Popped
<1>2. Len(stack') \in Nat /\ Len(stack') >= 1 /\ Last(stack') = stack'[Len(stack')]
  BY <1>1, LastOf
<1>3. Len(stack) \in Nat
  BY Stacked
<1>4. QED
  BY <1>1, <1>2, <1>3 DEF Top, Last

LEMMA TopReplaced ==
  ASSUME stack \in Seq(Frame), stack # <<>>, NEW f \in Frame, Continue(f)
  PROVE  Top' = f /\ stack' # <<>>
<1> HIDE DEF Frame
<1>1. stack' \in Seq(Frame) /\ stack' # <<>> /\ Len(stack') = Len(stack) /\ stack'[Len(stack)] = f
  BY Replaced
<1>2. QED
  BY <1>1 DEF Top, Last

LEMMA TopCalled ==
  ASSUME stack \in Seq(Frame), stack # <<>>, NEW f \in Frame, NEW g \in Frame, CallFrom(f, g)
  PROVE  Top' = g /\ stack' # <<>> /\ stack'[Len(stack') - 1] = f
<1> HIDE DEF Frame
<1>1. /\ stack' \in Seq(Frame) /\ stack' # <<>> /\ Len(stack') = Len(stack) + 1
      /\ stack'[Len(stack)] = f /\ stack'[Len(stack) + 1] = g
  BY CalledFrom
<1>2. Len(stack) \in Nat
  BY Stacked
<1>3. QED
  BY <1>1, <1>2 DEF Top, Last

(* A call that waits for another is at one of these places.                 *)
LEMMA WaitingAt ==
  ASSUME stack \in Seq(Frame), Calls, NEW i \in 1..(Len(stack) - 1)
  PROVE  /\ stack[i].pc \in {"status", "bound", "ports", "done"}
         /\ stack[i].fn \in {"enumerate", "handle"} => stack[i].pc \in {"bound", "done"}
<1> HIDE DEF Frame
<1>1. Called(stack[i], stack[i + 1])
  BY Waiting
<1>2. QED
  BY <1>1 DEF Called

(* After a call has returned, none is enumerating or resetting.             *)
LEMMA PoppedAt ==
  ASSUME stack \in Seq(Frame), Calls, stack # <<>>, Return, stack' # <<>>
  PROVE  /\ Top'.pc \in {"status", "bound", "ports", "done"}
         /\ Top'.fn \in {"enumerate", "handle"} => Top'.pc \in {"bound", "done"}
<1> HIDE DEF Frame
<1>1. Len(stack) \in Nat /\ Len(stack) >= 2 /\ Top' = stack[Len(stack) - 1]
  BY TopPopped, Stacked
<1>2. Len(stack) - 1 \in 1..(Len(stack) - 1)
  BY <1>1
<1>3. QED
  BY <1>1, <1>2, WaitingAt

(* The hubs keep what they know of the bus.                                 *)
ServesKept == \A h \in powered' : h \in powered /\ \A g \in HubIds : Serves(g, h)' <=> Serves(g, h)
HandlesBelow(n) == \A i \in 1..n, e \in Frame : e = stack[i] => Handles(e)'

LEMMA HandlesStay ==
  ASSUME stack \in Seq(Frame), Calls, HandlesFit, ServesKept, UNCHANGED at, stack # <<>>
  PROVE  HandlesBelow(Len(stack)) /\ HandlesBelow(Len(stack) - 1)
<1> HIDE DEF Frame
<1>0. DOMAIN stack = 1..Len(stack) /\ Len(stack) \in Nat
  BY Stacked
<1>1. ASSUME NEW i \in 1..Len(stack), NEW e \in Frame, e = stack[i] PROVE Handles(e)'
  <2>1. i \in DOMAIN stack
    BY <1>0
  <2>2. Handles(e) /\ FrameOK(e)
    BY <1>1, <2>1 DEF HandlesFit, Calls, FramesOK
  <2>3. e.fn = "handle" => e.hub \in HubIds
    BY <2>2 DEF FrameOK, HandleOK
  <2>4. At(<<e.hubThing, e.port>>)' = At(<<e.hubThing, e.port>>)
    BY DEF At
  <2>5. ASSUME e.fn = "handle", e.pc # "status" PROVE (\A h \in powered : h = e.hubThing <=> Serves(e.hub, h))'
    <3>1. SUFFICES ASSUME NEW h \in powered' PROVE h = e.hubThing <=> Serves(e.hub, h)'
      OBVIOUS
    <3>2. h \in powered /\ (Serves(e.hub, h)' <=> Serves(e.hub, h))
      BY <2>3, <2>5 DEF ServesKept
    <3>3. QED
      BY <2>2, <2>5, <3>2 DEF Handles
  <2>6. QED
    BY <2>2, <2>4, <2>5 DEF Handles
<1>2. QED
  BY <1>0, <1>1 DEF HandlesBelow

LEMMA FitsPopped ==
  ASSUME stack \in Seq(Frame), stack # <<>>, Return, OneLevel, HandlesBelow(Len(stack) - 1)
  PROVE  HandlesFit' /\ OneLevel'
<1> HIDE DEF Frame
<1>0. Len(stack) \in Nat /\ DOMAIN stack = 1..Len(stack)
  BY Stacked
<1>1. /\ stack' \in Seq(Frame) /\ DOMAIN stack' = 1..(Len(stack) - 1)
      /\ \A i \in 1..(Len(stack) - 1) : stack'[i] = stack[i]
  BY Popped
<1>2. HandlesFit'
  <2>1. SUFFICES ASSUME NEW i \in 1..(Len(stack) - 1) PROVE Handles(stack[i])'
    BY <1>1 DEF HandlesFit
  <2>2. PICK e \in Frame : e = stack[i] /\ e = stack'[i]
    BY <1>0, <1>1, Stacked
  <2>3. Handles(e)'
    BY <2>2 DEF HandlesBelow
  <2>4. QED
    BY <2>2, <2>3
<1>3. OneLevel'
  <2>1. SUFFICES ASSUME NEW i \in 1..(Len(stack) - 1), NEW j \in 1..(Len(stack) - 1), i < j,
                        stack'[j].fn = "hubProbe"
                 PROVE  stack'[i].fn # "handle"
    BY <1>1 DEF OneLevel
  <2>2. i \in DOMAIN stack /\ j \in DOMAIN stack /\ stack[j].fn = "hubProbe"
    BY <1>0, <1>1, <2>1
  <2>3. stack[i].fn # "handle"
    BY <2>1, <2>2 DEF OneLevel
  <2>4. QED
    BY <1>1, <2>3
<1>4. QED
  BY <1>2, <1>3

LEMMA FitsReplaced ==
  ASSUME stack \in Seq(Frame), stack # <<>>, OneLevel, HandlesBelow(Len(stack) - 1),
         NEW f \in Frame, Continue(f), f.fn = Top.fn, Handles(f)'
  PROVE  HandlesFit' /\ OneLevel'
<1> HIDE DEF Frame
<1> DEFINE n == Len(stack)
<1>0. n \in Nat /\ n >= 1 /\ DOMAIN stack = 1..n /\ Top = stack[n]
  BY Stacked
<1>1. /\ stack' \in Seq(Frame) /\ DOMAIN stack' = 1..n
      /\ \A i \in 1..(n - 1) : stack'[i] = stack[i]
      /\ stack'[n] = f
  BY Replaced
<1> HIDE DEF n
<1>2. HandlesFit'
  <2>1. SUFFICES ASSUME NEW i \in 1..n PROVE Handles(stack[i])'
    BY <1>1 DEF HandlesFit
  <2>2. CASE i = n
    <3>1. Handles(f)'
      OBVIOUS
    <3>2. QED
      BY <1>1, <2>2, <3>1
  <2>3. CASE i # n
    <3>1. i \in 1..(n - 1)
      BY <1>0, <2>3
    <3>2. PICK e \in Frame : e = stack[i] /\ e = stack'[i]
      BY <1>0, <1>1, <3>1, Stacked DEF n
    <3>3. Handles(e)'
      BY <3>1, <3>2 DEF HandlesBelow, n
    <3>4. QED
      BY <3>2, <3>3
  <2>4. QED
    BY <2>2, <2>3
<1>3. \A i \in 1..n : stack'[i].fn = stack[i].fn
  BY <1>0, <1>1
<1>4. OneLevel'
  BY <1>0, <1>1, <1>3 DEF OneLevel
<1>5. QED
  BY <1>2, <1>4

LEMMA FitsCalled ==
  ASSUME stack \in Seq(Frame), stack # <<>>, OneLevel, HandlesBelow(Len(stack) - 1),
         NEW f \in Frame, NEW g \in Frame, CallFrom(f, g), f.fn = Top.fn,
         Handles(f)', Handles(g)',
         g.fn = "hubProbe" => \A i \in DOMAIN stack : stack[i].fn # "handle"
  PROVE  HandlesFit' /\ OneLevel'
<1> HIDE DEF Frame
<1> DEFINE n == Len(stack)
<1>0. n \in Nat /\ n >= 1 /\ DOMAIN stack = 1..n /\ Top = stack[n]
  BY Stacked
<1>1. /\ stack' \in Seq(Frame) /\ DOMAIN stack' = 1..(n + 1)
      /\ \A i \in 1..(n - 1) : stack'[i] = stack[i]
      /\ stack'[n] = f /\ stack'[n + 1] = g
  BY CalledFrom
<1> HIDE DEF n
<1>2. HandlesFit'
  <2>1. SUFFICES ASSUME NEW i \in 1..(n + 1) PROVE Handles(stack[i])'
    BY <1>1 DEF HandlesFit
  <2>2. CASE i = n
    <3>1. Handles(f)'
      OBVIOUS
    <3>2. QED
      BY <1>1, <2>2, <3>1
  <2>3. CASE i = n + 1
    <3>1. Handles(g)'
      OBVIOUS
    <3>2. QED
      BY <1>1, <2>3, <3>1
  <2>4. CASE i \in 1..(n - 1)
    <3>2. PICK e \in Frame : e = stack[i] /\ e = stack'[i]
      BY <1>0, <1>1, <2>4, Stacked DEF n
    <3>3. Handles(e)'
      BY <2>4, <3>2 DEF HandlesBelow, n
    <3>4. QED
      BY <3>2, <3>3
  <2>5. QED
    BY <1>0, <2>2, <2>3, <2>4
<1>3. \A i \in 1..n : stack'[i].fn = stack[i].fn
  BY <1>0, <1>1
<1>4. OneLevel'
  <2>1. SUFFICES ASSUME NEW i \in 1..(n + 1), NEW j \in 1..(n + 1), i < j, stack'[j].fn = "hubProbe"
                 PROVE  stack'[i].fn # "handle"
    BY <1>1 DEF OneLevel
  <2>2. i \in 1..n
    BY <1>0, <2>1
  <2>3. CASE j = n + 1
    BY <1>0, <1>1, <1>3, <2>1, <2>2, <2>3
  <2>4. CASE j # n + 1
    <3>1. j \in 1..n
      BY <1>0, <2>4
    <3>2. QED
      BY <1>0, <1>3, <2>1, <2>2, <3>1 DEF OneLevel
  <2>5. QED
    BY <2>3, <2>4
<1>5. QED
  BY <1>2, <1>4

LEMMA FitsBegun ==
  ASSUME NEW f \in Frame, stack' = <<f>>, f.fn \in Callbacks
  PROVE  HandlesFit' /\ OneLevel'
<1> HIDE DEF Frame
<1>1. DOMAIN stack' = {1} /\ stack'[1] = f
  OBVIOUS
<1>2. Handles(f)'
  BY DEF Handles, Callbacks
<1>3. HandlesFit'
  BY <1>1, <1>2 DEF HandlesFit
<1>4. OneLevel'
  BY <1>1 DEF OneLevel
<1>5. QED
  BY <1>3, <1>4

-----------------------------------------------------------------------------
(* As long as nothing was missed, things and devices belong together.       *)
Bus == Live /\ Plugged /\ Numbered /\ ~missed /\ Exclusive

LEMMA BusParts ==
  ASSUME Bus
  PROVE  /\ UsbInv /\ Live /\ halt = "no" /\ TypeOK /\ stack \in Seq(Frame) /\ Tree /\ HubsBound /\ Units /\ Calls
         /\ TreeInStep /\ PortsFit /\ Rooted /\ HubSlots
         /\ Plugged /\ Numbered /\ Traces /\ HubsServed /\ HandlesFit /\ OneLevel
  BY GoingParts DEF Bus, Exclusive, Live, Tree

(* A slot of the hub driver that is in use.                                 *)
LEMMA SlotDevice ==
  ASSUME Live, NEW g \in HubIds, hubs[g].dev # NULL
  PROVE  hubs[g].dev \in Ids /\ Used(hubs[g].dev)
<1>1. TypeOK /\ HubSlots
  BY GoingParts DEF Tree
<1>2. QED
  BY <1>1 DEF HubSlots, TypeOK

LEMMA ServedHub ==
  ASSUME Bus, NEW g \in HubIds, NEW h \in Things, Serves(g, h)
  PROVE  /\ h \in Hubs /\ hubs[g].dev \in Ids /\ Used(hubs[g].dev) /\ Represents(hubs[g].dev, h)
         /\ at[h] \in RootPlaces
<1>1. h \in Hubs
  BY BusParts DEF Serves, TypeOK
<1>2. hubs[g].dev \in Ids /\ Used(hubs[g].dev)
  BY BusParts, SlotDevice DEF Serves
<1>3. Represents(hubs[g].dev, h)
  BY <1>2 DEF Serves, Represents
<1>4. devices[hubs[g].dev].port \in RootPorts
  BY <1>2, BusParts DEF PortsFit, Serves
<1>5. at[h] \in RootPlaces
  BY <1>4 DEF Serves, RootPlaces
<1>6. QED
  BY <1>1, <1>2, <1>3, <1>5

(* A hub with power has one slot.                                           *)
LEMMA OneSlot ==
  ASSUME Bus, NEW g \in HubIds, NEW k \in HubIds, NEW h \in Things, Serves(g, h), Serves(k, h)
  PROVE  g = k
<1>1. hubs[g].dev \in Ids /\ Used(hubs[g].dev) /\ hubs[k].dev \in Ids /\ Used(hubs[k].dev)
  BY ServedHub
<1>2. devices[hubs[g].dev].address = devices[hubs[k].dev].address
  BY DEF Serves
<1>3. hubs[g].dev = hubs[k].dev /\ hubs[g].dev # NULL
  BY <1>1, <1>2, BusParts DEF Numbered, Serves
<1>4. QED
  BY <1>3, BusParts DEF HubSlots

(* Where the thing of a device is plugged in, and that transfers reach it.  *)
LEMMA RepresentedAt ==
  ASSUME Bus, NEW i \in Ids, NEW t \in Things, Represents(i, t)
  PROVE  /\ t \in Target(i) /\ at[t] # Nowhere /\ hw[t] # Off
         /\ devices[i].parent = NULL => at[t] \in RootPlaces /\ at[t] = <<Root, devices[i].port>>
         /\ devices[i].parent # NULL => at[t] \in Hubs \X HubPorts
<1>1. Used(i) /\ hw[t] = devices[i].address /\ TypeOK /\ Nowhere \notin Places
  BY BusParts, UsbAssumption DEF Represents
<1>2. hw[t] # Off
  BY <1>1, DeviceFields DEF Off
<1>3. CASE devices[i].parent = NULL
  <2>1. devices[i].port \in RootPorts /\ at[t] = <<Root, devices[i].port>>
    BY <1>1, <1>3, BusParts DEF PortsFit, Represents
  <2>2. at[t] \in RootPlaces
    BY <2>1 DEF RootPlaces
  <2>3. t \in Target(i)
    BY <1>1, <2>2 DEF Target, Answering, Reachable
  <2>4. QED
    BY <1>1, <1>2, <1>3, <2>1, <2>2, <2>3 DEF Places
<1>4. CASE devices[i].parent # NULL
  <2>1. PICK g \in HubIds, h \in Hubs : Serves(g, h) /\ at[t] = <<h, devices[i].port>>
    BY <1>4 DEF Represents
  <2>2. devices[i].port \in HubPorts
    BY <1>1, <1>4, BusParts DEF PortsFit
  <2>3. at[t] \in {h} \X HubPorts /\ h \in powered
    BY <2>1, <2>2 DEF Serves
  <2>4. t \in Target(i)
    BY <1>1, <2>3 DEF Target, Answering, Reachable, OnHub
  <2>5. at[t] \in Hubs \X HubPorts
    BY <2>3
  <2>6. QED
    BY <1>1, <1>2, <1>4, <2>4, <2>5 DEF Places
<1>5. QED
  BY <1>3, <1>4

(* A device is that of one thing.                                           *)
LEMMA OneThing ==
  ASSUME Bus, NEW i \in Ids, NEW t \in Things, NEW u \in Things, Represents(i, t), Represents(i, u)
  PROVE  t = u
<1>1. SUFFICES at[t] = at[u]
  BY RepresentedAt, BusParts DEF Plugged
<1>2. CASE devices[i].parent = NULL
  BY <1>2 DEF Represents
<1>3. CASE devices[i].parent # NULL
  <2>1. PICK g \in HubIds, h \in Hubs :
          hubs[g].dev = devices[i].parent /\ Serves(g, h) /\ at[t] = <<h, devices[i].port>>
    BY <1>3 DEF Represents
  <2>2. PICK k \in HubIds, m \in Hubs :
          hubs[k].dev = devices[i].parent /\ Serves(k, m) /\ at[u] = <<m, devices[i].port>>
    BY <1>3 DEF Represents
  <2>3. h \in Things /\ m \in Things /\ at[h] \in RootPlaces
    BY <2>1, ServedHub DEF Things
  <2>4. at[h] = at[m]
    BY <2>1, <2>2 DEF Serves
  <2>5. at[h] # Nowhere
    BY <2>3, UsbAssumption DEF Places
  <2>6. h = m
    BY <2>3, <2>4, <2>5, BusParts DEF Plugged
  <2>7. QED
    BY <2>1, <2>2, <2>6
<1>4. QED
  BY <1>2, <1>3

(* Whoever answers to the address of a device is that device's.             *)
LEMMA AnswersFor ==
  ASSUME Bus, NEW i \in Ids, Used(i), NEW t \in Things, hw[t] = devices[i].address
  PROVE  Represents(i, t)
<1>1. hw[t] # Off
  BY BusParts, DeviceFields DEF Off
<1>2. Traced(t)
  BY <1>1, BusParts DEF Traces
<1>3. ASSUME NEW j \in Ids, Represents(j, t) PROVE Represents(i, t)
  <2>1. Used(j) /\ devices[j].address = devices[i].address
    BY <1>3 DEF Represents
  <2>2. i = j
    BY <2>1, BusParts DEF Numbered
  <2>3. QED
    BY <1>3, <2>2
<1>4. ASSUME hw[t] = 0, Expected(at[t]) PROVE FALSE
  <2>1. Enumerating({"descriptor", "setAddress"})
    BY <1>4, BusParts DEF Numbered
  <2>2. QED
    BY <1>4, <2>1 DEF Expected, Enumerating
<1>5. QED
  BY <1>2, <1>3, <1>4 DEF Traced

LEMMA TargetOf ==
  ASSUME Bus, NEW i \in Ids, Used(i)
  PROVE  \A t \in Things : t \in Target(i) <=> Represents(i, t)
<1>1. ASSUME NEW t \in Target(i), t \in Things PROVE Represents(i, t)
  <2>1. hw[t] = devices[i].address
    BY DEF Target, Answering
  <2>2. QED
    BY <1>1, <2>1, AnswersFor
<1>2. QED
  BY <1>1, RepresentedAt

(* When no call is enumerating or resetting a port, every thing that        *)
(* answers has its device.                                                  *)
Quiet == stack # <<>> => Top.pc \notin {"enumerate", "allocate", "reset"}

LEMMA QuietTraces ==
  ASSUME Bus, Quiet, NEW t \in Things, hw[t] # Off
  PROVE  at[t] # Nowhere /\ \E i \in Ids : Represents(i, t)
<1>1. at[t] # Nowhere /\ Traced(t)
  BY BusParts DEF Traces
<1>2. ~Expected(at[t]) /\ ~Resetting(at[t])
  BY DEF Quiet, Expected, Resetting, Enumerating
<1>3. QED
  BY <1>1, <1>2 DEF Traced

(* What answers at a hub is at one with power.                              *)
LEMMA HubHasPower ==
  ASSUME Bus, NEW h \in Hubs, NEW p \in HubPorts, NEW t \in Things, at[t] = <<h, p>>, hw[t] # Off
  PROVE  h \in powered
<1>1. t \in OnHub(h)
  BY DEF OnHub
<1>2. QED
  BY <1>1, BusParts DEF HubsServed

(* The invariant says more than BusExclusive.                               *)
LEMMA OneAnswers ==
  ASSUME Bus, NEW t \in Things, hw[t] # Off, NEW u \in Things, hw[u] = hw[t]
  PROVE  u = t
<1>1. Traced(t) /\ Traced(u) /\ at[t] # Nowhere /\ at[u] # Nowhere
  BY BusParts DEF Traces
<1>2. ASSUME NEW i \in Ids, NEW x \in Things, NEW y \in Things, Represents(i, x), hw[y] = hw[x]
      PROVE  x = y
  <2>1. Used(i) /\ hw[y] = devices[i].address
    BY <1>2 DEF Represents
  <2>2. Represents(i, y)
    BY <2>1, AnswersFor
  <2>3. QED
    BY <1>2, <2>2, OneThing
<1>3. CASE \E i \in Ids : Represents(i, t)
  BY <1>2, <1>3
<1>4. CASE \E i \in Ids : Represents(i, u)
  BY <1>2, <1>4
<1>5. CASE (~\E i \in Ids : Represents(i, t)) /\ (~\E i \in Ids : Represents(i, u))
  <2>1. (Expected(at[t]) \/ Resetting(at[t])) /\ (Expected(at[u]) \/ Resetting(at[u]))
    BY <1>1, <1>5 DEF Traced
  <2>2. \A p, q : Expected(p) /\ Expected(q) => p = q
    BY DEF Expected, Enumerating
  <2>3. \A p, q : Expected(p) => ~Resetting(q)
    BY DEF Expected, Resetting, Enumerating
  <2>4. \A p, q : Resetting(p) /\ Resetting(q) => p = q
    BY DEF Resetting
  <2>5. at[t] = at[u]
    BY <2>1, <2>2, <2>3, <2>4
  <2>6. QED
    BY <1>1, <2>5, BusParts DEF Plugged
<1>6. QED
  BY <1>3, <1>4, <1>5

LEMMA BusExclusiveFollows ==
  ASSUME UsbInv, BusInv
  PROVE  BusExclusive
<1> HIDE DEF Frame
<1>1. SUFFICES ASSUME ~missed, halt = "no", NEW t \in Things, Reachable(t), hw[t] # Off
               PROVE  /\ Answering(hw[t]) = {t}
                      /\ \/ hw[t] = 0 \/ at[t] \in AboutToBeReset
                         \/ \E i \in Ids : devices[i].address = hw[t]
  BY DEF BusExclusive
<1>2. Bus
  BY <1>1 DEF Bus, BusInv, Live
<1>3. Answering(hw[t]) = {t}
  <2>1. \A u \in Answering(hw[t]) : u = t
    BY <1>1, <1>2, OneAnswers DEF Answering
  <2>2. t \in Answering(hw[t])
    BY <1>1 DEF Answering
  <2>3. QED
    BY <2>1, <2>2
<1>4. Traced(t)
  BY <1>1, <1>2, BusParts DEF Traces
<1>5. CASE Resetting(at[t])
  <2>1. stack \in Seq(Frame) /\ stack # <<>>
    BY <1>2, <1>5, BusParts DEF Resetting
  <2>2. Len(stack) \in DOMAIN stack /\ stack[Len(stack)] = Top
    BY <2>1, Stacked
  <2>3. at[t] \in AboutToBeReset
    BY <1>5, <2>2 DEF Resetting, AboutToBeReset
  <2>4. QED
    BY <1>3, <2>3
<1>6. CASE ~Resetting(at[t])
  BY <1>3, <1>4, <1>6 DEF Traced, Represents
<1>7. QED
  BY <1>5, <1>6

-----------------------------------------------------------------------------
(* Steps that change nothing of this: the bus, the tree and the addresses   *)
(* stay as they are.                                                        *)
BusSame ==
  /\ UNCHANGED <<at, hw, powered, halt>> /\ (missed => missed')
  /\ \A i \in Ids : /\ Used(i)' <=> Used(i)
                    /\ devices'[i].parent = devices[i].parent /\ devices'[i].port = devices[i].port
                    /\ devices'[i].address = devices[i].address
  /\ \A g \in HubIds : hubs'[g].dev = hubs[g].dev

LEMMA SameBus ==
  ASSUME Bus, BusSame
  PROVE  /\ \A g \in HubIds, h \in Things : Serves(g, h)' <=> Serves(g, h)
         /\ \A i \in Ids, t \in Things : Represents(i, t)' <=> Represents(i, t)
         /\ HubsServed' /\ ServesKept
<1>1. TypeOK /\ HubsServed /\ powered' = powered /\ at' = at /\ hw' = hw
  BY BusParts DEF BusSame
<1>2. ASSUME NEW g \in HubIds, NEW h \in Things PROVE Serves(g, h)' <=> Serves(g, h)
  <2>1. hubs'[g].dev = hubs[g].dev /\ hubs[g].dev \in Ids \cup {NULL}
    BY <1>1 DEF BusSame, TypeOK
  <2>2. CASE hubs[g].dev = NULL
    BY <2>1, <2>2 DEF Serves
  <2>3. CASE hubs[g].dev \in Ids
    BY <1>1, <2>1, <2>3 DEF Serves, BusSame
  <2>4. QED
    BY <2>1, <2>2, <2>3
<1>3. ASSUME NEW i \in Ids, NEW t \in Things PROVE Represents(i, t)' <=> Represents(i, t)
  <2>1. /\ (\E g \in HubIds, h \in Hubs :
             hubs[g].dev = devices[i].parent /\ Serves(g, h) /\ at[t] = <<h, devices[i].port>>)'
        <=> \E g \in HubIds, h \in Hubs :
             hubs[g].dev = devices[i].parent /\ Serves(g, h) /\ at[t] = <<h, devices[i].port>>
    BY <1>1, <1>2 DEF BusSame, Things
  <2>2. QED
    BY <1>1, <2>1 DEF Represents, BusSame
<1>4. HubsServed'
  <2>1. \A h \in powered : h \in Things
    BY <1>1 DEF TypeOK, Things
  <2>2. \A h \in powered' : \E g \in HubIds : Serves(g, h)'
    BY <1>1, <1>2, <2>1 DEF HubsServed
  <2>3. \A h \in Hubs \ powered' : \A t \in OnHub(h)' : hw'[t] = Off
    BY <1>1 DEF HubsServed, OnHub
  <2>4. ASSUME NEW g \in HubIds, NEW t \in Things, hubs'[g].dev # NULL, Represents(hubs[g].dev, t)'
        PROVE  Serves(g, t)'
    <3>1. hubs'[g].dev = hubs[g].dev /\ hubs[g].dev \in Ids
      BY <1>1, <2>4 DEF BusSame, TypeOK
    <3> DEFINE d == hubs[g].dev
    <3>2. Represents(d, t)
      <4> HIDE DEF d
      <4>1. Represents(d, t)' <=> Represents(d, t)
        BY <1>3, <3>1 DEF d
      <4>2. Represents(d, t)'
        BY <2>4, <3>1 DEF Represents, d
      <4>3. QED
        BY <4>1, <4>2
    <3>3. QED
      BY <1>2, <2>4, <3>1, <3>2, <1>1 DEF HubsServed
  <2>5. QED
    BY <2>2, <2>3, <2>4 DEF HubsServed
<1>5. ServesKept
  BY <1>1, <1>2 DEF ServesKept, TypeOK, Things
<1>6. QED
  BY <1>2, <1>3, <1>4, <1>5

LEMMA NumberedKept ==
  ASSUME TypeOK', Numbered, ~Enumerating({"descriptor", "setAddress"}), ~Enumerating({"setAddress"})',
         \A i \in Ids : Used(i)' => Used(i) /\ devices'[i].address = devices[i].address
  PROVE  Numbered'
<1>1. \A i \in Ids : devices[i].address # 0
  BY DEF Numbered
<1>2. \A i \in Ids : devices'[i].address # 0
  <2>1. SUFFICES ASSUME NEW i \in Ids PROVE devices'[i].address # 0
    OBVIOUS
  <2>2. CASE Used(i)'
    BY <1>1, <2>2
  <2>3. CASE ~Used(i)'
    <3>1. devices'[i] = NoDevice
      BY <2>3 DEF Used
    <3>2. QED
      BY <3>1 DEF NoDevice, Off
  <2>4. QED
    BY <2>2, <2>3
<1>3. \A i, j \in Ids : Used(i)' /\ Used(j)' /\ devices'[i].address = devices'[j].address => i = j
  BY DEF Numbered
<1>4. QED
  BY <1>2, <1>3 DEF Numbered

(* What is left to show when all that answers has its device.               *)
LEMMA SameTraces ==
  ASSUME Bus, Quiet, BusSame
  PROVE  Traces'
<1>1. SUFFICES ASSUME NEW t \in Things, hw'[t] # Off PROVE at'[t] # Nowhere /\ Traced(t)'
  BY DEF Traces
<1>2. hw'[t] = hw[t] /\ at'[t] = at[t]
  BY DEF BusSame
<1>3. at[t] # Nowhere /\ \E i \in Ids : Represents(i, t)
  BY <1>1, <1>2, QuietTraces
<1>4. PICK i \in Ids : Represents(i, t)
  BY <1>3
<1>5. Represents(i, t)'
  BY <1>4, SameBus
<1>6. QED
  BY <1>2, <1>3, <1>5 DEF Traced

LEMMA SamePlugged ==
  ASSUME Plugged, UNCHANGED at
  PROVE  Plugged'
  BY DEF Plugged

LEMMA LiveBus ==
  ASSUME UsbInv, BusInv, halt = "no"
  PROVE  Live /\ Plugged /\ Numbered /\ (~missed => Bus)
  BY DEF BusInv, Bus, Live

(* A call returns.                                                          *)
LEMMA QuietReturn ==
  ASSUME UsbInv, UsbInv', BusInv, halt = "no", BusSame, stack # <<>>, Return,
         Quiet, Top.pc \notin {"descriptor", "setAddress"}
  PROVE  BusInv'
<1> HIDE DEF Frame
<1>1. Live /\ Plugged /\ Numbered /\ stack \in Seq(Frame) /\ Calls /\ UNCHANGED at
  BY LiveBus, GoingParts DEF BusSame
<1>2. ~Enumerating({"setAddress"})'
  <2>1. stack' # <<>> => Top'.pc # "setAddress"
    BY <1>1, PoppedAt
  <2>2. QED
    BY <2>1 DEF Enumerating
<1>3. Numbered'
  <2>1. ~Enumerating({"descriptor", "setAddress"}) /\ TypeOK'
    BY DEF Enumerating, UsbInv
  <2>2. QED
    BY <1>1, <1>2, <2>1, NumberedKept DEF BusSame
<1>4. ASSUME ~missed' PROVE Exclusive'
  <2>1. Bus
    BY <1>4, LiveBus DEF BusSame
  <2>2. Traces' /\ HubsServed' /\ ServesKept
    BY <2>1, SameBus, SameTraces
  <2>3. HandlesBelow(Len(stack) - 1)
    BY <1>1, <2>1, <2>2, BusParts, HandlesStay
  <2>4. HandlesFit' /\ OneLevel'
    BY <1>1, <2>1, <2>3, BusParts, FitsPopped
  <2>5. QED
    BY <2>2, <2>4 DEF Exclusive
<1>5. QED
  BY <1>1, <1>3, <1>4, SamePlugged DEF BusInv

(* It goes on.                                                              *)
LEMMA QuietContinue ==
  ASSUME UsbInv, UsbInv', BusInv, halt = "no", BusSame, stack # <<>>, NEW f \in Frame, Continue(f),
         Quiet, Top.pc \notin {"descriptor", "setAddress"}, f.fn = Top.fn, f.pc # "setAddress",
         ~missed' => Handles(f)'
  PROVE  BusInv'
<1> HIDE DEF Frame
<1>1. Live /\ Plugged /\ Numbered /\ stack \in Seq(Frame) /\ Calls /\ UNCHANGED at
  BY LiveBus, GoingParts DEF BusSame
<1>2. ~Enumerating({"setAddress"})'
  <2>1. Top'.pc # "setAddress"
    BY <1>1, TopReplaced
  <2>2. QED
    BY <2>1 DEF Enumerating
<1>3. Numbered'
  <2>1. ~Enumerating({"descriptor", "setAddress"}) /\ TypeOK'
    BY DEF Enumerating, UsbInv
  <2>2. QED
    BY <1>1, <1>2, <2>1, NumberedKept DEF BusSame
<1>4. ASSUME ~missed' PROVE Exclusive'
  <2>1. Bus
    BY <1>4, LiveBus DEF BusSame
  <2>2. Traces' /\ HubsServed' /\ ServesKept
    BY <2>1, SameBus, SameTraces
  <2>3. HandlesBelow(Len(stack) - 1) /\ Handles(f)'
    BY <1>1, <1>4, <2>1, <2>2, BusParts, HandlesStay
  <2>4. HandlesFit' /\ OneLevel'
    BY <1>1, <2>1, <2>3, BusParts, FitsReplaced
  <2>5. QED
    BY <2>2, <2>4 DEF Exclusive
<1>5. QED
  BY <1>1, <1>3, <1>4, SamePlugged DEF BusInv

(* It calls another.                                                        *)
LEMMA QuietCall ==
  ASSUME UsbInv, UsbInv', BusInv, halt = "no", BusSame, stack # <<>>,
         NEW f \in Frame, NEW g \in Frame, CallFrom(f, g),
         Quiet, Top.pc \notin {"descriptor", "setAddress"}, f.fn = Top.fn, g.pc # "setAddress",
         ~missed' => Handles(f)' /\ Handles(g)',
         ~missed' /\ g.fn = "hubProbe" => \A i \in DOMAIN stack : stack[i].fn # "handle"
  PROVE  BusInv'
<1> HIDE DEF Frame
<1>1. Live /\ Plugged /\ Numbered /\ stack \in Seq(Frame) /\ Calls /\ UNCHANGED at
  BY LiveBus, GoingParts DEF BusSame
<1>2. ~Enumerating({"setAddress"})'
  <2>1. Top'.pc # "setAddress"
    BY <1>1, TopCalled
  <2>2. QED
    BY <2>1 DEF Enumerating
<1>3. Numbered'
  <2>1. ~Enumerating({"descriptor", "setAddress"}) /\ TypeOK'
    BY DEF Enumerating, UsbInv
  <2>2. QED
    BY <1>1, <1>2, <2>1, NumberedKept DEF BusSame
<1>4. ASSUME ~missed' PROVE Exclusive'
  <2>1. Bus
    BY <1>4, LiveBus DEF BusSame
  <2>2. Traces' /\ HubsServed' /\ ServesKept
    BY <2>1, SameBus, SameTraces
  <2>3. HandlesBelow(Len(stack) - 1) /\ Handles(f)' /\ Handles(g)'
    BY <1>1, <1>4, <2>1, <2>2, BusParts, HandlesStay
  <2>4. HandlesFit' /\ OneLevel'
    BY <1>1, <1>4, <2>1, <2>3, BusParts, FitsCalled
  <2>5. QED
    BY <2>2, <2>4 DEF Exclusive
<1>5. QED
  BY <1>1, <1>3, <1>4, SamePlugged DEF BusInv

(* A callback begins.                                                       *)
LEMMA QuietBegin ==
  ASSUME UsbInv, UsbInv', BusInv, halt = "no", BusSame, stack = <<>>,
         NEW f \in Frame, stack' = <<f>>, f.fn \in Callbacks
  PROVE  BusInv'
<1> HIDE DEF Frame
<1>1. Live /\ Plugged /\ Numbered /\ UNCHANGED at
  BY LiveBus DEF BusSame
<1>2. ~Enumerating({"setAddress"})'
  <2>1. Top' = f
    BY DEF Top, Last
  <2>2. QED
    BY <2>1 DEF Enumerating, Callbacks
<1>3. Numbered'
  <2>1. ~Enumerating({"descriptor", "setAddress"}) /\ TypeOK'
    BY DEF Enumerating, UsbInv
  <2>2. QED
    BY <1>1, <1>2, <2>1, NumberedKept DEF BusSame
<1>4. ASSUME ~missed' PROVE Exclusive'
  <2>1. Bus
    BY <1>4, LiveBus DEF BusSame
  <2>2. Quiet
    BY DEF Quiet
  <2>3. Traces' /\ HubsServed'
    BY <2>1, <2>2, SameBus, SameTraces
  <2>4. HandlesFit' /\ OneLevel'
    BY FitsBegun
  <2>5. QED
    BY <2>3, <2>4 DEF Exclusive
<1>5. QED
  BY <1>1, <1>3, <1>4, SamePlugged DEF BusInv

(* Nothing of it changes, the calls included.                               *)
LEMMA QuietStutter ==
  ASSUME UsbInv, BusInv, halt = "no", BusSame, UNCHANGED stack, missed' = missed
  PROVE  BusInv'
<1>1. Live /\ Plugged /\ Numbered /\ UNCHANGED at
  BY LiveBus DEF BusSame
<1>2. Numbered'
  BY <1>1 DEF Numbered, Enumerating, Top, BusSame
<1>3. ASSUME ~missed' PROVE Exclusive'
  <2>1. Bus
    BY <1>3, LiveBus DEF BusSame
  <2>2. HubsServed' /\ ServesKept
    BY <2>1, SameBus
  <2>3. Traces'
    <3>1. \A p : (Expected(p)' <=> Expected(p)) /\ (Resetting(p)' <=> Resetting(p))
      BY DEF Expected, Resetting, Enumerating, Top
    <3>2. \A t \in Things : Traced(t) => Traced(t)'
      BY <2>1, <3>1, SameBus DEF Traced, BusSame
    <3>3. QED
      BY <2>1, <3>2, BusParts DEF Traces, BusSame
  <2>4. HandlesFit' /\ OneLevel'
    <3> HIDE DEF Frame
    <3>1. OneLevel'
      BY <2>1, BusParts DEF OneLevel
    <3>2. HandlesFit'
      <4>1. SUFFICES ASSUME NEW i \in DOMAIN stack PROVE Handles(stack[i])'
        BY DEF HandlesFit
      <4>2. stack # <<>>
        BY <4>1
      <4>3. stack \in Seq(Frame) /\ Calls /\ HandlesFit
        BY <2>1, BusParts
      <4>4. PICK e \in Frame : e = stack[i]
        BY <4>2, <4>3, Stacked
      <4>5. i \in 1..Len(stack)
        BY <4>2, <4>3, Stacked
      <4>6. HandlesBelow(Len(stack))
        BY <1>1, <2>2, <4>2, <4>3, HandlesStay
      <4>7. Handles(e)'
        BY <4>4, <4>5, <4>6 DEF HandlesBelow
      <4>8. QED
        BY <4>4, <4>7
    <3>3. QED
      BY <3>1, <3>2
  <2>5. QED
    BY <2>2, <2>3, <2>4 DEF Exclusive
<1>4. QED
  BY <1>1, <1>2, <1>3, SamePlugged DEF BusInv

LEMMA FrameOf ==
  ASSUME stack \in Seq(Frame), stack # <<>>, stack' \in Seq(Frame), NEW f, Continue(f)
  PROVE  f \in Frame
<1> HIDE DEF Frame
<1> DEFINE S == Frame \cup {f}  s == Front(stack)
<1>1. s \in Seq(Frame)
  BY Stacked
<1>2. s \in Seq(S) /\ f \in S
  <2>1. Frame \subseteq S
    OBVIOUS
  <2> HIDE DEF S, s
  <2>2. Seq(Frame) \subseteq Seq(S)
    BY <2>1
  <2>3. QED
    BY <1>1, <2>2 DEF S
<1>3. stack' = Append(s, f)
  BY DEF Continue
<1> HIDE DEF S, s
<1>4. Len(stack') = Len(s) + 1 /\ stack'[Len(s) + 1] = f /\ Len(s) \in Nat
  BY <1>2, <1>3, AppendProperties, LenProperties
<1>5. Len(s) + 1 \in 1..Len(stack')
  BY <1>4
<1>6. QED
  BY <1>4, <1>5, ElementOfSeq

LEMMA FramesOf ==
  ASSUME stack \in Seq(Frame), stack # <<>>, stack' \in Seq(Frame), NEW f, NEW g, CallFrom(f, g)
  PROVE  f \in Frame /\ g \in Frame
<1> HIDE DEF Frame
<1> DEFINE S == Frame \cup {f, g}  s == Front(stack)  r == Append(s, f)
<1>1. s \in Seq(Frame)
  BY Stacked
<1>2. s \in Seq(S) /\ f \in S /\ g \in S
  <2>1. Frame \subseteq S
    OBVIOUS
  <2> HIDE DEF S, s, r
  <2>2. Seq(Frame) \subseteq Seq(S)
    BY <2>1
  <2>3. QED
    BY <1>1, <2>2 DEF S
<1>3. stack' = Append(r, g)
  BY DEF CallFrom
<1> HIDE DEF S, s, r
<1>4. r \in Seq(S) /\ Len(r) = Len(s) + 1 /\ r[Len(s) + 1] = f /\ Len(s) \in Nat
  BY <1>2, AppendProperties, LenProperties DEF r
<1>5. Len(stack') = Len(r) + 1 /\ stack'[Len(r) + 1] = g /\ stack'[Len(s) + 1] = f
  <2>1. /\ Len(stack') = Len(r) + 1 /\ stack'[Len(r) + 1] = g
        /\ \A i \in 1..Len(r) : stack'[i] = r[i]
    BY <1>2, <1>3, <1>4, AppendProperties
  <2>2. Len(s) + 1 \in 1..Len(r)
    BY <1>4
  <2>3. QED
    BY <1>4, <2>1, <2>2
<1>6. Len(s) + 1 \in 1..Len(stack') /\ Len(r) + 1 \in 1..Len(stack')
  BY <1>4, <1>5
<1>7. QED
  BY <1>5, <1>6, ElementOfSeq

LEMMA BusSameTable ==
  ASSUME UNCHANGED <<at, hw, powered, devices, hubs, halt>>, missed => missed'
  PROVE  BusSame
  BY DEF BusSame, Used

(* A call other than hubHandlePort goes on, or returns.                     *)
LEMMA QuietGoesOn ==
  ASSUME UsbInv, UsbInv', BusInv, halt = "no", BusSame, stack # <<>>, NEW f, Continue(f),
         Quiet, Top.pc \notin {"descriptor", "setAddress"}, f.fn = Top.fn, f.pc # "setAddress",
         f.fn # "handle"
  PROVE  BusInv'
<1> HIDE DEF Frame
<1>1. stack \in Seq(Frame) /\ stack' \in Seq(Frame)
  BY DEF UsbInv
<1>2. PICK g \in Frame : g = f
  BY <1>1, FrameOf
<1>3. Handles(g)'
  BY <1>2 DEF Handles
<1>4. QED
  BY <1>2, <1>3, QuietContinue

LEMMA QuietEnd ==
  ASSUME UsbInv, UsbInv', BusInv, NEW fn, NEW pc, Running(fn, pc), Return,
         pc \notin {"enumerate", "allocate", "reset", "descriptor", "setAddress"},
         UNCHANGED <<world, hw, table, connectedPorts, drivers, halt, missed>>
  PROVE  BusInv'
<1> HIDE DEF Frame
<1>1. stack # <<>> /\ Top.pc = pc /\ halt = "no"
  BY DEF Running
<1>2. BusSame
  BY BusSameTable DEF world, table, drivers
<1>3. QED
  BY <1>1, <1>2, QuietReturn DEF Quiet

LEMMA BusEnds ==
  ASSUME UsbInv, UsbInv', BusInv,
         EndPoll \/ EndEnumeration \/ EndHubPoll \/ EndHandle \/ EndScan
  PROVE  BusInv'
<1>1. UNCHANGED <<world, hw, table, connectedPorts, drivers, halt, missed>> /\ Return
  BY DEF EndPoll, EndEnumeration, EndHubPoll, EndHandle, EndScan
<1>2. \/ Running("poll", "status") \/ Running("enumerate", "bound") \/ Running("hubPoll", "hub")
      \/ Running("handle", "done") \/ Running("scan", "lun")
  BY DEF EndPoll, EndEnumeration, EndHubPoll, EndHandle, EndScan
<1>3. QED
  BY <1>1, <1>2, QuietEnd

LEMMA BusBegins ==
  ASSUME UsbInv, UsbInv', BusInv, ~Crossing',
         StartPoll \/ StartHubPoll \/ \E s \in Slots : StartScan(s)
  PROVE  BusInv'
<1> HIDE DEF Frame
<1>1. halt = "no" /\ UNCHANGED <<world, hw, table, hubs, halt, missed>>
  BY DEF StartPoll, StartHubPoll, StartScan, Callback, drivers
<1>2. BusSame
  BY <1>1, BusSameTable DEF world, table
<1>3. CASE UNCHANGED stack
  BY <1>1, <1>2, <1>3, QuietStutter
<1>4. ASSUME NEW f \in Frame, Push(f), f.fn \in Callbacks PROVE BusInv'
  <2>1. Live
    BY <1>1 DEF Live
  <2>2. stack = <<>>
    BY <1>4, <2>1, Idle
  <2>3. stack' = <<f>>
    BY <1>4, <2>2 DEF Push
  <2>4. QED
    BY <1>1, <1>2, <1>4, <2>2, <2>3, QuietBegin
<1>5. CASE StartPoll
  <2>1. PICK p \in RootPorts \cup {1} : Push([Call("poll", "status") EXCEPT !.port = p])
    <3>1. Call("poll", "status") = [Call("poll", "status") EXCEPT !.port = 1]
      BY DEF Call
    <3>2. QED
      BY <1>5, <3>1 DEF StartPoll
  <2>2. PICK f : f = [Call("poll", "status") EXCEPT !.port = p]
    OBVIOUS
  <2>3. f \in Frame /\ f.fn \in Callbacks /\ Push(f)
    BY <2>1, <2>2, PollFrame DEF Callbacks
  <2>4. QED
    BY <1>4, <2>3
<1>6. CASE StartHubPoll
  <2>1. PICK h \in HubIds : Push([Call("hubPoll", "hub") EXCEPT !.hub = h])
    <3>1. 1 \in HubIds
      BY UsbAssumption DEF HubIds
    <3>2. QED
      BY <1>6, <3>1 DEF StartHubPoll
  <2>2. PICK f : f = [Call("hubPoll", "hub") EXCEPT !.hub = h]
    OBVIOUS
  <2>3. f \in Frame /\ f.fn \in Callbacks /\ Push(f)
    BY <2>1, <2>2, HubPollBegun DEF Callbacks
  <2>4. QED
    BY <1>4, <2>3
<1>7. ASSUME NEW s \in Slots, StartScan(s) PROVE BusInv'
  <2> DEFINE c == Call("scan", "lun")  f == [c EXCEPT !.slot = s]
  <2>1. UNCHANGED stack \/ Push(f)
    BY <1>7 DEF StartScan
  <2>2. c \in Frame /\ c.fn = "scan"
    BY CallFields DEF Call
  <2> HIDE DEF c
  <2>3. f \in Frame /\ f.fn = "scan"
    BY <2>2 DEF Frame
  <2> HIDE DEF f
  <2>4. QED
    BY <1>3, <1>4, <2>1, <2>3 DEF Callbacks
<1>8. QED
  BY <1>5, <1>6, <1>7

LEMMA MissedMore ==
  ASSUME NEW S, UNCHANGED missed \/ missed' = (missed \/ S # {})
  PROVE  missed => missed'
  OBVIOUS

LEMMA AtTopQuiet ==
  ASSUME UsbInv, NEW fn, NEW pc, Running(fn, pc),
         pc \notin {"enumerate", "allocate", "reset", "descriptor", "setAddress"}
  PROVE  /\ Live /\ stack # <<>> /\ halt = "no" /\ Top \in Frame /\ Top.fn = fn /\ Top.pc = pc /\ FrameOK(Top)
         /\ Quiet /\ Top.pc \notin {"descriptor", "setAddress"}
<1> HIDE DEF Frame
<1>1. Live /\ stack # <<>> /\ Top \in Frame /\ Top.fn = fn /\ Top.pc = pc /\ FrameOK(Top)
  BY AtTop
<1>2. QED
  BY <1>1 DEF Quiet, Live

LEMMA HubPollBus ==
  ASSUME UsbInv, UsbInv', BusInv, HubPoll
  PROVE  BusInv'
<1> DEFINE t == Top
           f == [t EXCEPT !.hub = @ + 1, !.pc = "hub", !.todo = {}]
           F(u) == [t EXCEPT !.pc = "ports", !.todo = Changed(u)]
<1>1. /\ Running("hubPoll", "hub") /\ BusSame
      /\ Continue(f) \/ \E u : Continue(F(u))
  BY BusSameTable DEF HubPoll, NextHub, world, table, drivers
<1>2. /\ stack # <<>> /\ halt = "no" /\ t \in Frame /\ t.fn = "hubPoll"
      /\ Quiet /\ Top.pc \notin {"descriptor", "setAddress"} /\ Top.fn = t.fn
  BY <1>1, AtTopQuiet
<1> HIDE DEF t
<1>3. CASE Continue(f)
  <2>1. f.fn = t.fn /\ f.pc = "hub"
    BY <1>2 DEF Frame
  <2> HIDE DEF f, Frame
  <2>2. QED
    BY <1>1, <1>2, <1>3, <2>1, QuietGoesOn
<1>4. ASSUME NEW u, Continue(F(u)) PROVE BusInv'
  <2> DEFINE g == F(u)
  <2>1. g.fn = t.fn /\ g.pc = "ports"
    BY <1>2 DEF Frame
  <2>2. Continue(g)
    BY <1>4
  <2> HIDE DEF g, Frame
  <2>3. QED
    BY <1>1, <1>2, <2>1, <2>2, QuietGoesOn
<1>5. QED
  BY <1>1, <1>3, <1>4

LEMMA HubPollPortsBus ==
  ASSUME UsbInv, UsbInv', BusInv, HubPollPorts
  PROVE  BusInv'
<1> DEFINE t == Top
           f == [t EXCEPT !.hub = @ + 1, !.pc = "hub", !.todo = {}]
           F(p) == [t EXCEPT !.todo = @ \ {p}]
           G(p) == HandlePort(t.hub, p)
<1>1. /\ Running("hubPoll", "ports") /\ BusSame
      /\ Continue(f) \/ \E p : CallFrom(F(p), G(p))
  BY BusSameTable DEF HubPollPorts, NextHub, world, table, drivers
<1>2. /\ stack # <<>> /\ halt = "no" /\ t \in Frame /\ t.fn = "hubPoll" /\ t.pc = "ports"
      /\ Quiet /\ Top.pc \notin {"descriptor", "setAddress"} /\ Top.fn = t.fn
  BY <1>1, AtTopQuiet
<1> HIDE DEF t
<1>3. CASE Continue(f)
  <2>1. f.fn = t.fn /\ f.pc = "hub"
    BY <1>2 DEF Frame
  <2> HIDE DEF f, Frame
  <2>2. QED
    BY <1>1, <1>2, <1>3, <2>1, QuietGoesOn
<1>4. ASSUME NEW p, CallFrom(F(p), G(p)) PROVE BusInv'
  <2> DEFINE a == F(p)  b == G(p)
  <2>1. a.fn = "hubPoll"
    BY <1>2 DEF Frame
  <2>2. b.fn = "handle" /\ b.pc = "status"
    BY DEF HandlePort, Call
  <2>3. CallFrom(a, b) /\ stack \in Seq(Frame) /\ stack' \in Seq(Frame)
    BY <1>4 DEF UsbInv
  <2> HIDE DEF a, b, Frame
  <2>4. PICK x \in Frame, y \in Frame : x = a /\ y = b
    BY <1>2, <2>3, FramesOf
  <2>5. Handles(x)' /\ Handles(y)'
    BY <2>1, <2>2, <2>4 DEF Handles
  <2>6. QED
    BY <1>1, <1>2, <2>1, <2>2, <2>3, <2>4, <2>5, QuietCall
<1>5. QED
  BY <1>1, <1>3, <1>4

LEMMA HubProbePortsBus ==
  ASSUME UsbInv, UsbInv', BusInv, HubProbePorts
  PROVE  BusInv'
<1> DEFINE t == Top  a == [t EXCEPT !.port = @ + 1]  b == HandlePort(t.hub, t.port)
<1>1. /\ Running("hubProbe", "ports") /\ UNCHANGED <<at, hw, powered, hubs, halt, missed>>
      /\ \/ CallFrom(a, b) /\ UNCHANGED devices
         \/ Return /\ Bound(t.dev, "hub", t.hub)
  BY DEF HubProbePorts, world, drivers
<1>2. /\ Live /\ stack # <<>> /\ halt = "no" /\ t \in Frame /\ t.fn = "hubProbe" /\ t.pc = "ports"
      /\ Quiet /\ Top.pc \notin {"descriptor", "setAddress"} /\ Top.fn = t.fn /\ FrameOK(t)
  BY <1>1, AtTopQuiet
<1>3. CASE CallFrom(a, b) /\ UNCHANGED devices
  <2>1. BusSame
    BY <1>1, <1>3, BusSameTable
  <2>2. b.fn = "handle" /\ b.pc = "status"
    BY DEF HandlePort, Call
  <2>3. CallFrom(a, b) /\ stack \in Seq(Frame) /\ stack' \in Seq(Frame)
    BY <1>3 DEF UsbInv
  <2> HIDE DEF t, b
  <2>4. a.fn = "hubProbe"
    BY <1>2 DEF Frame
  <2> HIDE DEF a, Frame
  <2>5. PICK x \in Frame, y \in Frame : x = a /\ y = b
    BY <1>2, <2>3, FramesOf
  <2>6. Handles(x)' /\ Handles(y)'
    BY <2>2, <2>4, <2>5 DEF Handles
  <2>7. QED
    BY <1>1, <1>2, <2>1, <2>2, <2>3, <2>4, <2>5, <2>6, QuietCall
<1>4. CASE Return /\ Bound(t.dev, "hub", t.hub)
  <2>1. t.dev \in Ids /\ Used(t.dev) /\ TypeOK
    BY <1>2, GoingParts DEF FrameOK, HubProbeOK, Frame
  <2>2. PICK i \in Ids : i = t.dev /\ devices[i] \in Device
    BY <2>1 DEF TypeOK, Used
  <2> DEFINE h == t.hub  d == [devices[i] EXCEPT !.driver = "hub", !.data = h]
  <2> HIDE DEF h
  <2>3. d.parent = devices[i].parent /\ d.port = devices[i].port /\ d.address = devices[i].address /\ d.driver = "hub"
    BY <2>2 DEF Device
  <2>4. devices' = [devices EXCEPT ![i] = d]
    BY <1>4, <2>1, <2>2 DEF Bound, TypeOK, h
  <2> HIDE DEF d
  <2>5. d # NoDevice
    BY <2>3 DEF NoDevice
  <2>6. \A j \in Ids : devices'[j] = IF j = i THEN d ELSE devices[j]
    BY <2>1, <2>4 DEF TypeOK
  <2>7. BusSame
    BY <1>1, <2>1, <2>2, <2>3, <2>5, <2>6 DEF BusSame, Used
  <2> HIDE DEF Frame
  <2>8. QED
    BY <1>2, <1>4, <2>7, QuietReturn
<1>5. QED
  BY <1>1, <1>3, <1>4

LEMMA MassProbeBus ==
  ASSUME UsbInv, UsbInv', BusInv, MassProbe
  PROVE  BusInv'
<1> DEFINE t == Top  F(s) == [t EXCEPT !.slot = s, !.pc = "maxLun"]
<1>0. /\ Running("massProbe", "probe") /\ UNCHANGED <<at, hw, powered, devices, hubs, halt>>
      /\ Return \/ \E s : Continue(F(s))
      /\ UNCHANGED missed \/ missed' = (missed \/ Target(t.dev) # {})
  BY DEF MassProbe, world, table
<1>1. (missed => missed') /\ BusSame
  BY <1>0, MissedMore, BusSameTable
<1>2. /\ Live /\ stack # <<>> /\ halt = "no" /\ t \in Frame /\ t.fn = "massProbe"
      /\ Quiet /\ Top.pc \notin {"descriptor", "setAddress"} /\ Top.fn = t.fn
  BY <1>0, AtTopQuiet
<1> HIDE DEF t
<1>3. CASE Return
  <2> HIDE DEF Frame
  <2>1. QED
    BY <1>1, <1>2, <1>3, QuietReturn
<1>4. ASSUME NEW s, Continue(F(s)) PROVE BusInv'
  <2> DEFINE g == F(s)
  <2>1. g.fn = t.fn /\ g.pc = "maxLun"
    BY <1>2 DEF Frame
  <2>2. Continue(g)
    BY <1>4
  <2> HIDE DEF g, Frame
  <2>3. QED
    BY <1>1, <1>2, <2>1, <2>2, QuietGoesOn
<1>5. QED
  BY <1>0, <1>3, <1>4

LEMMA MaxLunBus ==
  ASSUME UsbInv, UsbInv', BusInv, MaxLun
  PROVE  BusInv'
<1> DEFINE t == Top
<1>0. /\ Running("massProbe", "maxLun") /\ UNCHANGED <<at, hw, powered, hubs, halt>>
      /\ Return
      /\ \/ (\E s : Bound(t.dev, "mass", s)) /\ UNCHANGED missed
         \/ missed' = (missed \/ Target(t.dev) # {}) /\ UNCHANGED devices
  BY DEF MaxLun, world
<1>00. missed => missed'
  BY <1>0, MissedMore
<1>1. /\ Running("massProbe", "maxLun") /\ UNCHANGED <<at, hw, powered, hubs, halt>> /\ (missed => missed')
      /\ Return
      /\ UNCHANGED devices \/ \E s : Bound(t.dev, "mass", s)
  BY <1>0, <1>00
<1>2. /\ Live /\ stack # <<>> /\ halt = "no" /\ t \in Frame /\ t.fn = "massProbe"
      /\ Quiet /\ Top.pc \notin {"descriptor", "setAddress"} /\ Top.fn = t.fn /\ FrameOK(t)
  BY <1>1, AtTopQuiet
<1>3. CASE UNCHANGED devices
  <2>1. BusSame
    BY <1>1, <1>3, BusSameTable
  <2> HIDE DEF Frame
  <2>2. QED
    BY <1>1, <1>2, <2>1, QuietReturn
<1>4. ASSUME NEW s, Bound(t.dev, "mass", s) PROVE BusInv'
  <2>1. t.dev \in Ids /\ Used(t.dev) /\ TypeOK
    BY <1>2, GoingParts DEF FrameOK, MassProbeOK, Frame
  <2>2. PICK i \in Ids : i = t.dev /\ devices[i] \in Device
    BY <2>1 DEF TypeOK, Used
  <2> DEFINE d == [devices[i] EXCEPT !.driver = "mass", !.data = s]
  <2>3. /\ d.parent = devices[i].parent /\ d.port = devices[i].port /\ d.address = devices[i].address
        /\ d.driver = "mass"
    BY <2>2 DEF Device
  <2>4. devices' = [devices EXCEPT ![i] = d]
    BY <1>4, <2>1, <2>2 DEF Bound, TypeOK
  <2> HIDE DEF d
  <2>5. d # NoDevice
    BY <2>3 DEF NoDevice
  <2>6. \A j \in Ids : devices'[j] = IF j = i THEN d ELSE devices[j]
    BY <2>1, <2>4 DEF TypeOK
  <2>7. BusSame
    BY <1>1, <2>1, <2>2, <2>3, <2>5, <2>6 DEF BusSame, Used
  <2> HIDE DEF Frame
  <2>8. QED
    BY <1>1, <1>2, <2>7, QuietReturn
<1>5. QED
  BY <1>1, <1>3, <1>4

LEMMA ScanBus ==
  ASSUME UsbInv, UsbInv', BusInv, SetupLun \/ MarkRegistered
  PROVE  BusInv'
<1> DEFINE t == Top  f == [t EXCEPT !.pc = "mark"]  g == [t EXCEPT !.lun = @ + 1]
           h == [t EXCEPT !.pc = "lun", !.lun = @ + 1]
<1>1. /\ Running("scan", "lun") \/ Running("scan", "mark")
      /\ BusSame /\ (Continue(f) \/ Continue(g) \/ Continue(h))
  <2>0. /\ UNCHANGED <<at, hw, powered, devices, hubs, halt>>
        /\ UNCHANGED missed \/ missed' = (missed \/ Target(storage[Top.slot].dev) # {})
    BY DEF SetupLun, MarkRegistered, world, table
  <2>1. UNCHANGED <<at, hw, powered, devices, hubs, halt>> /\ (missed => missed')
    BY <2>0, MissedMore
  <2>2. BusSame
    BY <2>1, BusSameTable
  <2>3. QED
    BY <2>2 DEF SetupLun, MarkRegistered, Goto
<1>2. /\ stack # <<>> /\ halt = "no" /\ t \in Frame /\ t.fn = "scan" /\ t.pc \in {"lun", "mark"}
      /\ Quiet /\ Top.pc \notin {"descriptor", "setAddress"} /\ Top.fn = t.fn
  BY <1>1, AtTopQuiet
<1> HIDE DEF t
<1>3. /\ f.fn = "scan" /\ f.pc = "mark" /\ g.fn = "scan" /\ g.pc \in {"lun", "mark"}
      /\ h.fn = "scan" /\ h.pc = "lun"
  BY <1>2 DEF Frame
<1> HIDE DEF f, g, h, Frame
<1>4. QED
  BY <1>1, <1>2, <1>3, QuietGoesOn

(* The hub that a slot's device reaches is the one it serves.               *)
LEMMA ReachedServed ==
  ASSUME Bus, NEW g \in HubIds, hubs[g].dev # NULL, NEW u \in Things, u \in Target(hubs[g].dev)
  PROVE  u \in powered /\ \A h \in Things : h = u <=> Serves(g, h)
<1> DEFINE d == hubs[g].dev
<1>1. d \in Ids /\ Used(d)
  BY BusParts, SlotDevice
<1>2. Represents(d, u)
  <2> HIDE DEF d
  <2>1. u \in Target(d)
    BY DEF d
  <2>2. QED
    BY <1>1, <2>1, TargetOf
<1>3. Serves(g, u)
  BY <1>2, BusParts DEF HubsServed
<1>4. ASSUME NEW h \in Things, Serves(g, h) PROVE h = u
  BY <1>1, <1>2, <1>4, ServedHub, OneThing
<1>5. QED
  BY <1>3, <1>4 DEF Serves

LEMMA PortStatusBus ==
  ASSUME UsbInv, UsbInv', BusInv, PortStatus
  PROVE  BusInv'
<1> DEFINE t == Top
           reached == Target(hubs[t.hub].dev)
           X(u) == IF At(<<u, t.port>>) = {} THEN {} ELSE {t.port}
           F(u) == [t EXCEPT !.hubThing = u, !.pc = "clear", !.todo = X(u)]
<1>1. /\ Running("handle", "status") /\ UNCHANGED <<at, hw, powered, devices, hubs, halt>>
      /\ \/ Return /\ (UNCHANGED missed \/ missed' = (missed \/ reached # {}))
         \/ (\E u \in reached \cap Hubs : Continue(F(u))) /\ UNCHANGED missed
  BY DEF PortStatus, world, table, drivers
<1>2. /\ Live /\ stack # <<>> /\ halt = "no" /\ t \in Frame /\ t.fn = "handle" /\ FrameOK(t)
      /\ Quiet /\ Top.pc \notin {"descriptor", "setAddress"} /\ Top.fn = t.fn
  BY <1>1, AtTopQuiet
<1>3. missed => missed'
  BY <1>1, MissedMore
<1>4. BusSame
  BY <1>1, <1>3, BusSameTable
<1>5. CASE Return
  <2> HIDE DEF Frame
  <2>1. QED
    BY <1>2, <1>4, <1>5, QuietReturn
<1>6. ASSUME NEW u \in reached \cap Hubs, Continue(F(u)) PROVE BusInv'
  <2>1. t.hub \in HubIds /\ hubs[t.hub].dev # NULL
    BY <1>2 DEF FrameOK, HandleOK
  <2> DEFINE x == X(u)  f == F(u)
  <2>2. (x = {} => At(<<u, t.port>>) = {}) /\ u \in Hubs /\ u \in Things
    BY <1>6 DEF Things
  <2>3. Continue(f) /\ stack \in Seq(Frame) /\ stack' \in Seq(Frame)
    BY <1>6 DEF UsbInv
  <2>4. u \in Target(hubs[t.hub].dev)
    BY <1>6
  <2> HIDE DEF t, x
  <2>5. f.fn = "handle" /\ f.pc = "clear" /\ f.hub = t.hub /\ f.port = t.port /\ f.hubThing = u /\ f.todo = x
    BY <1>2 DEF Frame, x
  <2> HIDE DEF f, Frame
  <2>6. PICK g \in Frame : g = f
    BY <1>2, <2>3, FrameOf
  <2>7. PICK k \in HubIds, p \in HubPorts : k = t.hub /\ p = t.port
    BY <1>2, <2>1 DEF FrameOK, HandleOK
  <2>8. ASSUME ~missed' PROVE Handles(g)'
    <3>1. Bus
      BY <1>2, <1>3, <2>8, LiveBus
    <3>2. \A h \in Things : h = u <=> Serves(k, h)
      BY <2>1, <2>2, <2>4, <2>7, <3>1, ReachedServed
    <3>3. \A h \in Things : Serves(k, h)' <=> Serves(k, h)
      BY <1>4, <3>1, SameBus
    <3>4. \A h \in powered' : h \in Things
      BY <1>1, <3>1, BusParts DEF TypeOK, Things
    <3>5. \A h \in powered' : h = u <=> Serves(k, h)'
      BY <3>2, <3>3, <3>4
    <3>6. At(<<u, p>>)' = At(<<u, p>>)
      BY <1>1 DEF At
    <3>7. g.hub = k /\ g.hubThing = u /\ g.port = p /\ g.todo = x
      BY <2>5, <2>6, <2>7
    <3>8. (\A h \in powered : h = g.hubThing <=> Serves(g.hub, h))'
      BY <3>5, <3>7
    <3>9. g.todo = {} => At(<<g.hubThing, g.port>>)' = {}
      BY <2>2, <2>7, <3>6, <3>7
    <3>10. QED
      BY <2>2, <2>5, <2>6, <3>8, <3>9 DEF Handles
  <2>9. QED
    BY <1>2, <1>4, <2>3, <2>5, <2>6, <2>8, QuietContinue
<1>7. QED
  BY <1>1, <1>5, <1>6

-----------------------------------------------------------------------------
(* The user plugs something in: it does not answer yet.                     *)
LEMMA PlugBus ==
  ASSUME UsbInv, UsbInv', BusInv, NEW t \in Things, NEW place \in Places, Plug(t, place)
  PROVE  BusInv'
<1> HIDE DEF Frame
<1>1. /\ halt = "no" /\ at[t] = Nowhere /\ (\A u \in Things : at[u] # place)
      /\ (t \in Hubs => place \in RootPlaces)
      /\ at' = [at EXCEPT ![t] = place]
      /\ UNCHANGED <<hw, powered, devices, hubs, stack, halt>>
      /\ missed' = (missed \/ Unnoticed(place))
  BY DEF Plug, table, drivers
<1>2. Live /\ Plugged /\ Numbered /\ at \in [Things -> Places \cup {Nowhere}] /\ Nowhere \notin Places
  BY <1>1, LiveBus, GoingParts, UsbAssumption DEF TypeOK
<1>3. \A u \in Things : at'[u] = IF u = t THEN place ELSE at[u]
  BY <1>1, <1>2
<1>4. Plugged'
  BY <1>1, <1>2, <1>3 DEF Plugged, Things
<1>5. Numbered'
  BY <1>1, <1>2 DEF Numbered, Enumerating, Top, Used
<1>6. ASSUME ~missed' PROVE Exclusive'
  <2>1. Bus /\ ~Unnoticed(place)
    BY <1>1, <1>6, LiveBus
  <2>2. hw[t] = Off /\ TypeOK
    BY <1>1, <2>1, BusParts DEF Traces
  <2>3. t \notin powered
    <3>1. ASSUME NEW g \in HubIds, Serves(g, t) PROVE FALSE
      <4>1. at[t] \in RootPlaces
        BY <2>1, <3>1, ServedHub
      <4>2. QED
        BY <1>1, <1>2, <4>1 DEF Places
    <3>2. QED
      BY <2>1, <3>1, BusParts DEF HubsServed
  <2>4. \A g \in HubIds, h \in Things : Serves(g, h)' <=> Serves(g, h)
    BY <1>1, <1>3, <2>3 DEF Serves
  <2>5. ASSUME NEW i \in Ids, NEW u \in Things PROVE Represents(i, u)' <=> Represents(i, u)
    <3>1. CASE u = t
      <4>1. devices[i].address # Off \/ ~Used(i)
        BY <2>2, DeviceFields DEF Off
      <4>2. QED
        BY <1>1, <2>2, <3>1, <4>1 DEF Represents, Used
    <3>2. CASE u # t
      <4>1. (\E g \in HubIds, h \in Hubs :
               hubs[g].dev = devices[i].parent /\ Serves(g, h) /\ at[u] = <<h, devices[i].port>>)'
            <=> \E g \in HubIds, h \in Hubs :
               hubs[g].dev = devices[i].parent /\ Serves(g, h) /\ at[u] = <<h, devices[i].port>>
        BY <1>1, <1>3, <2>4, <3>2 DEF Things
      <4>2. QED
        BY <1>1, <1>3, <3>2, <4>1 DEF Represents, Used
    <3>3. QED
      BY <3>1, <3>2
  <2>6. Traces'
    <3>1. \A p : (Expected(p)' <=> Expected(p)) /\ (Resetting(p)' <=> Resetting(p))
      BY <1>1 DEF Expected, Resetting, Enumerating, Top
    <3>2. \A u \in Things : u # t /\ Traced(u) => Traced(u)'
      BY <1>1, <1>3, <2>5, <3>1 DEF Traced, Used
    <3>3. QED
      BY <1>1, <1>3, <2>1, <2>2, <3>2, BusParts DEF Traces
  <2>7. HubsServed'
    <3>1. \A h \in powered' : \E g \in HubIds : Serves(g, h)'
      BY <1>1, <2>1, <2>2, <2>4, BusParts DEF HubsServed, TypeOK, Things
    <3>2. \A h \in Hubs \ powered' : \A u \in OnHub(h)' : hw'[u] = Off
      BY <1>1, <1>3, <2>1, <2>2, BusParts DEF HubsServed, OnHub
    <3>3. ASSUME NEW g \in HubIds, NEW u \in Things, hubs'[g].dev # NULL, Represents(hubs[g].dev, u)'
          PROVE  Serves(g, u)'
      <4>1. PICK d \in Ids : d = hubs[g].dev /\ d = hubs'[g].dev
        BY <1>1, <2>2, <3>3 DEF TypeOK
      <4>2. Represents(d, u)'
        BY <3>3, <4>1
      <4>3. Represents(hubs[g].dev, u)
        BY <2>5, <4>1, <4>2
      <4>4. QED
        BY <1>1, <2>1, <2>4, <3>3, <4>3, BusParts DEF HubsServed
    <3>4. QED
      BY <3>1, <3>2, <3>3 DEF HubsServed
  <2>8. HandlesFit'
    <3>1. SUFFICES ASSUME NEW i \in DOMAIN stack PROVE Handles(stack[i])'
      BY <1>1 DEF HandlesFit
    <3>2. stack # <<>> /\ stack \in Seq(Frame)
      BY <2>1, <3>1, BusParts
    <3>3. PICK e \in Frame : e = stack[i] /\ e = stack'[i]
      BY <1>1, <3>2, Stacked
    <3>4. Handles(e) /\ FrameOK(e)
      BY <2>1, <3>3, BusParts DEF HandlesFit, Calls, FramesOK
    <3>5. e.fn = "handle" => e.hub \in HubIds
      BY <3>4 DEF FrameOK, HandleOK
    <3>6. e.fn = "handle" /\ e.pc # "status" =>
            e.hubThing \in Hubs /\ (\A h \in powered : h = e.hubThing <=> Serves(e.hub, h))'
      BY <1>1, <2>2, <2>4, <3>4, <3>5 DEF Handles, TypeOK, Things
    <3>7. ASSUME e.fn = "handle", e.pc = "clear", e.todo = {} PROVE At(<<e.hubThing, e.port>>)' = {}
      <4>1. At(<<e.hubThing, e.port>>) = {}
        BY <3>4, <3>7 DEF Handles
      <4>2. place # <<e.hubThing, e.port>>
        BY <2>1, <3>3, <3>7 DEF Unnoticed
      <4>3. QED
        BY <1>3, <4>1, <4>2 DEF At
    <3>8. Handles(e)'
      BY <3>6, <3>7 DEF Handles
    <3>9. QED
      BY <3>3, <3>8
  <2>9. OneLevel'
    BY <1>1, <2>1, BusParts DEF OneLevel
  <2>10. QED
    BY <2>6, <2>7, <2>8, <2>9 DEF Exclusive
<1>7. QED
  BY <1>4, <1>5, <1>6 DEF BusInv

(* The thing t loses its address, and what is behind it its power: it was   *)
(* unplugged, or its port reset.                                            *)
LEMMA PowerLost ==
  ASSUME Bus, NEW t \in Things, UNCHANGED <<devices, hubs>>, powered' = powered \ {t},
         \A u \in Things : u # t => at'[u] = at[u],
         \A u \in Things : u # t => hw'[u] = IF u \in OnHub(t) THEN Off ELSE hw[u],
         \A i \in Ids : Used(i) => devices[i].address # hw'[t],
         \A h \in Hubs : at'[t] \in {h} \X HubPorts => h # t /\ h \in powered
  PROVE  /\ HubsServed' /\ ServesKept
         /\ \A i \in Ids, u \in Things : u # t /\ u \notin OnHub(t) /\ Represents(i, u) => Represents(i, u)'
<1>1. TypeOK /\ HubsServed /\ powered \subseteq Hubs
  BY BusParts DEF TypeOK
<1>2. ASSUME NEW h \in powered PROVE h \in Things /\ h \in Hubs /\ h \notin OnHub(t)
  <2>1. PICK g \in HubIds : Serves(g, h)
    BY <1>1 DEF HubsServed
  <2>2. h \in Things /\ h \in Hubs
    BY <1>1 DEF Things
  <2>3. at[h] \in RootPlaces
    BY <2>1, <2>2, ServedHub
  <2>4. t # Root
    BY UsbAssumption DEF Things
  <2>5. QED
    BY <2>2, <2>3, <2>4 DEF OnHub, RootPlaces
<1>3. ASSUME NEW h \in powered, h # t, NEW g \in HubIds PROVE Serves(g, h)' <=> Serves(g, h)
  <2>1. at'[h] = at[h] /\ hw'[h] = hw[h] /\ h \in powered'
    BY <1>2, <1>3
  <2>2. QED
    BY <2>1 DEF Serves
<1>4. ServesKept
  BY <1>3 DEF ServesKept
<1>5. ASSUME NEW i \in Ids, NEW u \in Things, u # t, u \notin OnHub(t), Represents(i, u)
      PROVE  Represents(i, u)'
  <2>1. Used(i) /\ Used(i)' /\ hw'[u] = devices[i].address /\ at'[u] = at[u] /\ devices'[i] = devices[i]
    BY <1>5 DEF Represents, Used
  <2>2. CASE devices[i].parent = NULL
    BY <1>5, <2>1, <2>2 DEF Represents
  <2>3. CASE devices[i].parent # NULL
    <3>1. PICK g \in HubIds, h \in Hubs :
            hubs[g].dev = devices[i].parent /\ Serves(g, h) /\ at[u] = <<h, devices[i].port>>
      BY <1>5, <2>3 DEF Represents
    <3>2. devices[i].port \in HubPorts
      BY <2>1, <2>3, BusParts DEF PortsFit
    <3>3. h # t /\ h \in powered
      BY <1>5, <3>1, <3>2 DEF OnHub, Serves
    <3>4. Serves(g, h)'
      BY <1>3, <3>1, <3>3
    <3>5. hubs'[g].dev = devices'[i].parent /\ at'[u] = <<h, devices'[i].port>>
      BY <2>1, <3>1
    <3>6. QED
      BY <2>1, <2>3, <3>4, <3>5 DEF Represents
  <2>4. QED
    BY <2>2, <2>3
<1>6. ASSUME NEW i \in Ids, NEW u \in Things, Represents(i, u)'
      PROVE  u # t /\ u \notin OnHub(t) /\ Represents(i, u)
  <2>1. Used(i) /\ hw'[u] = devices[i].address /\ devices'[i] = devices[i]
    BY <1>6 DEF Represents, Used
  <2>2. devices[i].address # Off
    BY <1>1, <2>1, DeviceFields DEF Off
  <2>3. u # t /\ u \notin OnHub(t) /\ hw'[u] = hw[u] /\ at'[u] = at[u]
    BY <2>1, <2>2
  <2>4. CASE devices[i].parent = NULL
    BY <1>6, <2>1, <2>3, <2>4 DEF Represents
  <2>5. CASE devices[i].parent # NULL
    <3>1. PICK g \in HubIds, h \in Hubs :
            hubs'[g].dev = devices'[i].parent /\ Serves(g, h)' /\ at'[u] = <<h, devices'[i].port>>
      BY <1>6, <2>1, <2>5 DEF Represents
    <3>2. h \in powered /\ h # t
      BY <3>1 DEF Serves
    <3>3. Serves(g, h)
      BY <1>3, <3>1, <3>2
    <3>4. hubs[g].dev = devices[i].parent /\ at[u] = <<h, devices[i].port>>
      BY <2>1, <2>3, <3>1
    <3>5. QED
      BY <2>1, <2>3, <2>5, <3>3, <3>4 DEF Represents
  <2>6. QED
    BY <2>3, <2>4, <2>5
<1>7. HubsServed'
  <2>1. \A h \in powered' : \E g \in HubIds : Serves(g, h)'
    BY <1>1, <1>3 DEF HubsServed
  <2>2. ASSUME NEW h \in Hubs, h \notin powered', NEW u \in Things, at'[u] \in {h} \X HubPorts
        PROVE  hw'[u] = Off
    <3>1. u # t
      BY <2>2
    <3>2. at[u] \in {h} \X HubPorts /\ hw'[u] = IF u \in OnHub(t) THEN Off ELSE hw[u]
      BY <2>2, <3>1
    <3>3. u \in OnHub(h)
      BY <3>2 DEF OnHub
    <3>4. CASE h = t
      BY <3>2, <3>3, <3>4
    <3>5. CASE h # t
      BY <1>1, <2>2, <3>2, <3>3, <3>5 DEF HubsServed
    <3>6. QED
      BY <3>4, <3>5
  <2>3. ASSUME NEW g \in HubIds, NEW u \in Things, hubs'[g].dev # NULL, Represents(hubs[g].dev, u)'
        PROVE  Serves(g, u)'
    <3>1. PICK d \in Ids : d = hubs[g].dev /\ d = hubs'[g].dev
      BY <1>1, <2>3 DEF TypeOK
    <3>2. Represents(d, u)'
      BY <2>3, <3>1
    <3>3. Represents(hubs[g].dev, u) /\ u # t
      BY <1>6, <3>1, <3>2
    <3>4. Serves(g, u)
      BY <1>1, <2>3, <3>3 DEF HubsServed
    <3>5. u \in powered
      BY <3>4 DEF Serves
    <3>6. QED
      BY <1>3, <3>3, <3>4, <3>5
  <2>4. \A h \in Hubs \ powered' : \A u \in OnHub(h)' : hw'[u] = Off
    BY <2>2 DEF OnHub
  <2>5. QED
    BY <2>1, <2>3, <2>4 DEF HubsServed
<1>8. QED
  BY <1>4, <1>5, <1>7

LEMMA UnplugBus ==
  ASSUME UsbInv, UsbInv', BusInv, NEW t \in Things, Unplug(t)
  PROVE  BusInv'
<1> HIDE DEF Frame
<1>1. /\ halt = "no" /\ at[t] # Nowhere
      /\ at' = [at EXCEPT ![t] = Nowhere]
      /\ hw' = [u \in Things |-> IF u = t \/ u \in OnHub(t) THEN Off ELSE hw[u]]
      /\ powered' = powered \ {t}
      /\ UNCHANGED <<devices, hubs, stack, halt, missed>>
  BY DEF Unplug, table, drivers
<1>2. Live /\ Plugged /\ Numbered /\ at \in [Things -> Places \cup {Nowhere}] /\ Nowhere \notin Places
  BY <1>1, LiveBus, GoingParts, UsbAssumption DEF TypeOK
<1>3. \A u \in Things : at'[u] = IF u = t THEN Nowhere ELSE at[u]
  BY <1>1, <1>2
<1>4. Plugged'
  BY <1>1, <1>2, <1>3 DEF Plugged, Things
<1>5. Numbered'
  BY <1>1, <1>2 DEF Numbered, Enumerating, Top, Used
<1>6. ASSUME ~missed' PROVE Exclusive'
  <2>1. Bus
    BY <1>1, <1>6, LiveBus
  <2>2. TypeOK /\ \A i \in Ids : Used(i) => devices[i].address # hw'[t]
    BY <1>1, <2>1, BusParts, DeviceFields DEF Off
  <2>3. \A h \in Hubs : Nowhere \notin {h} \X HubPorts
    BY <1>2 DEF Places
  <2>4. /\ HubsServed' /\ ServesKept
        /\ \A i \in Ids, u \in Things : u # t /\ u \notin OnHub(t) /\ Represents(i, u) => Represents(i, u)'
    BY <1>1, <1>3, <2>1, <2>2, <2>3, PowerLost
  <2>5. Traces'
    <3>1. \A p : (Expected(p)' <=> Expected(p)) /\ (Resetting(p)' <=> Resetting(p))
      BY <1>1 DEF Expected, Resetting, Enumerating, Top
    <3>2. SUFFICES ASSUME NEW u \in Things, hw'[u] # Off PROVE at'[u] # Nowhere /\ Traced(u)'
      BY DEF Traces
    <3>3. u # t /\ u \notin OnHub(t) /\ hw'[u] = hw[u] /\ at'[u] = at[u]
      BY <1>1, <1>3, <3>2
    <3>4. at[u] # Nowhere /\ Traced(u)
      BY <2>1, <3>2, <3>3, BusParts DEF Traces
    <3>5. QED
      BY <1>1, <2>4, <3>1, <3>3, <3>4 DEF Traced, Used
  <2>6. HandlesFit'
    <3>1. SUFFICES ASSUME NEW i \in DOMAIN stack PROVE Handles(stack[i])'
      BY <1>1 DEF HandlesFit
    <3>2. stack # <<>> /\ stack \in Seq(Frame)
      BY <2>1, <3>1, BusParts
    <3>3. PICK e \in Frame : e = stack[i] /\ e = stack'[i]
      BY <1>1, <3>2, Stacked
    <3>4. Handles(e) /\ FrameOK(e)
      BY <2>1, <3>3, BusParts DEF HandlesFit, Calls, FramesOK
    <3>5. e.fn = "handle" => e.hub \in HubIds /\ e.port \in HubPorts
      BY <3>4 DEF FrameOK, HandleOK
    <3>6. e.fn = "handle" /\ e.pc # "status" =>
            e.hubThing \in Hubs /\ (\A h \in powered : h = e.hubThing <=> Serves(e.hub, h))'
      BY <2>4, <3>4, <3>5 DEF Handles, ServesKept
    <3>7. ASSUME e.fn = "handle", e.pc = "clear", e.todo = {} PROVE At(<<e.hubThing, e.port>>)' = {}
      <4>1. At(<<e.hubThing, e.port>>) = {} /\ <<e.hubThing, e.port>> # Nowhere
        BY <1>2, <3>4, <3>5, <3>6, <3>7 DEF Handles, Places
      <4>2. QED
        BY <1>3, <4>1 DEF At
    <3>8. Handles(e)'
      BY <3>6, <3>7 DEF Handles
    <3>9. QED
      BY <3>3, <3>8
  <2>7. OneLevel'
    BY <1>1, <2>1, BusParts DEF OneLevel
  <2>8. QED
    BY <2>4, <2>5, <2>6, <2>7 DEF Exclusive
<1>7. QED
  BY <1>4, <1>5, <1>6 DEF BusInv

(* A port is reset, and what is there now answers at address 0.             *)
LEMMA ResetBus ==
  ASSUME Bus, NEW t \in Things, Resets(t), UNCHANGED <<at, devices, hubs>>,
         \A i \in Ids : devices[i].address # 0, at[t] # Nowhere, Expected(at[t])',
         \A h \in Hubs : at[t] \in {h} \X HubPorts => h # t /\ h \in powered,
         \A u \in Things : u # t /\ hw[u] # Off => \E i \in Ids : Represents(i, u)
  PROVE  Traces' /\ HubsServed' /\ ServesKept
<1>1. TypeOK
  BY BusParts
<1>2. \A u \in Things : hw'[u] = IF u = t THEN 0 ELSE IF u \in OnHub(t) THEN Off ELSE hw[u]
  BY DEF Resets
<1>3. /\ HubsServed' /\ ServesKept
      /\ \A i \in Ids, u \in Things : u # t /\ u \notin OnHub(t) /\ Represents(i, u) => Represents(i, u)'
  <2>1. powered' = powered \ {t} /\ at' = at /\ hw'[t] = 0
    BY <1>2 DEF Resets
  <2>2. \A u \in Things : u # t => hw'[u] = IF u \in OnHub(t) THEN Off ELSE hw[u]
    BY <1>2
  <2>3. \A u \in Things : u # t => at'[u] = at[u]
    BY <2>1
  <2>4. \A i \in Ids : Used(i) => devices[i].address # hw'[t]
    BY <2>1
  <2>5. \A h \in Hubs : at'[t] \in {h} \X HubPorts => h # t /\ h \in powered
    BY <2>1
  <2>6. QED
    BY <2>1, <2>2, <2>3, <2>4, <2>5, PowerLost
<1>4. Traces'
  <2>1. SUFFICES ASSUME NEW u \in Things, hw'[u] # Off PROVE at'[u] # Nowhere /\ Traced(u)'
    BY DEF Traces
  <2>2. CASE u = t
    BY <1>2, <2>2 DEF Traced
  <2>3. CASE u # t
    <3>1. u \notin OnHub(t) /\ hw[u] # Off
      BY <1>2, <2>1, <2>3
    <3>2. at[u] # Nowhere
      BY <3>1, BusParts DEF Traces
    <3>3. PICK i \in Ids : Represents(i, u)
      BY <2>3, <3>1
    <3>4. Represents(i, u)'
      BY <1>3, <2>3, <3>1, <3>3
    <3>5. QED
      BY <3>2, <3>4 DEF Traced
  <2>4. QED
    BY <2>2, <2>3
<1>5. QED
  BY <1>3, <1>4

LEMMA RootResetBus ==
  ASSUME UsbInv, UsbInv', BusInv, RootReset
  PROVE  BusInv'
<1> DEFINE t == Top  p == t.port  there == At(<<Root, p>>)  f == [t EXCEPT !.pc = "enumerate"]
<1>1. /\ Running("poll", "settle") /\ UNCHANGED <<at, devices, hubs, halt>>
      /\ \/ /\ \E u \in there : Resets(u)
            /\ Continue(f) /\ UNCHANGED missed
         \/ stack' = Onwards /\ missed' = TRUE
         \/ /\ stack' = Onwards /\ missed' = (missed \/ there # {})
            /\ UNCHANGED <<hw, powered>>
  BY DEF RootReset, table, drivers, Goto
<1>2. /\ Live /\ stack # <<>> /\ halt = "no" /\ t \in Frame /\ t.fn = "poll" /\ t.pc = "settle" /\ FrameOK(t)
      /\ Quiet /\ Top.pc \notin {"descriptor", "setAddress"} /\ Top.fn = t.fn
  BY <1>1, AtTopQuiet
<1>3. Plugged /\ Numbered /\ Plugged'
  BY <1>1, <1>2, LiveBus, SamePlugged
<1>4. stack \in Seq(Frame) /\ stack' \in Seq(Frame) /\ TypeOK' /\ Calls /\ halt' = "no"
  BY <1>1, <1>2, GoingParts DEF UsbInv
<1>5. PICK n \in Frame : n = NextPort /\ n.fn = "poll" /\ n.pc = "status"
  BY <1>2, NextPortOK
<1>6. stack' = Onwards => Continue(n)
  BY <1>5 DEF Onwards, Continue
<1>7. f.fn = "poll" /\ f.pc = "enumerate" /\ f.port = p
  <2> HIDE DEF t
  <2>1. f.fn = t.fn /\ f.pc = "enumerate" /\ f.port = t.port
    BY <1>2 DEF Frame
  <2>2. QED
    BY <1>2, <2>1
<1> HIDE DEF f, Frame
<1>8. Numbered'
  <2>1. ~Enumerating({"descriptor", "setAddress"})
    BY <1>2 DEF Enumerating
  <2>2. Top'.fn = "poll"
    <3>1. CASE Continue(f)
      <4>1. PICK g \in Frame : g = f
        BY <1>2, <1>4, <3>1, FrameOf
      <4>2. Top' = g
        BY <1>2, <1>4, <3>1, <4>1, TopReplaced
      <4>3. QED
        BY <1>7, <4>1, <4>2
    <3>2. CASE stack' = Onwards
      <4>1. Top' = n
        BY <1>2, <1>4, <1>6, <3>2, TopReplaced
      <4>2. QED
        BY <1>5, <4>1
    <3>3. QED
      BY <1>1, <3>1, <3>2
  <2>3. ~Enumerating({"setAddress"})'
    BY <2>2 DEF Enumerating
  <2>4. \A i \in Ids : Used(i)' => Used(i) /\ devices'[i].address = devices[i].address
    BY <1>1 DEF Used
  <2>5. QED
    BY <1>3, <1>4, <2>1, <2>3, <2>4, NumberedKept
<1>9. CASE stack' = Onwards /\ missed' = TRUE
  BY <1>3, <1>8, <1>9 DEF BusInv
<1>10. CASE stack' = Onwards /\ missed' = (missed \/ there # {}) /\ UNCHANGED <<hw, powered>>
  <2>1. missed => missed'
    BY <1>10
  <2>2. BusSame
    BY <1>1, <1>10, <2>1, BusSameTable
  <2>3. n.fn = Top.fn /\ n.pc # "setAddress" /\ n.fn # "handle" /\ Continue(n)
    BY <1>2, <1>5, <1>6, <1>10
  <2>4. QED
    BY <1>2, <2>2, <2>3, QuietGoesOn
<1>11. ASSUME NEW u \in there, Resets(u), Continue(f), UNCHANGED missed PROVE BusInv'
  <2>1. u \in Things /\ at[u] = <<Root, p>>
    BY <1>11 DEF At
  <2>2. SUFFICES ASSUME ~missed' PROVE Exclusive'
    BY <1>3, <1>8 DEF BusInv
  <2>3. Bus
    BY <1>2, <1>11, <2>2, LiveBus
  <2>4. PICK g \in Frame : g = f
    BY <1>2, <1>4, <1>11, FrameOf
  <2>5. Continue(g)
    BY <1>11, <2>4
  <2>6. Top' = g /\ stack' # <<>>
    BY <1>2, <1>4, <2>4, <2>5, TopReplaced
  <2>7. Expected(at[u])'
    <3>1. Top'.fn = "poll" /\ Top'.pc = "enumerate" /\ Top'.port = p /\ at'[u] = <<Root, p>>
      BY <1>1, <1>7, <2>1, <2>4, <2>6
    <3>2. QED
      BY <2>6, <3>1 DEF Expected
  <2>8. \A i \in Ids : devices[i].address # 0
    BY <1>2, <1>3 DEF Numbered, Enumerating
  <2>9. p \in RootPorts
    BY <1>2 DEF FrameOK, PollOK
  <2>10. at[u] # Nowhere /\ \A h \in Hubs : at[u] \notin {h} \X HubPorts
    BY <2>1, <2>9, UsbAssumption DEF Places, RootPlaces
  <2>11. \A v \in Things : v # u /\ hw[v] # Off => \E i \in Ids : Represents(i, v)
    BY <1>2, <2>3, QuietTraces
  <2>12. UNCHANGED <<at, devices, hubs>>
    BY <1>1
  <2>13. Traces' /\ HubsServed' /\ ServesKept
    BY <1>11, <2>1, <2>3, <2>7, <2>8, <2>10, <2>11, <2>12, ResetBus
  <2>14. HandlesFit /\ OneLevel
    BY <2>3, BusParts
  <2>15. HandlesBelow(Len(stack) - 1)
    BY <1>2, <1>4, <2>12, <2>13, <2>14, HandlesStay
  <2>16. Handles(g)' /\ g.fn = Top.fn
    BY <1>2, <1>7, <2>4 DEF Handles
  <2>17. HandlesFit' /\ OneLevel'
    BY <1>2, <1>4, <2>5, <2>14, <2>15, <2>16, FitsReplaced
  <2>18. QED
    BY <2>13, <2>17 DEF Exclusive
<1>12. QED
  BY <1>1, <1>9, <1>10, <1>11

(* enumerateDevice is called for what is expected.                          *)
LEMMA ExpectedCall ==
  ASSUME UsbInv, UsbInv', BusInv, halt = "no", BusSame, stack # <<>>, Top.pc = "enumerate",
         NEW f \in Frame, NEW g \in Frame, CallFrom(f, g), f.fn = Top.fn, g.fn = "enumerate",
         g.pc = "allocate", Bus => Handles(f)', \A place : Expected(place) => Expected(place)'
  PROVE  BusInv'
<1> HIDE DEF Frame
<1>1. Live /\ Plugged /\ Numbered /\ stack \in Seq(Frame) /\ Calls /\ UNCHANGED at
  BY LiveBus, GoingParts DEF BusSame
<1>2. Top' = g
  BY <1>1, TopCalled
<1>3. Numbered'
  <2>1. ~Enumerating({"descriptor", "setAddress"}) /\ ~Enumerating({"setAddress"})' /\ TypeOK'
    BY <1>2 DEF Enumerating, UsbInv
  <2>2. QED
    BY <1>1, <2>1, NumberedKept DEF BusSame
<1>4. ASSUME ~missed' PROVE Exclusive'
  <2>1. Bus
    BY <1>4, LiveBus DEF BusSame
  <2>2. /\ HubsServed' /\ ServesKept
        /\ \A i \in Ids, t \in Things : Represents(i, t)' <=> Represents(i, t)
    BY <2>1, SameBus
  <2>3. Traces'
    <3>1. SUFFICES ASSUME NEW t \in Things, hw'[t] # Off PROVE at'[t] # Nowhere /\ Traced(t)'
      BY DEF Traces
    <3>2. hw'[t] = hw[t] /\ at'[t] = at[t]
      BY DEF BusSame
    <3>3. at[t] # Nowhere /\ Traced(t)
      BY <2>1, <3>1, <3>2, BusParts DEF Traces
    <3>4. ~Resetting(at[t])
      BY DEF Resetting
    <3>5. Expected(at[t]) => Expected(at[t])'
      <4>1. Expected(at[t]) => (Expected(at[t]))'
        <5> DEFINE a == at[t]
        <5>1. PICK x : x = a /\ x = a'
          BY <3>2
        <5>2. Expected(x) => Expected(x)'
          OBVIOUS
        <5>3. QED
          BY <5>1, <5>2
      <4>2. QED
        BY <4>1
    <3>6. QED
      BY <2>2, <3>2, <3>3, <3>4, <3>5 DEF Traced
  <2>4. HandlesBelow(Len(stack) - 1)
    BY <1>1, <2>1, <2>2, BusParts, HandlesStay
  <2>5. Handles(f)' /\ Handles(g)' /\ g.fn # "hubProbe" /\ OneLevel
    BY <2>1, BusParts DEF Handles
  <2>6. HandlesFit' /\ OneLevel'
    BY <1>1, <2>4, <2>5, FitsCalled
  <2>7. QED
    BY <2>2, <2>3, <2>6 DEF Exclusive
<1>5. QED
  BY <1>1, <1>3, <1>4, SamePlugged DEF BusInv

LEMMA EnumerateRootBus ==
  ASSUME UsbInv, UsbInv', BusInv, EnumerateRoot
  PROVE  BusInv'
<1> DEFINE t == Top  h == Enumeration(0, NULL, t.port)
<1>1. /\ Running("poll", "enumerate") /\ BusSame /\ CallFrom(NextPort, h)
  BY BusSameTable DEF EnumerateRoot, world, table, drivers
<1>2. /\ Live /\ stack # <<>> /\ halt = "no" /\ t \in Frame /\ t.fn = "poll" /\ t.pc = "enumerate"
      /\ stack \in Seq(Frame) /\ stack' \in Seq(Frame)
  BY <1>1, AtTop DEF UsbInv, Live
<1>3. h.fn = "enumerate" /\ h.pc = "allocate" /\ h.hub = 0 /\ h.port = t.port
  BY DEF Enumeration, Call
<1>4. PICK n \in Frame : n = NextPort /\ n.fn = "poll"
  BY <1>2, NextPortOK
<1> HIDE DEF t, h, Frame
<1>5. PICK g \in Frame : g = h
  BY <1>1, <1>2, FramesOf
<1>6. CallFrom(n, g)
  BY <1>1, <1>4, <1>5
<1>7. Top' = g /\ stack' # <<>>
  BY <1>2, <1>6, TopCalled
<1>8. ASSUME NEW place, Expected(place) PROVE Expected(place)'
  <2>1. place = <<Root, t.port>>
    BY <1>2, <1>8 DEF Expected, Enumerating, t
  <2>2. Enumerating({"allocate"})' /\ Top'.hub = 0 /\ Top'.port = t.port
    BY <1>3, <1>5, <1>7 DEF Enumerating
  <2>3. QED
    BY <1>7, <2>1, <2>2 DEF Expected
<1>9. Handles(n)'
  BY <1>4 DEF Handles
<1>10. Top.pc = "enumerate" /\ n.fn = Top.fn /\ g.fn = "enumerate" /\ g.pc = "allocate"
  BY <1>2, <1>3, <1>4, <1>5 DEF t
<1>11. QED
  BY <1>1, <1>2, <1>6, <1>8, <1>9, <1>10, ExpectedCall

LEMMA EnumerateChildBus ==
  ASSUME UsbInv, UsbInv', BusInv, EnumerateChild
  PROVE  BusInv'
<1> DEFINE t == Top  h == Enumeration(t.hub, hubs[t.hub].dev, t.port)  f == [t EXCEPT !.pc = "done"]
<1>1. /\ Running("handle", "enumerate") /\ BusSame /\ CallFrom(f, h)
  BY BusSameTable DEF EnumerateChild, world, table, drivers
<1>2. /\ Live /\ stack # <<>> /\ halt = "no" /\ t \in Frame /\ t.fn = "handle" /\ t.pc = "enumerate"
      /\ stack \in Seq(Frame) /\ stack' \in Seq(Frame) /\ FrameOK(t) /\ Calls
  BY <1>1, AtTop, GoingParts DEF UsbInv, Live
<1>3. h.fn = "enumerate" /\ h.pc = "allocate" /\ h.hub = t.hub /\ h.port = t.port /\ t.hub # 0
  BY <1>2 DEF Enumeration, Call, FrameOK, HandleOK, HubIds
<1> HIDE DEF t, h
<1>4. f.fn = "handle" /\ f.pc = "done" /\ f.hub = t.hub /\ f.hubThing = t.hubThing
  BY <1>2 DEF Frame
<1> HIDE DEF f, Frame
<1>5. PICK e \in Frame, g \in Frame : e = f /\ g = h
  BY <1>1, <1>2, FramesOf
<1>6. CallFrom(e, g)
  BY <1>1, <1>5
<1>7. Top' = g /\ stack' # <<>> /\ stack'[Len(stack') - 1] = e
  BY <1>2, <1>6, TopCalled
<1>8. ASSUME NEW place, Expected(place) PROVE Expected(place)'
  <2>1. place = <<t.hubThing, t.port>>
    BY <1>2, <1>8 DEF Expected, Enumerating, t
  <2>2. Enumerating({"allocate"})' /\ Top'.hub # 0 /\ Top'.port = t.port
    BY <1>3, <1>5, <1>7 DEF Enumerating
  <2>3. place = <<stack'[Len(stack') - 1].hubThing, Top'.port>>
    BY <1>4, <1>5, <1>7, <2>1, <2>2
  <2>4. QED
    BY <1>7, <2>2, <2>3 DEF Expected
<1>9. ASSUME Bus PROVE Handles(e)'
  <2>1. ServesKept /\ UNCHANGED at /\ HandlesFit
    BY <1>1, <1>9, SameBus, BusParts DEF BusSame
  <2>2. HandlesBelow(Len(stack))
    BY <1>2, <2>1, HandlesStay
  <2>3. Len(stack) \in 1..Len(stack) /\ t = stack[Len(stack)]
    BY <1>2, Stacked DEF t
  <2>4. PICK k \in Frame : k = t
    BY <1>2
  <2>5. Handles(k)'
    BY <2>2, <2>3, <2>4 DEF HandlesBelow
  <2>6. e.fn = "handle" /\ e.pc = "done" /\ e.hub = k.hub /\ e.hubThing = k.hubThing
        /\ k.fn = "handle" /\ k.pc = "enumerate"
    BY <1>2, <1>4, <1>5, <2>4
  <2>7. QED
    BY <2>5, <2>6 DEF Handles
<1>10. Top.pc = "enumerate" /\ e.fn = Top.fn /\ g.fn = "enumerate" /\ g.pc = "allocate"
  BY <1>2, <1>3, <1>4, <1>5 DEF t
<1>11. QED
  BY <1>1, <1>2, <1>6, <1>8, <1>9, <1>10, ExpectedCall

(* A device is added to the table.                                          *)
LEMMA AddedBus ==
  ASSUME Bus, NEW n \in Ids, ~Used(n), UNCHANGED <<at, hw, powered>>,
         \A j \in Ids : j # n => devices'[j] = devices[j],
         \A g \in HubIds : hubs'[g].dev = hubs[g].dev
  PROVE  /\ \A g \in HubIds, h \in Things : Serves(g, h)' <=> Serves(g, h)
         /\ \A i \in Ids, t \in Things : i # n => (Represents(i, t)' <=> Represents(i, t))
         /\ HubsServed' /\ ServesKept
<1>1. TypeOK /\ HubsServed /\ Live
  BY BusParts
<1>2. \A g \in HubIds : hubs[g].dev # NULL => hubs[g].dev \in Ids /\ hubs[g].dev # n
  BY <1>1, SlotDevice
<1>3. ASSUME NEW g \in HubIds, NEW h \in Things PROVE Serves(g, h)' <=> Serves(g, h)
  <2>1. CASE hubs[g].dev = NULL
    BY <2>1 DEF Serves
  <2>2. CASE hubs[g].dev # NULL
    BY <1>2, <2>2 DEF Serves
  <2>3. QED
    BY <2>1, <2>2
<1>4. ASSUME NEW i \in Ids, NEW t \in Things, i # n PROVE Represents(i, t)' <=> Represents(i, t)
  <2>1. devices'[i] = devices[i] /\ (Used(i)' <=> Used(i))
    BY <1>4 DEF Used
  <2>2. /\ (\E g \in HubIds, h \in Hubs :
             hubs[g].dev = devices[i].parent /\ Serves(g, h) /\ at[t] = <<h, devices[i].port>>)'
        <=> \E g \in HubIds, h \in Hubs :
             hubs[g].dev = devices[i].parent /\ Serves(g, h) /\ at[t] = <<h, devices[i].port>>
    BY <1>3, <2>1 DEF Things
  <2>3. QED
    BY <2>1, <2>2 DEF Represents
<1>5. HubsServed'
  <2>1. \A h \in powered : h \in Things
    BY <1>1 DEF TypeOK, Things
  <2>2. \A h \in powered' : \E g \in HubIds : Serves(g, h)'
    BY <1>1, <1>3, <2>1 DEF HubsServed
  <2>3. \A h \in Hubs \ powered' : \A t \in OnHub(h)' : hw'[t] = Off
    BY <1>1 DEF HubsServed, OnHub
  <2>4. ASSUME NEW g \in HubIds, NEW t \in Things, hubs'[g].dev # NULL, Represents(hubs[g].dev, t)'
        PROVE  Serves(g, t)'
    <3>1. PICK j \in Ids : j = hubs[g].dev /\ j = hubs'[g].dev /\ j # n
      BY <1>2, <2>4
    <3>2. Represents(j, t)'
      BY <2>4, <3>1
    <3>3. Represents(hubs[g].dev, t)
      BY <1>4, <3>1, <3>2
    <3>4. QED
      BY <1>1, <1>3, <2>4, <3>3 DEF HubsServed
  <2>5. QED
    BY <2>2, <2>3, <2>4 DEF HubsServed
<1>6. ServesKept
  BY <1>1, <1>3 DEF ServesKept, TypeOK, Things
<1>7. QED
  BY <1>3, <1>4, <1>5, <1>6

(* What is expected where a device is allocated.                            *)
LEMMA AllocatedFor ==
  ASSUME Bus, stack # <<>>, Top.fn = "enumerate", Top.pc = "allocate", FrameOK(Top),
         NEW t \in Things, hw[t] = 0, Expected(at[t])
  PROVE  \/ Top.parent = NULL /\ at[t] = <<Root, Top.port>>
         \/ /\ Top.parent # NULL
            /\ \E g \in HubIds, h \in Hubs :
                 hubs[g].dev = Top.parent /\ Serves(g, h) /\ at[t] = <<h, Top.port>>
<1> HIDE DEF Frame
<1>1. \/ Top.hub = 0 /\ at[t] = <<Root, Top.port>>
      \/ Top.hub # 0 /\ at[t] = <<stack[Len(stack) - 1].hubThing, Top.port>>
  BY DEF Expected
<1>2. EnumerateOK(Top)
  BY DEF FrameOK
<1>3. CASE Top.hub = 0
  BY <1>1, <1>2, <1>3 DEF EnumerateOK
<1>4. CASE Top.hub # 0
  <2>1. Top.hub \in HubIds /\ Top.parent # NULL /\ hubs[Top.hub].dev = Top.parent /\ Top.port \in HubPorts
    BY <1>2, <1>4 DEF EnumerateOK
  <2>2. stack \in Seq(Frame) /\ Calls /\ HandlesFit /\ Top.fn \notin Callbacks
    BY BusParts DEF Callbacks
  <2>3. PICK c \in Frame : c = stack[Len(stack) - 1]
    BY <2>2, Below
  <2>4. Called(c, Top) /\ Handles(c)
    BY <2>2, <2>3, Below DEF HandlesFit
  <2>5. c.fn = "handle" /\ c.pc = "done" /\ c.hub = Top.hub
    BY <1>4, <2>4 DEF Called
  <2>6. c.hubThing \in Hubs /\ \A h \in powered : h = c.hubThing <=> Serves(c.hub, h)
    BY <2>4, <2>5 DEF Handles
  <2>7. at[t] = <<c.hubThing, Top.port>>
    BY <1>1, <1>4, <2>3
  <2>8. c.hubThing \in powered
    BY <2>1, <2>6, <2>7, HubHasPower DEF Off
  <2>9. Serves(Top.hub, c.hubThing)
    BY <2>5, <2>6, <2>8
  <2>10. QED
    BY <2>1, <2>6, <2>7, <2>9
<1>5. QED
  BY <1>3, <1>4

LEMMA ResultKeeps ==
  ASSUME TypeOK, NEW i, Result(i)
  PROVE  \A g \in HubIds : hubs'[g].dev = hubs[g].dev
<1> DEFINE R == [dev : Ids \cup {NULL}, children : [HubPorts -> Ids \cup {NULL}]]
<1>1. hubs \in [HubIds -> R]
  BY DEF TypeOK
<1>2. CASE UNCHANGED hubs
  BY <1>2
<1>3. CASE hubs' = [hubs EXCEPT ![Top.hub].children[Top.port] = i]
  <2>1. PICK k : k = Top.hub
    OBVIOUS
  <2>2. SUFFICES ASSUME NEW g \in HubIds PROVE hubs'[g].dev = hubs[g].dev
    OBVIOUS
  <2>3. hubs'[g] = IF g = k THEN [hubs[g] EXCEPT !.children = [@ EXCEPT ![Top.port] = i]] ELSE hubs[g]
    BY <1>1, <1>3, <2>1, <2>2
  <2>4. hubs[g] \in R
    BY <1>1, <2>2
  <2>5. QED
    BY <2>3, <2>4
<1>4. QED
  BY <1>2, <1>3 DEF Result

LEMMA AllocateDeviceBus ==
  ASSUME UsbInv, UsbInv', BusInv, AllocateDevice
  PROVE  BusInv'
<1> DEFINE t == Top  free == {j \in Ids : ~Used(j)}
           i == CHOOSE j \in free : \A k \in free : j <= k
           d == [NoDevice EXCEPT !.parent = t.parent, !.port = t.port, !.address = 0]
           f == [t EXCEPT !.dev = i, !.pc = "descriptor"]
<1>1. /\ Running("enumerate", "allocate") /\ UNCHANGED <<at, hw, powered, halt>>
      /\ \/ /\ free # {}
            /\ devices' = [devices EXCEPT ![i] = d] /\ Result(i) /\ Continue(f) /\ UNCHANGED missed
         \/ Return /\ missed' = TRUE /\ UNCHANGED devices
  BY DEF AllocateDevice, world, table
<1>2. /\ Live /\ stack # <<>> /\ halt = "no" /\ t \in Frame /\ t.fn = "enumerate" /\ t.pc = "allocate"
      /\ stack \in Seq(Frame) /\ stack' \in Seq(Frame) /\ FrameOK(t) /\ Calls /\ TypeOK /\ TypeOK'
  BY <1>1, AtTop, GoingParts DEF UsbInv, Live
<1>3. Plugged /\ Numbered /\ Plugged' /\ ~Enumerating({"descriptor", "setAddress"})
  BY <1>1, <1>2, LiveBus, SamePlugged DEF Enumerating
<1>4. CASE Return /\ missed' = TRUE /\ UNCHANGED devices
  <2> HIDE DEF Frame
  <2>1. stack' # <<>> => Top'.pc # "setAddress"
    BY <1>2, <1>4, PoppedAt
  <2>2. ~Enumerating({"setAddress"})'
    BY <2>1 DEF Enumerating
  <2>3. \A j \in Ids : Used(j)' => Used(j) /\ devices'[j].address = devices[j].address
    BY <1>4 DEF Used
  <2>4. Numbered'
    BY <1>2, <1>3, <2>2, <2>3, NumberedKept
  <2>5. QED
    BY <1>3, <1>4, <2>4 DEF BusInv
<1>5. CASE /\ free # {}
           /\ devices' = [devices EXCEPT ![i] = d] /\ Result(i) /\ Continue(f) /\ UNCHANGED missed
  <2>1. i \in free
    <3>1. free \in SUBSET Nat
      BY Numbers
    <3> HIDE DEF free
    <3>2. QED
      BY <1>5, <3>1, LeastChosen
  <2> HIDE DEF i
  <2>2. PICK n \in Ids : n = i /\ ~Used(n)
    BY <2>1
  <2> HIDE DEF free
  <2>3. d.parent = t.parent /\ d.port = t.port /\ d.address = 0
    BY DEF NoDevice
  <2> HIDE DEF d, t
  <2>4. d # NoDevice
    BY <2>3 DEF NoDevice, Off
  <2>5. f.pc = "descriptor" /\ f.fn = "enumerate" /\ f.dev = n
    BY <1>2, <2>2 DEF Frame
  <2> HIDE DEF f, Frame
  <2>6. \A j \in Ids : devices'[j] = IF j = n THEN d ELSE devices[j]
    BY <1>2, <1>5, <2>2 DEF TypeOK
  <2>7. Used(n)' /\ \A j \in Ids : j # n => (Used(j)' <=> Used(j)) /\ devices'[j] = devices[j]
    BY <2>2, <2>4, <2>6 DEF Used
  <2>8. \A g \in HubIds : hubs'[g].dev = hubs[g].dev
    <3>1. Result(n)
      BY <1>5, <2>2
    <3>2. QED
      BY <1>2, <3>1, ResultKeeps
  <2>9. PICK e \in Frame : e = f
    BY <1>2, <1>5, FrameOf
  <2>10. Continue(e)
    BY <1>5, <2>9
  <2>11. Top' = e /\ stack' # <<>>
    BY <1>2, <2>10, TopReplaced
  <2>12. Numbered'
    <3>1. \A j \in Ids : devices[j].address # 0
      BY <1>3 DEF Numbered
    <3>2. \A j \in Ids : devices'[j].address = IF j = n THEN 0 ELSE devices[j].address
      BY <2>3, <2>6
    <3>3. \A j, k \in Ids : Used(j)' /\ Used(k)' /\ devices'[j].address = devices'[k].address => j = k
      BY <1>3, <2>7, <3>1, <3>2 DEF Numbered
    <3>4. Enumerating({"descriptor", "setAddress"})' /\ Top'.dev = n /\ ~Enumerating({"setAddress"})'
      BY <2>5, <2>9, <2>11 DEF Enumerating
    <3>5. \A j \in Ids : devices'[j].address = 0 => j = n
      BY <3>1, <3>2
    <3>6. QED
      BY <3>3, <3>4, <3>5 DEF Numbered
  <2>13. SUFFICES ASSUME ~missed' PROVE Exclusive'
    BY <1>3, <2>12 DEF BusInv
  <2>14. Bus
    BY <1>2, <1>5, <2>13, LiveBus
  <2>15. /\ \A g \in HubIds, h \in Things : Serves(g, h)' <=> Serves(g, h)
         /\ \A j \in Ids, u \in Things : j # n => (Represents(j, u)' <=> Represents(j, u))
         /\ HubsServed' /\ ServesKept
    BY <1>1, <2>2, <2>7, <2>8, <2>14, AddedBus
  <2>16. Traces'
    <3>1. SUFFICES ASSUME NEW u \in Things, hw'[u] # Off PROVE at'[u] # Nowhere /\ Traced(u)'
      BY DEF Traces
    <3>2. hw'[u] = hw[u] /\ at'[u] = at[u]
      BY <1>1
    <3>3. at[u] # Nowhere /\ Traced(u)
      BY <2>14, <3>1, <3>2, BusParts DEF Traces
    <3>4. CASE \E j \in Ids : Represents(j, u)
      <4>1. PICK j \in Ids : Represents(j, u)
        BY <3>4
      <4>2. j # n
        BY <2>2, <4>1 DEF Represents
      <4>3. Represents(j, u)'
        BY <2>15, <4>1, <4>2
      <4>4. QED
        BY <3>2, <3>3, <4>3 DEF Traced
    <3>5. CASE hw[u] = 0 /\ Expected(at[u])
      <4>1. Top.fn = "enumerate" /\ Top.pc = "allocate" /\ FrameOK(Top)
        BY <1>2 DEF t
      <4>2. \/ t.parent = NULL /\ at[u] = <<Root, t.port>>
            \/ /\ t.parent # NULL
               /\ \E g \in HubIds, h \in Hubs :
                    hubs[g].dev = t.parent /\ Serves(g, h) /\ at[u] = <<h, t.port>>
        BY <1>2, <2>14, <3>5, <4>1, AllocatedFor DEF t
      <4>3. Used(n)' /\ hw'[u] = devices'[n].address /\ devices'[n].parent = t.parent /\ devices'[n].port = t.port
        BY <2>3, <2>6, <2>7, <3>2, <3>5
      <4>4. Represents(n, u)'
        <5>1. CASE t.parent = NULL
          BY <3>2, <4>2, <4>3, <5>1 DEF Represents
        <5>2. CASE t.parent # NULL
          <6>1. PICK g \in HubIds, h \in Hubs :
                  hubs[g].dev = t.parent /\ Serves(g, h) /\ at[u] = <<h, t.port>>
            BY <4>2, <5>2
          <6>2. hubs'[g].dev = devices'[n].parent /\ Serves(g, h)' /\ at'[u] = <<h, devices'[n].port>>
            BY <2>8, <2>15, <3>2, <4>3, <6>1 DEF Things
          <6>3. QED
            BY <4>3, <5>2, <6>2 DEF Represents
        <5>3. QED
          BY <5>1, <5>2
      <4>5. QED
        BY <3>2, <3>3, <4>4 DEF Traced
    <3>6. ~Resetting(at[u])
      BY <1>2 DEF Resetting, t
    <3>7. QED
      BY <3>3, <3>4, <3>5, <3>6 DEF Traced
  <2>17. HandlesFit /\ OneLevel
    BY <2>14, BusParts
  <2>18. HandlesBelow(Len(stack) - 1)
    BY <1>1, <1>2, <2>15, <2>17, HandlesStay
  <2>19. Handles(e)' /\ e.fn = Top.fn
    BY <1>2, <2>5, <2>9 DEF Handles, t
  <2>20. HandlesFit' /\ OneLevel'
    BY <1>2, <2>10, <2>17, <2>18, <2>19, FitsReplaced
  <2>21. QED
    BY <2>15, <2>16, <2>20 DEF Exclusive
<1>6. QED
  BY <1>1, <1>4, <1>5

-----------------------------------------------------------------------------
(* Devices are freed: no call that goes on points to them.                  *)
LEMMA NoneInvalidated ==
  ASSUME NEW st \in Seq(Frame), NEW D, Invalidated(st, D) \in Seq(Frame)
  PROVE  Invalidated(st, D) = st
<1>1. DOMAIN Invalidated(st, D) = DOMAIN st
  BY DEF Invalidated
<1>2. ASSUME NEW i \in DOMAIN st PROVE st[i].dev \notin D /\ st[i].parent \notin D
  <2> DEFINE e == Invalidated(st, D)[i]
             d == IF st[i].dev \in D THEN Freed ELSE st[i].dev
             p == IF st[i].parent \in D THEN Freed ELSE st[i].parent
  <2>1. e \in Frame
    <3> HIDE DEF Frame
    <3>1. DOMAIN Invalidated(st, D) = 1..Len(Invalidated(st, D))
      BY LenProperties
    <3>2. QED
      BY <1>1, <1>2, <3>1, ElementOfSeq
  <2>2. st[i] \in Frame
    <3> HIDE DEF Frame
    <3>1. DOMAIN st = 1..Len(st)
      BY LenProperties
    <3>2. QED
      BY <1>2, <3>1, ElementOfSeq
  <2>3. e = [st[i] EXCEPT !.dev = d, !.parent = p]
    BY <1>2 DEF Invalidated
  <2> HIDE DEF d, p, e
  <2>4. e.dev = d /\ e.parent = p
    BY <2>2, <2>3 DEF Frame
  <2>5. d \in Ids \cup {NULL} /\ p \in Ids \cup {NULL}
    BY <2>1, <2>4 DEF Frame
  <2>6. Freed \notin Ids \cup {NULL}
    BY Numbers DEF Freed, NULL
  <2>7. QED
    BY <2>5, <2>6 DEF d, p
<1> HIDE DEF Frame
<1>3. QED
  BY <1>2, NothingInvalidated

LEMMA Disconnected ==
  ASSUME UsbInv', NEW st \in Seq(Frame), NEW i, Disconnect(i, st)
  PROVE  /\ stack' = st
         /\ \A j \in Ids : devices'[j] = IF j \in Gone(i) THEN NoDevice ELSE devices[j]
<1> HIDE DEF Frame
<1> DEFINE D == Gone(i)
<1>1. stack' = Invalidated(st, D) /\ stack' \in Seq(Frame)
  BY DEF Disconnect, UsbInv
<1>2. \A j \in Ids : devices'[j] = IF j \in D THEN NoDevice ELSE devices[j]
  BY DEF Disconnect
<1> HIDE DEF D
<1>3. stack' = st
  BY <1>1, NoneInvalidated
<1>4. QED
  BY <1>2, <1>3 DEF D

(* The slots of freed hubs are given back, and no others.                   *)
LEMMA SlotsWithout ==
  ASSUME Live, UsbInv', halt' = "no", NEW D \in SUBSET Ids,
         \A j \in Ids : devices'[j] = IF j \in D THEN NoDevice ELSE devices[j],
         \A g \in HubIds : hubs'[g].dev = HubsWithout(D)[g].dev
  PROVE  \A g \in HubIds : hubs'[g].dev = IF hubs[g].dev \in D THEN NULL ELSE hubs[g].dev
<1> SUFFICES ASSUME NEW g \in HubIds
             PROVE  hubs'[g].dev = IF hubs[g].dev \in D THEN NULL ELSE hubs[g].dev
  OBVIOUS
<1>1. TypeOK /\ HubSlots
  BY GoingParts DEF Tree
<1>2. HubSlots'
  BY DEF UsbInv, Going, Tree
<1>3. HubsWithout(D)[g] =
        IF \E i \in D : devices[i].driver = "hub" /\ devices[i].data = g THEN NoHub ELSE hubs[g]
  BY DEF HubsWithout
<1>4. NoHub.dev = NULL
  BY DEF NoHub
<1>5. CASE \E i \in D : devices[i].driver = "hub" /\ devices[i].data = g
  <2>1. hubs[g].dev \in D
    BY <1>1, <1>5 DEF HubSlots
  <2>2. QED
    BY <1>3, <1>4, <1>5, <2>1
<1>6. CASE ~\E i \in D : devices[i].driver = "hub" /\ devices[i].data = g
  <2>1. hubs'[g].dev = hubs[g].dev
    BY <1>3, <1>6
  <2>2. hubs[g].dev \in D => ~Used(hubs[g].dev)'
    <3>1. SUFFICES ASSUME hubs[g].dev \in D PROVE ~Used(hubs[g].dev)'
      OBVIOUS
    <3>2. PICK d \in D : d = hubs[g].dev /\ d = hubs'[g].dev
      BY <2>1, <3>1
    <3>3. devices'[d] = NoDevice
      BY <3>2
    <3>4. QED
      BY <3>2, <3>3 DEF Used
  <2>3. hubs[g].dev \in D => FALSE
    <3>1. NULL \notin D
      BY Numbers DEF NULL
    <3>2. QED
      BY <1>2, <2>1, <2>2, <3>1 DEF HubSlots
  <2>4. QED
    BY <2>1, <2>3
<1>7. QED
  BY <1>5, <1>6

(* What stays in the table, as long as no hub with power is freed.          *)
LEMMA RemovedBus ==
  ASSUME Bus, NEW D \in SUBSET Ids, Closed(D), UNCHANGED <<at, hw, powered>>,
         \A j \in Ids : devices'[j] = IF j \in D THEN NoDevice ELSE devices[j],
         \A g \in HubIds : hubs'[g].dev = IF hubs[g].dev \in D THEN NULL ELSE hubs[g].dev,
         \A g \in HubIds, h \in Things : Serves(g, h) => hubs[g].dev \notin D
  PROVE  /\ HubsServed' /\ ServesKept
         /\ \A i \in Ids, t \in Things : i \notin D /\ Represents(i, t) => Represents(i, t)'
<1>1. TypeOK /\ HubsServed /\ Live
  BY BusParts
<1>2. NULL \notin D /\ \A g \in HubIds : hubs[g].dev # NULL => hubs[g].dev \in Ids
  BY <1>1, Numbers DEF NULL, TypeOK
<1>3. ASSUME NEW g \in HubIds, NEW h \in Things PROVE Serves(g, h)' <=> Serves(g, h)
  <2>1. CASE hubs[g].dev \in D
    BY <2>1 DEF Serves
  <2>2. CASE hubs[g].dev \notin D
    <3>1. hubs'[g].dev = hubs[g].dev
      BY <2>2
    <3>2. CASE hubs[g].dev = NULL
      BY <3>1, <3>2 DEF Serves
    <3>3. CASE hubs[g].dev # NULL
      <4>1. devices'[hubs[g].dev] = devices[hubs[g].dev]
        BY <1>2, <2>2, <3>3
      <4>2. QED
        BY <3>1, <4>1 DEF Serves
    <3>4. QED
      BY <3>2, <3>3
  <2>3. QED
    BY <2>1, <2>2
<1>4. ASSUME NEW i \in Ids, NEW t \in Things, i \notin D PROVE Represents(i, t)' <=> Represents(i, t)
  <2>1. devices'[i] = devices[i] /\ (Used(i)' <=> Used(i))
    BY <1>4 DEF Used
  <2>2. Used(i) => devices[i].parent \notin D
    BY <1>4 DEF Closed, Behind
  <2>3. ASSUME Used(i), devices[i].parent # NULL, NEW g \in HubIds
        PROVE  hubs'[g].dev = devices[i].parent <=> hubs[g].dev = devices[i].parent
    BY <2>2, <2>3
  <2>4. Used(i) /\ devices[i].parent # NULL =>
          ((\E g \in HubIds, h \in Hubs :
              hubs[g].dev = devices[i].parent /\ Serves(g, h) /\ at[t] = <<h, devices[i].port>>)'
           <=> \E g \in HubIds, h \in Hubs :
              hubs[g].dev = devices[i].parent /\ Serves(g, h) /\ at[t] = <<h, devices[i].port>>)
    BY <1>3, <2>1, <2>3 DEF Things
  <2>5. QED
    BY <2>1, <2>4 DEF Represents
<1>5. HubsServed'
  <2>1. \A h \in powered : h \in Things
    BY <1>1 DEF TypeOK, Things
  <2>2. \A h \in powered' : \E g \in HubIds : Serves(g, h)'
    BY <1>1, <1>3, <2>1 DEF HubsServed
  <2>3. \A h \in Hubs \ powered' : \A t \in OnHub(h)' : hw'[t] = Off
    BY <1>1 DEF HubsServed, OnHub
  <2>4. ASSUME NEW g \in HubIds, NEW t \in Things, hubs'[g].dev # NULL, Represents(hubs[g].dev, t)'
        PROVE  Serves(g, t)'
    <3>1. PICK j \in Ids : j = hubs[g].dev /\ j = hubs'[g].dev /\ j \notin D
      BY <1>2, <2>4
    <3>2. Represents(j, t)'
      BY <2>4, <3>1
    <3>3. Represents(hubs[g].dev, t)
      BY <1>4, <3>1, <3>2
    <3>4. QED
      BY <1>1, <1>3, <2>4, <3>1, <3>3 DEF HubsServed
  <2>5. QED
    BY <2>2, <2>3, <2>4 DEF HubsServed
<1>6. ServesKept
  BY <1>1, <1>3 DEF ServesKept, TypeOK, Things
<1>7. QED
  BY <1>4, <1>5, <1>6

(* The things behind device c: its own, and what is plugged into its hub.   *)
LEMMA ThingsBehind ==
  ASSUME Bus, NEW c \in Ids, Used(c), NEW i \in Gone(c), NEW t \in Things, Represents(i, t)
  PROVE  \/ i = c
         \/ /\ devices[c].parent = NULL
            /\ \E g \in HubIds, h \in Things : hubs[g].dev = c /\ Serves(g, h)
<1>1. /\ Gone(c) \subseteq Ids
      /\ \A j \in Gone(c) : j # c => Used(j) /\ devices[j].parent \in Gone(c)
  BY GoneSet
<1>2. NULL \notin Gone(c)
  BY <1>1, Numbers DEF NULL
<1>3. ASSUME i # c
      PROVE  /\ devices[c].parent = NULL
             /\ \E g \in HubIds, h \in Things : hubs[g].dev = c /\ Serves(g, h)
  <2>1. devices[i].parent \in Gone(c) /\ devices[i].parent # NULL
    BY <1>1, <1>2, <1>3
  <2>2. PICK g \in HubIds, h \in Hubs : hubs[g].dev = devices[i].parent /\ Serves(g, h)
    BY <2>1 DEF Represents
  <2>3. devices[devices[i].parent].parent = NULL
    BY <2>2 DEF Serves
  <2>4. devices[i].parent = c
    BY <1>1, <1>2, <2>1, <2>3
  <2>5. QED
    BY <2>2, <2>3, <2>4 DEF Things
<1>4. QED
  BY <1>3

LEMMA RootStatusBus ==
  ASSUME UsbInv, UsbInv', BusInv, RootStatus
  PROVE  BusInv'
<1> DEFINE t == Top  p == t.port  c == rootDevices[p]  f == [t EXCEPT !.pc = "settle"]
<1>1. /\ Running("poll", "status") /\ p \in RootPorts /\ UNCHANGED <<at, hw, powered, halt, missed>>
      /\ \/ stack' = Onwards /\ UNCHANGED <<devices, hubs>>
         \/ /\ At(<<Root, p>>) = {} /\ Disconnect(c, Onwards) /\ hubs' = HubsWithout(Gone(c))
         \/ Continue(f) /\ UNCHANGED <<devices, hubs>>
  BY DEF RootStatus, world, table, drivers, Goto
<1>2. /\ Live /\ stack # <<>> /\ halt = "no" /\ t \in Frame /\ t.fn = "poll" /\ t.pc = "status" /\ FrameOK(t)
      /\ Quiet /\ Top.pc \notin {"descriptor", "setAddress"} /\ Top.fn = t.fn
  BY <1>1, AtTopQuiet
<1>3. /\ stack \in Seq(Frame) /\ TypeOK /\ TypeOK' /\ Calls /\ halt' = "no" /\ TreeInStep
      /\ Plugged /\ Numbered /\ Plugged'
  BY <1>1, <1>2, GoingParts, LiveBus, SamePlugged DEF UsbInv, Tree
<1>4. PICK n \in Frame : n = NextPort /\ n.fn = "poll" /\ n.pc = "status"
  BY <1>2, NextPortOK
<1>5. stack' = Onwards => Continue(n)
  BY <1>4 DEF Onwards, Continue
<1> HIDE DEF Frame
<1>6. UNCHANGED <<devices, hubs>> => BusSame
  BY <1>1, BusSameTable
<1>7. CASE stack' = Onwards /\ UNCHANGED <<devices, hubs>>
  <2>1. n.fn = Top.fn /\ n.pc # "setAddress" /\ n.fn # "handle" /\ Continue(n)
    BY <1>2, <1>4, <1>5, <1>7
  <2>2. QED
    BY <1>2, <1>6, <1>7, <2>1, QuietGoesOn
<1>8. CASE Continue(f) /\ UNCHANGED <<devices, hubs>>
  <2>1. f.fn = "poll" /\ f.pc = "settle"
    <3> HIDE DEF t
    <3>1. QED
      BY <1>2 DEF Frame
  <2> HIDE DEF f
  <2>2. f.fn = Top.fn /\ f.pc # "setAddress" /\ f.fn # "handle"
    BY <1>2, <2>1
  <2>3. QED
    BY <1>2, <1>6, <1>8, <2>2, QuietGoesOn
<1>9. CASE At(<<Root, p>>) = {} /\ Disconnect(c, Onwards) /\ hubs' = HubsWithout(Gone(c))
  <2>1. Onwards \in Seq(Frame)
    <3>1. Front(stack) \in Seq(Frame)
      BY <1>2, <1>3, Stacked
    <3>2. QED
      BY <1>4, <3>1, Appended DEF Onwards
  <2>2. c \in Ids \cup {NULL}
    BY <1>1, <1>3 DEF TypeOK
  <2>3. c # NULL => c \in Ids /\ Used(c) /\ devices[c].parent = NULL /\ devices[c].port = p
    BY <1>1, <1>2, <1>3, Pointers
  <2> HIDE DEF c
  <2> DEFINE D == Gone(c)
  <2>4. D \in SUBSET Ids /\ Closed(D)
    BY <2>2, GoneSet, NoneGone
  <2>5. /\ stack' = Onwards
        /\ \A j \in Ids : devices'[j] = IF j \in D THEN NoDevice ELSE devices[j]
    BY <1>9, <2>1, Disconnected
  <2>6. \A g \in HubIds : hubs'[g].dev = HubsWithout(D)[g].dev
    BY <1>9
  <2> HIDE DEF D
  <2>7. \A g \in HubIds : hubs'[g].dev = IF hubs[g].dev \in D THEN NULL ELSE hubs[g].dev
    BY <1>2, <1>3, <2>4, <2>5, <2>6, SlotsWithout
  <2>8. Continue(n) /\ n.fn = Top.fn
    BY <1>2, <1>4, <1>5, <2>5
  <2>9. Numbered'
    <3>1. Top' = n
      BY <1>2, <1>3, <2>8, TopReplaced
    <3>2. ~Enumerating({"descriptor", "setAddress"}) /\ ~Enumerating({"setAddress"})'
      BY <1>2, <1>4, <3>1 DEF Enumerating
    <3>3. \A j \in Ids : Used(j)' => Used(j) /\ devices'[j].address = devices[j].address
      BY <2>5 DEF Used
    <3>4. QED
      BY <1>3, <3>2, <3>3, NumberedKept
  <2>10. SUFFICES ASSUME ~missed' PROVE Exclusive'
    BY <1>3, <2>9 DEF BusInv
  <2>11. Bus
    BY <1>1, <1>2, <2>10, LiveBus
  <2>12. \A u \in Things : at[u] # <<Root, p>>
    BY <1>9 DEF At
  <2>13. ASSUME NEW j \in D, NEW u \in Things, Represents(j, u) PROVE FALSE
    <3>1. c \in Ids /\ Used(c) /\ devices[c].parent = NULL /\ devices[c].port = p
      BY <2>2, <2>3, <2>13, NoneGone DEF D
    <3>2. j = c \/ \E g \in HubIds, h \in Things : hubs[g].dev = c /\ Serves(g, h)
      BY <2>11, <2>13, <3>1, ThingsBehind DEF D
    <3>3. CASE j = c
      BY <2>11, <2>12, <2>13, <3>1, <3>3, RepresentedAt
    <3>4. CASE \E g \in HubIds, h \in Things : hubs[g].dev = c /\ Serves(g, h)
      BY <2>12, <3>1, <3>4 DEF Serves
    <3>5. QED
      BY <3>2, <3>3, <3>4
  <2>14. \A g \in HubIds, h \in Things : Serves(g, h) => hubs[g].dev \notin D
    BY <2>11, <2>13, ServedHub
  <2>15. /\ HubsServed' /\ ServesKept
         /\ \A i \in Ids, u \in Things : i \notin D /\ Represents(i, u) => Represents(i, u)'
    BY <1>1, <2>4, <2>5, <2>7, <2>11, <2>14, RemovedBus
  <2>16. Traces'
    <3>1. SUFFICES ASSUME NEW u \in Things, hw'[u] # Off PROVE at'[u] # Nowhere /\ Traced(u)'
      BY DEF Traces
    <3>2. hw'[u] = hw[u] /\ at'[u] = at[u]
      BY <1>1
    <3>3. at[u] # Nowhere /\ \E i \in Ids : Represents(i, u)
      BY <1>2, <2>11, <3>1, <3>2, QuietTraces
    <3>4. PICK i \in Ids : Represents(i, u)
      BY <3>3
    <3>5. Represents(i, u)'
      BY <2>13, <2>15, <3>4
    <3>6. QED
      BY <3>2, <3>3, <3>5 DEF Traced
  <2>17. HandlesFit /\ OneLevel
    BY <2>11, BusParts
  <2>18. HandlesBelow(Len(stack) - 1)
    BY <1>1, <1>2, <1>3, <2>15, <2>17, HandlesStay
  <2>19. Handles(n)'
    BY <1>4 DEF Handles
  <2>20. HandlesFit' /\ OneLevel'
    BY <1>2, <1>3, <2>8, <2>17, <2>18, <2>19, FitsReplaced
  <2>21. QED
    BY <2>15, <2>16, <2>20 DEF Exclusive
<1>10. QED
  BY <1>1, <1>7, <1>8, <1>9

(* enumerateDevice fails: what it failed for has no address.                *)
LEMMA FailBus ==
  ASSUME UsbInv, UsbInv', BusInv, halt = "no", stack # <<>>, Top.fn = "enumerate",
         Top.pc \in {"descriptor", "setAddress", "configure"}, Fail, UNCHANGED <<at, powered, halt>>,
         Target(Top.dev) = {} => UNCHANGED hw
  PROVE  BusInv'
<1> DEFINE c == Top.dev  D == {c}
<1>1. /\ Live /\ stack \in Seq(Frame) /\ TypeOK /\ TypeOK' /\ Calls /\ halt' = "no"
      /\ Plugged /\ Numbered /\ Plugged'
  BY GoingParts, LiveBus, SamePlugged DEF UsbInv
<1> HIDE DEF Frame
<1>2. FrameOK(Top) /\ Top \in Frame
  BY <1>1, TopOK, Stacked
<1>3. c \in Ids /\ Used(c) /\ Fresh(c)
  BY <1>1, <1>2, OnePointer
<1>4. Closed(D)
  BY <1>3 DEF Closed, Behind, Fresh
<1>5. Gone(c) = D
  <2>1. c \in Gone(c) /\ \A E \in SUBSET Ids : c \in E /\ Closed(E) => Gone(c) \subseteq E
    BY <1>3, GoneSet
  <2>2. D \in SUBSET Ids /\ c \in D
    BY <1>3
  <2>3. Gone(c) \subseteq D
    BY <1>4, <2>1, <2>2
  <2>4. QED
    BY <2>1, <2>3
<1>6. Disconnect(c, Front(stack)) /\ Result(NULL) /\ missed' = (missed \/ Target(c) # {})
  BY DEF Fail
<1> HIDE DEF c
<1>7. stack' = Front(stack) /\ \A j \in Ids : devices'[j] = IF j \in D THEN NoDevice ELSE devices[j]
  <2>1. Front(stack) \in Seq(Frame)
    BY <1>1, Stacked
  <2>2. QED
    BY <1>5, <1>6, <2>1, Disconnected
<1>8. Return
  BY <1>7 DEF Return
<1>9. \A g \in HubIds : hubs'[g].dev = hubs[g].dev /\ hubs[g].dev \notin D
  <2>1. \A g \in HubIds : hubs'[g].dev = hubs[g].dev
    BY <1>1, <1>6, ResultKeeps
  <2>2. QED
    BY <1>3, <2>1 DEF Fresh
<1>10. Numbered'
  <2>1. stack' # <<>> => Top'.pc # "setAddress"
    BY <1>1, <1>8, PoppedAt
  <2>2. ~Enumerating({"setAddress"})'
    BY <2>1 DEF Enumerating
  <2>3. \A j \in Ids : Used(j)' => Used(j) /\ devices'[j] = devices[j] /\ j # c
    BY <1>7 DEF Used
  <2>4. ASSUME NEW j \in Ids, devices'[j].address = 0 PROVE FALSE
    <3>1. j # c /\ devices[j].address = 0
      BY <1>7, <2>4 DEF NoDevice, Off
    <3>2. Top.dev = j
      BY <1>1, <3>1 DEF Numbered
    <3>3. QED
      BY <3>1, <3>2 DEF c
  <2>5. \A j, k \in Ids : Used(j)' /\ Used(k)' /\ devices'[j].address = devices'[k].address => j = k
    BY <1>1, <2>3 DEF Numbered
  <2>6. QED
    BY <2>2, <2>4, <2>5 DEF Numbered
<1>11. SUFFICES ASSUME ~missed' PROVE Exclusive'
  BY <1>1, <1>10 DEF BusInv
<1>12. Bus /\ Target(c) = {} /\ UNCHANGED hw
  BY <1>1, <1>6, <1>11, LiveBus DEF c
<1>13. /\ HubsServed' /\ ServesKept
       /\ \A i \in Ids, u \in Things : i \notin D /\ Represents(i, u) => Represents(i, u)'
  <2>1. D \in SUBSET Ids
    BY <1>3
  <2>2. \A g \in HubIds : hubs'[g].dev = IF hubs[g].dev \in D THEN NULL ELSE hubs[g].dev
    BY <1>9
  <2>3. \A g \in HubIds, h \in Things : Serves(g, h) => hubs[g].dev \notin D
    BY <1>9
  <2> HIDE DEF D
  <2>4. QED
    BY <1>4, <1>7, <1>12, <2>1, <2>2, <2>3, RemovedBus
<1>14. Traces'
  <2>1. SUFFICES ASSUME NEW u \in Things, hw'[u] # Off PROVE at'[u] # Nowhere /\ Traced(u)'
    BY DEF Traces
  <2>2. hw'[u] = hw[u] /\ at'[u] = at[u]
    BY <1>12
  <2>3. at[u] # Nowhere /\ \E i \in Ids : Represents(i, u)
    <3>1. Quiet
      BY DEF Quiet
    <3>2. QED
      BY <1>12, <2>1, <2>2, <3>1, QuietTraces
  <2>4. PICK i \in Ids : Represents(i, u)
    BY <2>3
  <2>5. i # c
    BY <1>12, <2>4, RepresentedAt
  <2>6. Represents(i, u)'
    BY <1>13, <2>4, <2>5
  <2>7. QED
    BY <2>2, <2>3, <2>6 DEF Traced
<1>15. HandlesFit /\ OneLevel
  BY <1>12, BusParts
<1>16. HandlesBelow(Len(stack) - 1)
  BY <1>1, <1>13, <1>15, HandlesStay
<1>17. HandlesFit' /\ OneLevel'
  BY <1>1, <1>8, <1>15, <1>16, FitsPopped
<1>18. QED
  BY <1>13, <1>14, <1>17 DEF Exclusive

LEMMA GetDescriptorBus ==
  ASSUME UsbInv, UsbInv', BusInv, GetDescriptor
  PROVE  BusInv'
<1> DEFINE t == Top  a == AllocateAddress  f == [t EXCEPT !.pc = "setAddress", !.address = a]
<1>1. /\ Running("enumerate", "descriptor") /\ UNCHANGED <<at, hw, powered, halt>>
      /\ (Continue(f) /\ UNCHANGED <<devices, hubs, missed>>) \/ Fail
  BY DEF GetDescriptor, world, table, drivers
<1>2. /\ Live /\ stack # <<>> /\ halt = "no" /\ t \in Frame /\ t.fn = "enumerate" /\ t.pc = "descriptor"
      /\ stack \in Seq(Frame) /\ stack' \in Seq(Frame) /\ FrameOK(t) /\ TypeOK /\ TypeOK' /\ Calls
  BY <1>1, AtTop, GoingParts DEF UsbInv, Live
<1>3. Plugged /\ Numbered /\ Plugged'
  BY <1>1, <1>2, LiveBus, SamePlugged
<1>4. CASE Fail
  <2> HIDE DEF Frame
  <2>1. QED
    BY <1>1, <1>2, <1>4, FailBus
<1>5. CASE Continue(f) /\ UNCHANGED <<devices, hubs, missed>>
  <2>1. t.dev \in Ids /\ Used(t.dev) /\ devices[t.dev].address = 0
    <3> HIDE DEF Frame
    <3>1. t.dev \in Ids /\ Used(t.dev)
      BY <1>2, OnePointer
    <3>2. QED
      BY <1>2, <3>1 DEF FrameOK, EnumerateOK
  <2>2. a \in 1..USB_MAX_DEVICES /\ \A j \in Ids : Used(j) => devices[j].address # a
    BY <1>2, <2>1, AddressFree
  <2>3. a \in 0..USB_MAX_DEVICES /\ a >= 1
    BY <2>2
  <2> HIDE DEF t, a
  <2>4. f.pc = "setAddress" /\ f.fn = "enumerate" /\ f.dev = t.dev /\ f.address = a
    BY <1>2, <2>3 DEF Frame
  <2> HIDE DEF f, Frame
  <2>5. PICK e \in Frame : e = f
    BY <1>2, <1>5, FrameOf
  <2>6. Continue(e)
    BY <1>5, <2>5
  <2>7. Top' = e /\ stack' # <<>>
    BY <1>2, <2>6, TopReplaced
  <2>8. Numbered'
    <3>1. \A j \in Ids : devices[j].address # a
      <4>1. \A j \in Ids : ~Used(j) => devices[j].address = Off
        BY <1>2, DeviceFields
      <4>2. QED
        BY <2>2, <2>3, <4>1 DEF Off
    <3>2. \A j \in Ids : devices'[j].address # Top'.address /\ Top'.address >= 1
      BY <1>5, <2>3, <2>4, <2>5, <2>7, <3>1
    <3>3. Enumerating({"descriptor", "setAddress"})'
      BY <2>4, <2>5, <2>7 DEF Enumerating
    <3>4. \A j \in Ids : devices'[j].address = 0 => Top'.dev = j
      BY <1>3, <1>5, <2>4, <2>5, <2>7 DEF Numbered, t
    <3>5. \A j, k \in Ids : Used(j)' /\ Used(k)' /\ devices'[j].address = devices'[k].address => j = k
      BY <1>3, <1>5 DEF Numbered, Used
    <3>6. Top'.address >= 1
      BY <2>3, <2>4, <2>5, <2>7
    <3>7. QED
      BY <3>2, <3>3, <3>4, <3>5, <3>6 DEF Numbered
  <2>9. SUFFICES ASSUME ~missed' PROVE Exclusive'
    BY <1>3, <2>8 DEF BusInv
  <2>10. Bus
    BY <1>2, <1>5, <2>9, LiveBus
  <2>11. BusSame
    BY <1>1, <1>5, BusSameTable
  <2>12. Quiet
    BY <1>2 DEF Quiet, t
  <2>13. Traces' /\ HubsServed' /\ ServesKept
    BY <2>10, <2>11, <2>12, SameBus, SameTraces
  <2>14. HandlesFit /\ OneLevel
    BY <2>10, BusParts
  <2>15. HandlesBelow(Len(stack) - 1)
    BY <1>1, <1>2, <2>13, <2>14, HandlesStay
  <2>16. Handles(e)' /\ e.fn = Top.fn
    BY <1>2, <2>4, <2>5 DEF Handles, t
  <2>17. HandlesFit' /\ OneLevel'
    BY <1>2, <2>6, <2>14, <2>15, <2>16, FitsReplaced
  <2>18. QED
    BY <2>13, <2>17 DEF Exclusive
<1>6. QED
  BY <1>1, <1>4, <1>5

LEMMA ConfigureBus ==
  ASSUME UsbInv, UsbInv', BusInv, Configure
  PROVE  BusInv'
<1> DEFINE t == Top  f == [t EXCEPT !.pc = "bound"]
           G(u) == [Call(IF u \in Hubs THEN "hubProbe" ELSE "massProbe", "probe")
                      EXCEPT !.dev = t.dev, !.hubThing = u]
<1>1. /\ Running("enumerate", "configure") /\ UNCHANGED <<at, hw, powered, halt>>
      /\ ((\E u \in Target(t.dev) : CallFrom(f, G(u))) /\ UNCHANGED <<devices, hubs, missed>>) \/ Fail
  BY DEF Configure, world, table, drivers
<1>2. /\ Live /\ stack # <<>> /\ halt = "no" /\ t \in Frame /\ t.fn = "enumerate" /\ t.pc = "configure"
      /\ Quiet /\ Top.pc \notin {"descriptor", "setAddress"} /\ Top.fn = t.fn /\ FrameOK(t)
  BY <1>1, AtTopQuiet
<1>3. stack \in Seq(Frame) /\ stack' \in Seq(Frame) /\ Calls
  BY <1>2, GoingParts DEF UsbInv
<1>4. CASE Fail
  <2> HIDE DEF Frame
  <2>1. QED
    BY <1>1, <1>2, <1>4, FailBus
<1>5. ASSUME NEW u \in Target(t.dev), CallFrom(f, G(u)), UNCHANGED <<devices, hubs, missed>> PROVE BusInv'
  <2> DEFINE g == G(u)
  <2>1. g.fn \in {"hubProbe", "massProbe"} /\ g.pc = "probe" /\ (g.fn = "hubProbe" => u \in Hubs)
    BY DEF Call
  <2>2. f.fn = "enumerate"
    <3> HIDE DEF t
    <3>1. QED
      BY <1>2 DEF Frame
  <2>3. CallFrom(f, g)
    BY <1>5
  <2> HIDE DEF f, g, Frame
  <2>4. PICK e \in Frame, k \in Frame : e = f /\ k = g
    BY <1>2, <1>3, <2>3, FramesOf
  <2>5. CallFrom(e, k) /\ Handles(e)' /\ Handles(k)'
    BY <2>1, <2>2, <2>3, <2>4 DEF Handles
  <2>6. BusSame
    BY <1>1, <1>5, BusSameTable
  <2>7. ASSUME ~missed', k.fn = "hubProbe" PROVE \A i \in DOMAIN stack : stack[i].fn # "handle"
    <3>1. Bus
      BY <1>2, <1>5, <2>7, LiveBus
    <3> DEFINE c == t.dev
    <3>2. /\ c \in Ids /\ Used(c)
          /\ \A p \in RootPorts : rootDevices[p] = c <=> t.hub = 0 /\ p = t.port
      BY <1>2, OnePointer
    <3> HIDE DEF c
    <3>3. u \in Hubs /\ u \in Things /\ u \in Target(c)
      BY <1>5, <2>1, <2>4, <2>7 DEF c, Things
    <3>4. Represents(c, u)
      BY <3>1, <3>2, <3>3, TargetOf
    <3>5. devices[c].parent = NULL
      <4>1. at[u] \in RootPlaces \cup {Nowhere} /\ at[u] # Nowhere
        BY <3>1, <3>2, <3>3, <3>4, RepresentedAt, BusParts DEF Plugged
      <4>2. at[u] \notin Hubs \X HubPorts
        BY <4>1, UsbAssumption DEF RootPlaces
      <4>3. QED
        BY <3>1, <3>2, <3>3, <3>4, <4>2, RepresentedAt
    <3>6. rootDevices[devices[c].port] = c /\ devices[c].port \in RootPorts
      <4>1. TypeOK /\ TreeInStep /\ PortsFit
        BY <3>1, BusParts
      <4>2. QED
        BY <1>2, <3>2, <3>5, <4>1, Pointers DEF PortsFit
    <3>7. t.hub = 0
      BY <3>2, <3>6
    <3> DEFINE n == Len(stack)
    <3>8. n - 1 \in 1..(n - 1) /\ n \in Nat /\ DOMAIN stack = 1..n /\ stack[n] = t
      BY <1>2, <1>3, Below, Stacked DEF Callbacks
    <3>9. PICK b \in Frame : b = stack[n - 1] /\ FrameOK(b) /\ Called(b, t)
      BY <1>2, <1>3, Below DEF Callbacks
    <3> HIDE DEF n
    <3>10. b.fn = "poll"
      BY <1>2, <3>7, <3>9, Numbers DEF Called, FrameOK, HandleOK
    <3>11. n - 1 = 1
      <4>1. ASSUME n - 2 \in 1..(n - 1) PROVE FALSE
        <5>1. stack[(n - 2) + 1].fn \notin Callbacks
          BY <1>3, <4>1, Waiting DEF n
        <5>2. (n - 2) + 1 = n - 1
          BY <3>8
        <5>3. QED
          BY <3>9, <3>10, <5>1, <5>2 DEF Callbacks
      <4>2. QED
        BY <3>8, <4>1
    <3>12. \A i \in DOMAIN stack : i = n \/ i = n - 1
      <4>1. n = 2 /\ DOMAIN stack = 1..n
        BY <3>8, <3>11
      <4>2. QED
        BY <4>1
    <3>13. QED
      BY <1>2, <3>8, <3>9, <3>10, <3>12
  <2>8. e.fn = Top.fn /\ k.pc # "setAddress"
    BY <1>2, <2>1, <2>2, <2>4
  <2>9. QED
    BY <1>2, <2>5, <2>6, <2>7, <2>8, QuietCall
<1>6. QED
  BY <1>1, <1>4, <1>5

(* The device of a reached thing takes the address with it.                 *)
LEMMA AddressedBus ==
  ASSUME Bus, NEW c \in Ids, Used(c), Fresh(c), devices[c].address = 0, NEW a \in Nat, a # 0,
         \A j \in Ids : devices[j].address # a, Quiet,
         UNCHANGED <<at, powered, hubs>>,
         \A u \in Things : hw'[u] = IF u \in Target(c) THEN a ELSE hw[u],
         \A j \in Ids : j # c => devices'[j] = devices[j],
         Used(c)', devices'[c].address = a,
         devices'[c].parent = devices[c].parent, devices'[c].port = devices[c].port
  PROVE  Traces' /\ HubsServed' /\ ServesKept
<1>1. TypeOK /\ HubsServed /\ Live /\ Numbered
  BY BusParts
<1>2. \A u \in Things : u \in Target(c) <=> Represents(c, u)
  BY TargetOf
<1>3. \A u \in Things : u \in Target(c) => hw[u] = 0
  BY DEF Target, Answering
<1>4. \A j \in Ids : j # c => devices[j].address # 0
  BY <1>1 DEF Numbered
<1>5. \A j \in Ids, u \in Things : j # c => (hw'[u] = devices[j].address <=> hw[u] = devices[j].address)
  BY <1>3, <1>4
<1>6. \A g \in HubIds : hubs[g].dev # NULL => hubs[g].dev \in Ids /\ hubs[g].dev # c
  BY <1>1 DEF TypeOK, Fresh
<1>7. ASSUME NEW g \in HubIds, NEW h \in Things PROVE Serves(g, h)' <=> Serves(g, h)
  <2>1. CASE hubs[g].dev = NULL
    BY <2>1 DEF Serves
  <2>2. CASE hubs[g].dev # NULL
    <3>1. PICK j \in Ids : j = hubs[g].dev /\ j # c
      BY <1>6, <2>2
    <3>2. devices'[j] = devices[j] /\ (hw'[h] = devices[j].address <=> hw[h] = devices[j].address)
      BY <1>5, <3>1
    <3>3. QED
      BY <3>1, <3>2 DEF Serves
  <2>3. QED
    BY <2>1, <2>2
<1>8. ASSUME NEW i \in Ids, NEW t \in Things, i # c PROVE Represents(i, t)' <=> Represents(i, t)
  <2>1. devices'[i] = devices[i] /\ (Used(i)' <=> Used(i)) /\ (hw'[t] = devices[i].address <=> hw[t] = devices[i].address)
    BY <1>5, <1>8 DEF Used
  <2>2. /\ (\E g \in HubIds, h \in Hubs :
             hubs[g].dev = devices[i].parent /\ Serves(g, h) /\ at[t] = <<h, devices[i].port>>)'
        <=> \E g \in HubIds, h \in Hubs :
             hubs[g].dev = devices[i].parent /\ Serves(g, h) /\ at[t] = <<h, devices[i].port>>
    BY <1>7, <2>1 DEF Things
  <2>3. QED
    BY <2>1, <2>2 DEF Represents
<1>9. ASSUME NEW t \in Things, Represents(c, t) PROVE Represents(c, t)'
  <2>1. hw'[t] = devices'[c].address /\ at'[t] = at[t]
    BY <1>2, <1>9
  <2>2. CASE devices[c].parent = NULL
    BY <1>9, <2>1, <2>2 DEF Represents
  <2>3. CASE devices[c].parent # NULL
    <3>1. PICK g \in HubIds, h \in Hubs :
            hubs[g].dev = devices[c].parent /\ Serves(g, h) /\ at[t] = <<h, devices[c].port>>
      BY <1>9, <2>3 DEF Represents
    <3>2. hubs'[g].dev = devices'[c].parent /\ Serves(g, h)' /\ at'[t] = <<h, devices'[c].port>>
      BY <1>7, <2>1, <3>1 DEF Things
    <3>3. QED
      BY <2>1, <2>3, <3>2 DEF Represents
  <2>4. QED
    BY <2>2, <2>3
<1>10. HubsServed'
  <2>1. \A h \in powered : h \in Things
    BY <1>1 DEF TypeOK, Things
  <2>2. \A h \in powered' : \E g \in HubIds : Serves(g, h)'
    BY <1>1, <1>7, <2>1 DEF HubsServed
  <2>3. ASSUME NEW h \in Hubs, h \notin powered, NEW t \in Things, t \in OnHub(h) PROVE hw'[t] = Off
    <3>1. hw[t] = Off
      BY <1>1, <2>3 DEF HubsServed
    <3>2. t \notin Target(c)
      BY <1>3, <3>1 DEF Off
    <3>3. QED
      BY <3>1, <3>2
  <2>4. \A h \in Hubs \ powered' : \A t \in OnHub(h)' : hw'[t] = Off
    BY <2>3 DEF OnHub
  <2>5. ASSUME NEW g \in HubIds, NEW t \in Things, hubs'[g].dev # NULL, Represents(hubs[g].dev, t)'
        PROVE  Serves(g, t)'
    <3>1. PICK j \in Ids : j = hubs[g].dev /\ j = hubs'[g].dev /\ j # c
      BY <1>6, <2>5
    <3>2. Represents(j, t)'
      BY <2>5, <3>1
    <3>3. Represents(hubs[g].dev, t)
      BY <1>8, <3>1, <3>2
    <3>4. QED
      BY <1>1, <1>7, <2>5, <3>3 DEF HubsServed
  <2>6. QED
    BY <2>2, <2>4, <2>5 DEF HubsServed
<1>11. ServesKept
  BY <1>1, <1>7 DEF ServesKept, TypeOK, Things
<1>12. Traces'
  <2>1. SUFFICES ASSUME NEW u \in Things, hw'[u] # Off PROVE at'[u] # Nowhere /\ Traced(u)'
    BY DEF Traces
  <2>2. CASE u \in Target(c)
    <3>1. Represents(c, u)' /\ at[u] # Nowhere
      BY <1>2, <1>9, <2>2, RepresentedAt
    <3>2. QED
      BY <3>1 DEF Traced
  <2>3. CASE u \notin Target(c)
    <3>1. hw[u] # Off
      BY <2>1, <2>3
    <3>2. at[u] # Nowhere /\ \E i \in Ids : Represents(i, u)
      BY <3>1, QuietTraces
    <3>3. PICK i \in Ids : Represents(i, u) /\ i # c
      BY <1>2, <2>3, <3>2
    <3>4. Represents(i, u)'
      BY <1>8, <3>3
    <3>5. QED
      BY <3>2, <3>4 DEF Traced
  <2>4. QED
    BY <2>2, <2>3
<1>13. QED
  BY <1>10, <1>11, <1>12

LEMMA SetAddressBus ==
  ASSUME UsbInv, UsbInv', BusInv, SetAddress
  PROVE  BusInv'
<1> DEFINE t == Top  i == t.dev  a == t.address  f == [t EXCEPT !.pc = "configure"]
<1>1. /\ Running("enumerate", "setAddress") /\ UNCHANGED <<at, powered, halt>>
      /\ \/ Fail /\ (Target(i) = {} => UNCHANGED hw)
         \/ /\ hw' = [u \in Things |-> IF u \in Target(i) THEN a ELSE hw[u]]
            /\ devices' = [devices EXCEPT ![i].address = a] /\ Continue(f)
            /\ UNCHANGED <<hubs, missed>>
  BY DEF SetAddress, Goto, world, drivers
<1>2. /\ Live /\ stack # <<>> /\ halt = "no" /\ t \in Frame /\ t.fn = "enumerate" /\ t.pc = "setAddress"
      /\ stack \in Seq(Frame) /\ stack' \in Seq(Frame) /\ FrameOK(t) /\ TypeOK /\ TypeOK' /\ Calls
  BY <1>1, AtTop, GoingParts DEF UsbInv, Live
<1>3. Plugged /\ Numbered /\ Plugged'
  BY <1>1, <1>2, LiveBus, SamePlugged
<1>4. CASE Fail /\ (Target(i) = {} => UNCHANGED hw)
  <2> HIDE DEF Frame
  <2>1. QED
    BY <1>1, <1>2, <1>4, FailBus
<1>5. CASE /\ hw' = [u \in Things |-> IF u \in Target(i) THEN a ELSE hw[u]]
           /\ devices' = [devices EXCEPT ![i].address = a] /\ Continue(f)
           /\ UNCHANGED <<hubs, missed>>
  <2>1. i \in Ids /\ Used(i) /\ Fresh(i)
    <3> HIDE DEF Frame
    <3>1. QED
      BY <1>2, OnePointer
  <2>2. a \in Nat /\ a >= 1 /\ \A j \in Ids : devices[j].address # a
    <3>1. Enumerating({"setAddress"})
      BY <1>2 DEF Enumerating
    <3>2. a \in Nat
      BY <1>2 DEF Frame
    <3>3. QED
      BY <1>3, <3>1, <3>2 DEF Numbered
  <2>3. devices[i].address = 0
    BY <1>2 DEF FrameOK, EnumerateOK
  <2>4. PICK c \in Ids : c = i /\ devices[c] \in Device
    BY <1>2, <2>1 DEF TypeOK, Used
  <2>5. PICK b \in Nat : b = a
    BY <2>2
  <2>6. c = Top.dev
    BY <2>4
  <2> HIDE DEF t, i, a
  <2>7. f.pc = "configure" /\ f.fn = "enumerate"
    BY <1>2 DEF Frame
  <2> HIDE DEF f, Frame
  <2> DEFINE d == [devices[c] EXCEPT !.address = b]
  <2>8. d.parent = devices[c].parent /\ d.port = devices[c].port /\ d.address = b
    BY <2>4 DEF Device
  <2>9. \A j \in Ids : devices'[j] = IF j = c THEN d ELSE devices[j]
    BY <1>2, <1>5, <2>4, <2>5 DEF TypeOK
  <2> HIDE DEF d
  <2>10. d # NoDevice
    BY <2>5, <2>8 DEF NoDevice, Off
  <2>11. /\ Used(c)' /\ devices'[c].address = b
         /\ devices'[c].parent = devices[c].parent /\ devices'[c].port = devices[c].port
         /\ \A j \in Ids : j # c => devices'[j] = devices[j]
    BY <2>8, <2>9, <2>10 DEF Used
  <2>12. PICK e \in Frame : e = f
    BY <1>2, <1>5, FrameOf
  <2>13. Continue(e)
    BY <1>5, <2>12
  <2>14. Top' = e /\ stack' # <<>>
    BY <1>2, <2>13, TopReplaced
  <2>15. b # 0 /\ \A j \in Ids : devices[j].address # b
    BY <2>2, <2>5
  <2>16. Numbered'
    <3>1. ~Enumerating({"setAddress"})'
      BY <2>7, <2>12, <2>14 DEF Enumerating
    <3>2. ASSUME NEW j \in Ids, devices'[j].address = 0 PROVE FALSE
      <4>1. j # c /\ devices[j].address = 0
        BY <2>11, <2>15, <3>2
      <4>2. QED
        BY <1>3, <2>6, <4>1 DEF Numbered
    <3>3. \A j \in Ids : j # c => (Used(j)' <=> Used(j))
      BY <2>11 DEF Used
    <3>4. \A j, k \in Ids : Used(j)' /\ Used(k)' /\ devices'[j].address = devices'[k].address => j = k
      BY <1>3, <2>11, <2>15, <3>3 DEF Numbered
    <3>5. QED
      BY <3>1, <3>2, <3>4 DEF Numbered
  <2>17. SUFFICES ASSUME ~missed' PROVE Exclusive'
    BY <1>3, <2>16 DEF BusInv
  <2>18. Bus
    BY <1>2, <1>5, <2>17, LiveBus
  <2>19. Quiet
    BY <1>2 DEF Quiet, t
  <2>20. \A u \in Things : hw'[u] = IF u \in Target(c) THEN b ELSE hw[u]
    BY <1>5, <2>4, <2>5
  <2>21. Used(c) /\ Fresh(c) /\ devices[c].address = 0 /\ UNCHANGED <<at, powered, hubs>>
    BY <1>1, <1>5, <2>1, <2>3, <2>4
  <2>22. Traces' /\ HubsServed' /\ ServesKept
    BY <2>11, <2>15, <2>18, <2>19, <2>20, <2>21, AddressedBus
  <2>23. HandlesFit /\ OneLevel
    BY <2>18, BusParts
  <2>24. HandlesBelow(Len(stack) - 1)
    BY <1>1, <1>2, <2>22, <2>23, HandlesStay
  <2>25. Handles(e)' /\ e.fn = Top.fn
    BY <1>2, <2>7, <2>12 DEF Handles, t
  <2>26. HandlesFit' /\ OneLevel'
    BY <1>2, <2>13, <2>23, <2>24, <2>25, FitsReplaced
  <2>27. QED
    BY <2>22, <2>26 DEF Exclusive
<1>6. QED
  BY <1>1, <1>4, <1>5

-----------------------------------------------------------------------------
(* The running call, when it handles a port.                                *)
LEMMA TopHandles ==
  ASSUME Bus, stack # <<>>, NEW k \in Frame, k = Top
  PROVE  Handles(k)
<1> HIDE DEF Frame
<1>1. Len(stack) \in DOMAIN stack /\ stack[Len(stack)] = k
  BY BusParts, Stacked
<1>2. QED
  BY <1>1, BusParts DEF HandlesFit

LEMMA TopKeeps ==
  ASSUME stack \in Seq(Frame), stack # <<>>, HandlesBelow(Len(stack)), NEW k \in Frame, k = Top
  PROVE  Handles(k)'
<1> HIDE DEF Frame
<1>1. Len(stack) \in 1..Len(stack) /\ k = stack[Len(stack)]
  BY Stacked
<1>2. QED
  BY <1>1 DEF HandlesBelow

(* It reaches the hub that its slot serves.                                 *)
LEMMA HandledHub ==
  ASSUME Bus, NEW k \in Frame, Handles(k), FrameOK(k), k.fn = "handle", k.pc # "status",
         NEW u \in Things, hw[u] # Off, at[u] = <<k.hubThing, k.port>>
  PROVE  /\ k.hubThing \in powered /\ Serves(k.hub, k.hubThing)
         /\ k.hubThing \in Target(hubs[k.hub].dev)
<1> HIDE DEF Frame
<1>1. k.hubThing \in Hubs /\ k.port \in HubPorts /\ k.hub \in HubIds
  BY DEF Handles, FrameOK, HandleOK
<1>2. k.hubThing \in powered
  BY <1>1, HubHasPower
<1>3. Serves(k.hub, k.hubThing)
  BY <1>2 DEF Handles
<1>4. PICK g \in HubIds, h \in Things : g = k.hub /\ h = k.hubThing
  BY <1>1 DEF Things
<1>5. hubs[g].dev \in Ids /\ Represents(hubs[g].dev, h)
  BY <1>3, <1>4, ServedHub
<1> DEFINE d == hubs[g].dev
<1>6. h \in Target(d)
  <2> HIDE DEF d
  <2>1. d \in Ids /\ Represents(d, h)
    BY <1>5 DEF d
  <2>2. QED
    BY <2>1, RepresentedAt
<1>7. QED
  BY <1>2, <1>3, <1>4, <1>6

LEMMA PortResetBus ==
  ASSUME UsbInv, UsbInv', BusInv, PortReset
  PROVE  BusInv'
<1> DEFINE t == Top
           there == IF t.hubThing \in Target(hubs[t.hub].dev) THEN At(<<t.hubThing, t.port>>) ELSE {}
           f == [t EXCEPT !.pc = "enumerate"]
<1>1. /\ Running("handle", "reset") /\ UNCHANGED <<at, devices, hubs, halt>>
      /\ \/ (\E u \in there : Resets(u)) /\ Continue(f) /\ UNCHANGED missed
         \/ Return /\ missed' = TRUE
         \/ Return /\ missed' = (missed \/ there # {}) /\ UNCHANGED <<hw, powered>>
  BY DEF PortReset, Goto, table, drivers
<1>2. /\ Live /\ stack # <<>> /\ halt = "no" /\ t \in Frame /\ t.fn = "handle" /\ t.pc = "reset"
      /\ stack \in Seq(Frame) /\ stack' \in Seq(Frame) /\ FrameOK(t) /\ Calls /\ TypeOK /\ TypeOK'
  BY <1>1, AtTop, GoingParts DEF UsbInv, Live
<1>3. Plugged /\ Numbered /\ Plugged' /\ ~Enumerating({"descriptor", "setAddress"})
  BY <1>1, <1>2, LiveBus, SamePlugged DEF Enumerating
<1>4. f.fn = "handle" /\ f.pc = "enumerate" /\ f.port = t.port /\ f.hub = t.hub /\ f.hubThing = t.hubThing
  <2> HIDE DEF t
  <2>1. QED
    BY <1>2 DEF Frame
<1>5. PICK k \in Frame : k = t
  BY <1>2
<1> HIDE DEF f, Frame
<1>6. k.hub \in HubIds /\ hubs[k.hub].dev # NULL /\ k.port \in HubPorts /\ k.fn = "handle" /\ k.pc = "reset"
      /\ FrameOK(k) /\ k = Top
  BY <1>2, <1>5 DEF FrameOK, HandleOK
<1>7. Numbered'
  <2>1. ~Enumerating({"setAddress"})'
    <3>1. CASE Return
      <4>1. stack' # <<>> => Top'.pc # "setAddress"
        BY <1>2, <3>1, PoppedAt
      <4>2. QED
        BY <4>1 DEF Enumerating
    <3>2. CASE Continue(f)
      <4>1. PICK g \in Frame : g = f
        BY <1>2, <3>2, FrameOf
      <4>2. Top' = g
        BY <1>2, <3>2, <4>1, TopReplaced
      <4>3. QED
        BY <1>4, <4>1, <4>2 DEF Enumerating
    <3>3. QED
      BY <1>1, <3>1, <3>2
  <2>2. \A i \in Ids : Used(i)' => Used(i) /\ devices'[i].address = devices[i].address
    BY <1>1 DEF Used
  <2>3. QED
    BY <1>2, <1>3, <2>1, <2>2, NumberedKept
<1>8. CASE Return /\ missed' = TRUE
  BY <1>3, <1>7, <1>8 DEF BusInv
<1>9. there = IF k.hubThing \in Target(hubs[k.hub].dev) THEN At(<<k.hubThing, k.port>>) ELSE {}
  BY <1>5
<1> HIDE DEF t, there
<1>10. CASE Return /\ missed' = (missed \/ there # {}) /\ UNCHANGED <<hw, powered>>
  <2>1. SUFFICES ASSUME ~missed' PROVE Exclusive'
    BY <1>3, <1>7 DEF BusInv
  <2>2. Bus /\ there = {}
    BY <1>2, <1>10, <2>1, LiveBus
  <2>3. BusSame
    BY <1>1, <1>10, BusSameTable
  <2>4. Handles(k)
    BY <1>2, <1>6, <2>2, TopHandles
  <2>5. Traces'
    <3>1. SUFFICES ASSUME NEW u \in Things, hw'[u] # Off PROVE at'[u] # Nowhere /\ Traced(u)'
      BY DEF Traces
    <3>2. hw'[u] = hw[u] /\ at'[u] = at[u]
      BY <2>3 DEF BusSame
    <3>3. at[u] # Nowhere /\ Traced(u)
      BY <2>2, <3>1, <3>2, BusParts DEF Traces
    <3>4. ~Expected(at[u])
      BY <1>6 DEF Expected, Enumerating
    <3>5. ~Resetting(at[u])
      <4>1. SUFFICES ASSUME at[u] = <<k.hubThing, k.port>> PROVE FALSE
        BY <1>6 DEF Resetting
      <4>2. k.hubThing \in Target(hubs[k.hub].dev)
        BY <1>6, <2>2, <2>4, <3>1, <3>2, <4>1, HandledHub
      <4>3. u \in there
        BY <1>9, <4>1, <4>2 DEF At
      <4>4. QED
        BY <2>2, <4>3
    <3>6. PICK i \in Ids : Represents(i, u)
      BY <3>3, <3>4, <3>5 DEF Traced
    <3>7. Represents(i, u)'
      BY <2>2, <2>3, <3>6, SameBus
    <3>8. QED
      BY <3>2, <3>3, <3>7 DEF Traced
  <2>6. HubsServed' /\ ServesKept
    BY <2>2, <2>3, SameBus
  <2>7. HandlesFit /\ OneLevel
    BY <2>2, BusParts
  <2>8. HandlesBelow(Len(stack) - 1)
    BY <1>1, <1>2, <2>6, <2>7, HandlesStay
  <2>9. HandlesFit' /\ OneLevel'
    BY <1>2, <1>10, <2>7, <2>8, FitsPopped
  <2>10. QED
    BY <2>5, <2>6, <2>9 DEF Exclusive
<1>11. ASSUME NEW u \in there, Resets(u), Continue(f), UNCHANGED missed PROVE BusInv'
  <2>1. SUFFICES ASSUME ~missed' PROVE Exclusive'
    BY <1>3, <1>7 DEF BusInv
  <2>2. Bus
    BY <1>2, <1>11, <2>1, LiveBus
  <2>3. Handles(k)
    BY <1>2, <1>6, <2>2, TopHandles
  <2>4. u \in Things /\ at[u] = <<k.hubThing, k.port>> /\ k.hubThing \in Target(hubs[k.hub].dev)
    BY <1>9, <1>11 DEF At
  <2>5. k.hubThing \in Hubs /\ k.hubThing \in Things
    BY <1>6, <2>3 DEF Handles, Things
  <2>6. k.hubThing \in powered
    <3>1. PICK g \in HubIds, h \in Things : g = k.hub /\ h = k.hubThing
      BY <1>6, <2>5
    <3>2. hubs[g].dev # NULL /\ h \in Target(hubs[g].dev)
      BY <1>6, <2>4, <3>1
    <3>3. h \in powered
      BY <2>2, <3>2, ReachedServed
    <3>4. QED
      BY <3>1, <3>3
  <2>7. u # k.hubThing
    <3>1. at[k.hubThing] \in RootPlaces \cup {Nowhere}
      BY <1>3, <2>5 DEF Plugged
    <3>2. at[u] \in Hubs \X HubPorts
      BY <1>6, <2>4, <2>5
    <3>3. at[u] \notin RootPlaces \cup {Nowhere}
      BY <3>2, UsbAssumption DEF RootPlaces, Places
    <3>4. QED
      BY <3>1, <3>3
  <2>8. at[u] # Nowhere /\ \A h \in Hubs : at[u] \in {h} \X HubPorts => h # u /\ h \in powered
    <3>1. at[u] \in Places
      BY <1>6, <2>4, <2>5 DEF Places
    <3>2. QED
      BY <2>4, <2>6, <2>7, <3>1, UsbAssumption
  <2>9. PICK g \in Frame : g = f
    BY <1>2, <1>11, FrameOf
  <2>10. Continue(g)
    BY <1>11, <2>9
  <2>11. Top' = g /\ stack' # <<>>
    BY <1>2, <2>10, TopReplaced
  <2>12. g.fn = "handle" /\ g.pc = "enumerate" /\ g.port = k.port /\ g.hub = k.hub /\ g.hubThing = k.hubThing
    BY <1>4, <1>5, <2>9
  <2>13. Expected(at[u])'
    <3>1. at'[u] = <<Top'.hubThing, Top'.port>>
      BY <1>1, <2>4, <2>11, <2>12
    <3>2. QED
      BY <2>11, <2>12, <3>1 DEF Expected
  <2>14. \A i \in Ids : devices[i].address # 0
    BY <1>3 DEF Numbered
  <2>15. \A v \in Things : v # u /\ hw[v] # Off => \E i \in Ids : Represents(i, v)
    <3>1. SUFFICES ASSUME NEW v \in Things, v # u, hw[v] # Off PROVE \E i \in Ids : Represents(i, v)
      OBVIOUS
    <3>2. at[v] # Nowhere /\ Traced(v)
      BY <2>2, <3>1, BusParts DEF Traces
    <3>3. ~Expected(at[v])
      BY <1>6 DEF Expected, Enumerating
    <3>4. ~Resetting(at[v])
      BY <1>3, <1>6, <2>4, <3>1, <3>2 DEF Resetting, Plugged
    <3>5. QED
      BY <3>2, <3>3, <3>4 DEF Traced
  <2>16. UNCHANGED <<at, devices, hubs>>
    BY <1>1
  <2>17. Traces' /\ HubsServed' /\ ServesKept
    BY <1>11, <2>2, <2>4, <2>8, <2>13, <2>14, <2>15, <2>16, ResetBus
  <2>18. HandlesFit /\ OneLevel
    BY <2>2, BusParts
  <2>19. HandlesBelow(Len(stack)) /\ HandlesBelow(Len(stack) - 1)
    BY <1>2, <2>16, <2>17, <2>18, HandlesStay
  <2>20. Handles(k)'
    BY <1>2, <1>6, <2>19, TopKeeps
  <2>21. Handles(g)' /\ g.fn = Top.fn
    BY <1>6, <2>12, <2>20 DEF Handles
  <2>22. HandlesFit' /\ OneLevel'
    BY <1>2, <2>10, <2>18, <2>19, <2>21, FitsReplaced
  <2>23. QED
    BY <2>17, <2>22 DEF Exclusive
<1>12. QED
  BY <1>1, <1>8, <1>10, <1>11

LEMMA ClearedKeeps ==
  ASSUME TypeOK, NEW D, NEW k \in HubIds, NEW p,
         hubs' = [HubsWithout(D) EXCEPT ![k].children[p] = NULL]
  PROVE  \A g \in HubIds : hubs'[g].dev = HubsWithout(D)[g].dev
<1> DEFINE R == [dev : Ids \cup {NULL}, children : [HubPorts -> Ids \cup {NULL}]]
           X == HubsWithout(D)
<1>1. X \in [HubIds -> R]
  BY DEF TypeOK, HubsWithout, NoHub
<1>2. hubs' = [X EXCEPT ![k].children[p] = NULL]
  OBVIOUS
<1> HIDE DEF X
<1>3. SUFFICES ASSUME NEW g \in HubIds PROVE hubs'[g].dev = X[g].dev
  BY DEF X
<1>4. hubs'[g] = IF g = k THEN [X[g] EXCEPT !.children = [@ EXCEPT ![p] = NULL]] ELSE X[g]
  BY <1>1, <1>2, <1>3
<1>5. X[g] \in R
  BY <1>1, <1>3
<1>6. QED
  BY <1>4, <1>5

(* What the freed child stands for is at the port that is handled.          *)
LEMMA ChildAt ==
  ASSUME Bus, NEW k \in Frame, Handles(k), FrameOK(k), k.fn = "handle", k.pc # "status",
         NEW c \in Ids, c = hubs[k.hub].children[k.port]
  PROVE  /\ NULL \notin Gone(c) /\ Gone(c) \in SUBSET Ids /\ Closed(Gone(c)) /\ Used(c) /\ c \in Gone(c)
         /\ \A g \in HubIds, h \in Things : Serves(g, h) => hubs[g].dev \notin Gone(c)
         /\ \A j \in Gone(c), v \in Things :
              Represents(j, v) => j = c /\ at[v] = <<k.hubThing, k.port>>
<1> HIDE DEF Frame
<1>1. k.hub \in HubIds /\ hubs[k.hub].dev # NULL /\ k.port \in HubPorts
  BY DEF FrameOK, HandleOK
<1>2. TypeOK /\ TreeInStep /\ HubSlots /\ halt = "no" /\ c # NULL
  BY BusParts, Numbers DEF NULL
<1>3. Used(c) /\ devices[c].parent = hubs[k.hub].dev /\ devices[c].port = k.port
  BY <1>1, <1>2, Pointers
<1>4. NULL \notin Gone(c) /\ Gone(c) \in SUBSET Ids /\ Closed(Gone(c)) /\ c \in Gone(c)
  BY GoneSet, Numbers DEF NULL
<1>5. ASSUME NEW j \in Gone(c), NEW v \in Things, Represents(j, v) PROVE j = c
  BY <1>1, <1>3, <1>5, ThingsBehind
<1>6. ASSUME NEW g \in HubIds, NEW h \in Things, Serves(g, h), hubs[g].dev \in Gone(c) PROVE FALSE
  <2>1. Represents(hubs[g].dev, h)
    BY <1>6, ServedHub
  <2>2. hubs[g].dev = c
    BY <1>5, <1>6, <2>1
  <2>3. QED
    BY <1>1, <1>3, <1>6, <2>2 DEF Serves
<1>7. ASSUME NEW v \in Things, Represents(c, v) PROVE at[v] = <<k.hubThing, k.port>>
  <2>1. PICK g \in HubIds, h \in Hubs :
          hubs[g].dev = devices[c].parent /\ Serves(g, h) /\ at[v] = <<h, devices[c].port>>
    BY <1>1, <1>3, <1>7 DEF Represents
  <2>2. g = k.hub
    BY <1>1, <1>2, <1>3, <2>1 DEF HubSlots
  <2>3. h \in powered
    BY <2>1 DEF Serves
  <2>4. h = k.hubThing
    BY <2>1, <2>2, <2>3 DEF Handles
  <2>5. QED
    BY <1>3, <2>1, <2>4
<1>8. QED
  BY <1>3, <1>4, <1>5, <1>6, <1>7

LEMMA PortClearBus ==
  ASSUME UsbInv, UsbInv', BusInv, PortClear
  PROVE  BusInv'
<1> DEFINE t == Top  f == [t EXCEPT !.pc = "reset"]  c == hubs[t.hub].children[t.port]  D == Gone(c)
           st == IF t.todo = {} THEN Front(stack) ELSE Append(Front(stack), f)
<1>1. /\ Running("handle", "clear") /\ UNCHANGED <<at, hw, powered, halt>> /\ (missed => missed')
      /\ Disconnect(c, st) /\ hubs' = [HubsWithout(D) EXCEPT ![t.hub].children[t.port] = NULL]
  <2>1. missed => missed'
    BY Zenon DEF PortClear
  <2>2. /\ Running("handle", "clear") /\ UNCHANGED <<at, hw, powered, halt>>
        /\ Disconnect(c, st) /\ hubs' = [HubsWithout(D) EXCEPT ![t.hub].children[t.port] = NULL]
    BY DEF PortClear, Child
  <2>3. QED
    BY <2>1, <2>2, Zenon
<1>2. /\ Live /\ stack # <<>> /\ halt = "no" /\ t \in Frame /\ t.fn = "handle" /\ t.pc = "clear"
      /\ Quiet /\ Top.pc \notin {"descriptor", "setAddress"} /\ Top.fn = t.fn /\ FrameOK(t)
  BY <1>1, AtTopQuiet
<1>3. /\ stack \in Seq(Frame) /\ TypeOK /\ TypeOK' /\ Calls /\ halt' = "no"
      /\ Plugged /\ Numbered /\ Plugged'
  BY <1>1, <1>2, GoingParts, LiveBus, SamePlugged DEF UsbInv
<1>4. /\ f \in Frame /\ f.pc = "reset" /\ f.fn = "handle" /\ f.port = t.port
      /\ f.hub = t.hub /\ f.hubThing = t.hubThing
  <2> HIDE DEF t
  <2>1. QED
    BY <1>2 DEF Frame
<1> HIDE DEF f, Frame
<1>5. PICK k \in Frame, e \in Frame : k = t /\ e = f
  BY <1>2, <1>4
<1>6. /\ FrameOK(k) /\ k = Top /\ k.fn = "handle" /\ k.pc = "clear" /\ k.hub \in HubIds /\ k.port \in HubPorts
      /\ e.pc = "reset" /\ e.fn = "handle" /\ e.port = k.port /\ e.hub = k.hub /\ e.hubThing = k.hubThing
  BY <1>2, <1>4, <1>5 DEF FrameOK, HandleOK
<1>7. c = hubs[k.hub].children[k.port] /\ c \in Ids \cup {NULL}
  <2>1. c = hubs[k.hub].children[k.port]
    BY <1>5
  <2>2. hubs[k.hub].children[k.port] \in Ids \cup {NULL}
    BY <1>3, <1>6 DEF TypeOK
  <2>3. QED
    BY <2>1, <2>2
<1>8. st = IF k.todo = {} THEN Front(stack) ELSE Append(Front(stack), e)
  BY <1>5
<1>9. st \in Seq(Frame)
  <2>1. Front(stack) \in Seq(Frame) /\ Append(Front(stack), e) \in Seq(Frame)
    BY <1>2, <1>3, Stacked, Appended
  <2> HIDE DEF st
  <2>2. QED
    BY <1>8, <2>1
<1>10. PICK x \in Ids \cup {NULL} : x = c
  BY <1>7
<1>11. hubs' = [HubsWithout(Gone(x)) EXCEPT ![k.hub].children[k.port] = NULL] /\ Disconnect(x, st)
  BY <1>1, <1>5, <1>10
<1> HIDE DEF t, c, D, st
<1> DEFINE E == Gone(x)
<1>12. /\ stack' = st
       /\ \A j \in Ids : devices'[j] = IF j \in E THEN NoDevice ELSE devices[j]
  BY <1>9, <1>11, Disconnected
<1>13. E \in SUBSET Ids /\ Closed(E)
  BY GoneSet, NoneGone
<1>14. \A g \in HubIds : hubs'[g].dev = HubsWithout(E)[g].dev
  BY <1>3, <1>6, <1>11, ClearedKeeps
<1>15. (k.todo = {} /\ Return) \/ (k.todo # {} /\ Continue(e))
  BY <1>8, <1>12 DEF Return, Continue
<1> HIDE DEF E
<1>16. \A g \in HubIds : hubs'[g].dev = IF hubs[g].dev \in E THEN NULL ELSE hubs[g].dev
  BY <1>2, <1>3, <1>12, <1>13, <1>14, SlotsWithout
<1>17. Numbered'
  <2>1. ~Enumerating({"descriptor", "setAddress"})
    BY <1>2 DEF Enumerating
  <2>2. ~Enumerating({"setAddress"})'
    <3>1. CASE Return
      <4>1. stack' # <<>> => Top'.pc # "setAddress"
        BY <1>2, <1>3, <3>1, PoppedAt
      <4>2. QED
        BY <4>1 DEF Enumerating
    <3>2. CASE Continue(e)
      <4>1. Top' = e
        BY <1>2, <1>3, <3>2, TopReplaced
      <4>2. QED
        BY <1>6, <4>1 DEF Enumerating
    <3>3. QED
      BY <1>15, <3>1, <3>2
  <2>3. \A j \in Ids : Used(j)' => Used(j) /\ devices'[j].address = devices[j].address
    BY <1>12 DEF Used
  <2>4. QED
    BY <1>3, <2>1, <2>2, <2>3, NumberedKept
<1>18. SUFFICES ASSUME ~missed' PROVE Exclusive'
  BY <1>3, <1>17 DEF BusInv
<1>19. Bus
  BY <1>1, <1>2, <1>18, LiveBus
<1>20. Handles(k)
  BY <1>2, <1>6, <1>19, TopHandles
<1>21. /\ \A g \in HubIds, h \in Things : Serves(g, h) => hubs[g].dev \notin E
       /\ \A j \in E, v \in Things :
            Represents(j, v) => j = x /\ at[v] = <<k.hubThing, k.port>>
  <2>1. CASE x = NULL
    <3>1. E = {}
      BY <2>1, NoneGone DEF E
    <3>2. QED
      BY <3>1
  <2>2. CASE x \in Ids
    BY <1>6, <1>7, <1>10, <1>19, <1>20, <2>2, ChildAt DEF E
  <2>3. QED
    BY <2>1, <2>2
<1>22. /\ HubsServed' /\ ServesKept
       /\ \A i \in Ids, v \in Things : i \notin E /\ Represents(i, v) => Represents(i, v)'
  BY <1>1, <1>12, <1>13, <1>16, <1>19, <1>21, RemovedBus
<1>23. Traces'
  <2>1. SUFFICES ASSUME NEW u \in Things, hw'[u] # Off PROVE at'[u] # Nowhere /\ Traced(u)'
    BY DEF Traces
  <2>2. hw'[u] = hw[u] /\ at'[u] = at[u]
    BY <1>1
  <2>3. at[u] # Nowhere /\ \E i \in Ids : Represents(i, u)
    BY <1>2, <1>19, <2>1, <2>2, QuietTraces
  <2>4. PICK i \in Ids : Represents(i, u)
    BY <2>3
  <2>5. CASE i \notin E
    <3>1. Represents(i, u)'
      BY <1>22, <2>4, <2>5
    <3>2. QED
      BY <2>2, <2>3, <3>1 DEF Traced
  <2>6. CASE i \in E
    <3>1. at[u] = <<k.hubThing, k.port>>
      BY <1>21, <2>4, <2>6
    <3>2. k.todo # {}
      BY <1>6, <1>20, <3>1 DEF Handles, At
    <3>3. Top' = e /\ stack' # <<>>
      BY <1>2, <1>3, <1>15, <3>2, TopReplaced
    <3>4. Resetting(at[u])'
      <4>1. at'[u] = <<Top'.hubThing, Top'.port>>
        BY <1>6, <2>2, <3>1, <3>3
      <4>2. QED
        BY <1>6, <3>3, <4>1 DEF Resetting
    <3>5. ASSUME NEW j \in Ids, Used(j)' PROVE devices'[j].address # hw'[u]
      <4>1. j \notin E /\ devices'[j] = devices[j] /\ Used(j)
        BY <1>12, <3>5 DEF Used
      <4>2. hw[u] = devices[i].address /\ Used(i)
        BY <2>4 DEF Represents
      <4>3. QED
        BY <1>3, <2>2, <2>6, <4>1, <4>2 DEF Numbered
    <3>6. QED
      BY <2>2, <2>3, <3>4, <3>5 DEF Traced
  <2>7. QED
    BY <2>5, <2>6
<1>24. HandlesFit /\ OneLevel
  BY <1>19, BusParts
<1>25. HandlesBelow(Len(stack)) /\ HandlesBelow(Len(stack) - 1)
  BY <1>1, <1>2, <1>3, <1>22, <1>24, HandlesStay
<1>26. HandlesFit' /\ OneLevel'
  <2>1. CASE Return
    BY <1>2, <1>3, <1>24, <1>25, <2>1, FitsPopped
  <2>2. CASE Continue(e)
    <3>1. Handles(k)'
      BY <1>2, <1>3, <1>6, <1>25, TopKeeps
    <3>2. Handles(e)' /\ e.fn = Top.fn
      BY <1>6, <3>1 DEF Handles
    <3>3. QED
      BY <1>2, <1>3, <1>24, <1>25, <2>2, <3>2, FitsReplaced
  <2>3. QED
    BY <1>15, <2>1, <2>2
<1>27. QED
  BY <1>22, <1>23, <1>26 DEF Exclusive

(* A hub that answers gets power and a slot.                                *)
LEMMA PoweredBus ==
  ASSUME Bus, NEW c \in Ids, Used(c), Fresh(c), NEW u \in Hubs, u \in Target(c),
         NEW h \in HubIds, hubs[h].dev = NULL, UNCHANGED <<at, hw, devices>>,
         powered' = powered \cup {u}, hubs'[h].dev = c,
         \A g \in HubIds : g # h => hubs'[g].dev = hubs[g].dev
  PROVE  /\ HubsServed'
         /\ \A i \in Ids, v \in Things : Represents(i, v)' <=> Represents(i, v)
<1>1. TypeOK /\ HubsServed /\ Live /\ Numbered /\ Plugged /\ u \in Things
  BY BusParts DEF Things
<1>2. Represents(c, u)
  BY <1>1, TargetOf
<1>3. devices[c].parent = NULL /\ at[u] = <<Root, devices[c].port>> /\ at[u] # Nowhere
  <2>1. at[u] \in RootPlaces \cup {Nowhere} /\ at[u] # Nowhere
    BY <1>1, <1>2, RepresentedAt DEF Plugged
  <2>2. at[u] \notin Hubs \X HubPorts
    BY <2>1, UsbAssumption DEF RootPlaces
  <2>3. QED
    BY <1>1, <1>2, <2>1, <2>2, RepresentedAt
<1>4. c # NULL /\ \A g \in HubIds : hubs[g].dev # c
  BY Numbers DEF Fresh, NULL
<1>5. \A g \in HubIds : hubs[g].dev # NULL => hubs[g].dev \in Ids /\ Used(hubs[g].dev)
  BY <1>1, SlotDevice
<1>6. ASSUME NEW g \in HubIds, g # h, NEW v \in Things PROVE Serves(g, v)' <=> Serves(g, v)
  <2>1. CASE hubs[g].dev = NULL
    BY <1>6, <2>1 DEF Serves
  <2>2. CASE hubs[g].dev # NULL
    <3>1. PICK d \in Ids : d = hubs[g].dev /\ d = hubs'[g].dev /\ Used(d) /\ d # c
      BY <1>4, <1>5, <1>6, <2>2
    <3>2. hw[u] # devices[d].address
      BY <1>1, <1>2, <3>1 DEF Numbered, Represents
    <3>3. QED
      BY <3>1, <3>2 DEF Serves
  <2>3. QED
    BY <2>1, <2>2
<1>7. Serves(h, u)'
  BY <1>2, <1>3, <1>4 DEF Serves, Represents
<1>8. ASSUME NEW i \in Ids, NEW v \in Things PROVE Represents(i, v)' <=> Represents(i, v)
  <2>1. Used(i)' <=> Used(i)
    BY DEF Used
  <2>2. devices[i].parent # NULL =>
          ((\E g \in HubIds, w \in Hubs :
              hubs[g].dev = devices[i].parent /\ Serves(g, w) /\ at[v] = <<w, devices[i].port>>)'
           <=> \E g \in HubIds, w \in Hubs :
              hubs[g].dev = devices[i].parent /\ Serves(g, w) /\ at[v] = <<w, devices[i].port>>)
    <3>1. SUFFICES ASSUME devices[i].parent # NULL
                   PROVE  (\E g \in HubIds, w \in Hubs :
                             hubs[g].dev = devices[i].parent /\ Serves(g, w) /\ at[v] = <<w, devices[i].port>>)'
                          <=> \E g \in HubIds, w \in Hubs :
                             hubs[g].dev = devices[i].parent /\ Serves(g, w) /\ at[v] = <<w, devices[i].port>>
      OBVIOUS
    <3>2. devices[i].parent # c
      BY DEF Fresh
    <3>3. ASSUME NEW g \in HubIds PROVE hubs'[g].dev = devices[i].parent <=> hubs[g].dev = devices[i].parent
      BY <3>1, <3>2
    <3>4. ASSUME NEW g \in HubIds, NEW w \in Hubs, hubs[g].dev = devices[i].parent
          PROVE  Serves(g, w)' <=> Serves(g, w)
      BY <1>6, <3>1, <3>4 DEF Things
    <3>5. QED
      BY <3>3, <3>4
  <2>3. QED
    BY <2>1, <2>2 DEF Represents
<1>9. HubsServed'
  <2>1. ASSUME NEW w \in powered' PROVE \E g \in HubIds : Serves(g, w)'
    <3>1. CASE w = u
      BY <1>7, <3>1
    <3>2. CASE w # u
      <4>1. w \in powered /\ w \in Things
        BY <1>1, <2>1, <3>2 DEF TypeOK, Things
      <4>2. PICK g \in HubIds : Serves(g, w)
        BY <1>1, <4>1 DEF HubsServed
      <4>3. g # h
        BY <4>2 DEF Serves
      <4>4. QED
        BY <1>6, <4>1, <4>2, <4>3
    <3>3. QED
      BY <3>1, <3>2
  <2>2. \A w \in Hubs \ powered' : \A v \in OnHub(w)' : hw'[v] = Off
    BY <1>1 DEF HubsServed, OnHub
  <2>3. ASSUME NEW g \in HubIds, NEW v \in Things, hubs'[g].dev # NULL, Represents(hubs[g].dev, v)'
        PROVE  Serves(g, v)'
    <3>1. CASE g = h
      <4>1. Represents(c, v)'
        BY <2>3, <3>1
      <4>2. v = u
        BY <1>1, <1>2, <1>8, <4>1, OneThing
      <4>3. QED
        BY <1>7, <3>1, <4>2
    <3>2. CASE g # h
      <4>1. PICK d \in Ids : d = hubs[g].dev /\ d = hubs'[g].dev
        BY <1>5, <2>3, <3>2
      <4>2. Represents(d, v)'
        BY <2>3, <4>1
      <4>3. Represents(hubs[g].dev, v) /\ hubs[g].dev # NULL
        BY <1>8, <2>3, <4>1, <4>2
      <4>4. QED
        BY <1>1, <1>6, <3>2, <4>3 DEF HubsServed
    <3>3. QED
      BY <3>1, <3>2
  <2>4. QED
    BY <2>1, <2>2, <2>3 DEF HubsServed
<1>10. QED
  BY <1>8, <1>9

LEMMA HubProbeBus ==
  ASSUME UsbInv, UsbInv', BusInv, HubProbe
  PROVE  BusInv'
<1> DEFINE t == Top  u == t.hubThing
           free == {g \in HubIds : hubs[g].dev = NULL}
           h == CHOOSE g \in free : \A k \in free : g <= k
           f == [t EXCEPT !.hub = h, !.pc = "ports"]
           r == [NoHub EXCEPT !.dev = t.dev]
<1>1. /\ Running("hubProbe", "probe") /\ UNCHANGED <<at, hw, devices, halt>>
      /\ \/ /\ free # {} /\ u \in Target(t.dev) /\ powered' = powered \cup {u}
            /\ hubs' = [hubs EXCEPT ![h] = r] /\ Continue(f) /\ UNCHANGED missed
         \/ Return /\ missed' = TRUE
         \/ Return /\ missed' = (missed \/ u \in Target(t.dev)) /\ UNCHANGED <<hubs, powered>>
  BY DEF HubProbe, table
<1>2. /\ Live /\ stack # <<>> /\ halt = "no" /\ t \in Frame /\ t.fn = "hubProbe" /\ t.pc = "probe"
      /\ Quiet /\ Top.pc \notin {"descriptor", "setAddress"} /\ Top.fn = t.fn /\ FrameOK(t)
  BY <1>1, AtTopQuiet
<1>3. /\ stack \in Seq(Frame) /\ stack' \in Seq(Frame) /\ TypeOK /\ TypeOK' /\ Calls
      /\ Plugged /\ Numbered /\ Plugged'
  BY <1>1, <1>2, GoingParts, LiveBus, SamePlugged DEF UsbInv
<1>4. t.dev # NULL /\ t.dev \in Ids /\ u \in Hubs /\ Used(t.dev) /\ Fresh(t.dev)
  BY <1>2 DEF FrameOK, HubProbeOK, Frame
<1>5. CASE Return /\ missed' = (missed \/ u \in Target(t.dev)) /\ UNCHANGED <<hubs, powered>>
  <2>1. missed => missed'
    BY <1>5
  <2>2. BusSame
    BY <1>1, <1>5, <2>1, BusSameTable
  <2> HIDE DEF Frame
  <2>3. QED
    BY <1>2, <1>5, <2>2, QuietReturn
<1>6. CASE Return /\ missed' = TRUE
  <2> HIDE DEF Frame
  <2>1. stack' # <<>> => Top'.pc # "setAddress"
    BY <1>2, <1>3, <1>6, PoppedAt
  <2>2. ~Enumerating({"descriptor", "setAddress"}) /\ ~Enumerating({"setAddress"})'
    BY <1>2, <2>1 DEF Enumerating
  <2>3. \A j \in Ids : Used(j)' => Used(j) /\ devices'[j].address = devices[j].address
    BY <1>1 DEF Used
  <2>4. Numbered'
    BY <1>3, <2>2, <2>3, NumberedKept
  <2>5. QED
    BY <1>3, <1>6, <2>4 DEF BusInv
<1>7. CASE /\ free # {} /\ u \in Target(t.dev) /\ powered' = powered \cup {u}
           /\ hubs' = [hubs EXCEPT ![h] = r] /\ Continue(f) /\ UNCHANGED missed
  <2>1. h \in free
    <3>1. free \in SUBSET Nat
      BY Numbers
    <3> HIDE DEF free
    <3>2. QED
      BY <1>7, <3>1, LeastChosen
  <2> HIDE DEF h
  <2>2. PICK k \in HubIds : k = h /\ hubs[k].dev = NULL
    BY <2>1
  <2>3. h \in 0..(USB_MAX_HUBS + 1)
    BY <2>2, UsbAssumption DEF HubIds
  <2> HIDE DEF t, free
  <2>4. f.pc = "ports" /\ f.fn = "hubProbe"
    BY <1>2, <2>3 DEF Frame
  <2>5. r.dev = t.dev
    BY DEF NoHub
  <2> HIDE DEF f, r, Frame
  <2>6. PICK c \in Ids, w \in Hubs : c = t.dev /\ w = u
    BY <1>4
  <2>7. hubs'[k].dev = c /\ \A g \in HubIds : g # k => hubs'[g].dev = hubs[g].dev
    BY <1>3, <1>7, <2>2, <2>5, <2>6 DEF TypeOK
  <2>8. PICK e \in Frame : e = f
    BY <1>2, <1>3, <1>7, FrameOf
  <2>9. Continue(e)
    BY <1>7, <2>8
  <2>10. Top' = e /\ stack' # <<>>
    BY <1>2, <1>3, <2>9, TopReplaced
  <2>11. Numbered'
    <3>1. ~Enumerating({"descriptor", "setAddress"}) /\ ~Enumerating({"setAddress"})'
      BY <1>2, <2>4, <2>8, <2>10 DEF Enumerating
    <3>2. \A j \in Ids : Used(j)' => Used(j) /\ devices'[j].address = devices[j].address
      BY <1>1 DEF Used
    <3>3. QED
      BY <1>3, <3>1, <3>2, NumberedKept
  <2>12. SUFFICES ASSUME ~missed' PROVE Exclusive'
    BY <1>3, <2>11 DEF BusInv
  <2>13. Bus
    BY <1>2, <1>7, <2>12, LiveBus
  <2>14. Used(c) /\ Fresh(c) /\ w \in Target(c) /\ powered' = powered \cup {w} /\ UNCHANGED <<at, hw, devices>>
    BY <1>1, <1>4, <1>7, <2>6
  <2>15. HubsServed' /\ \A i \in Ids, v \in Things : Represents(i, v)' <=> Represents(i, v)
    BY <2>2, <2>7, <2>13, <2>14, PoweredBus
  <2>16. Traces'
    <3>1. SUFFICES ASSUME NEW v \in Things, hw'[v] # Off PROVE at'[v] # Nowhere /\ Traced(v)'
      BY DEF Traces
    <3>2. hw'[v] = hw[v] /\ at'[v] = at[v]
      BY <1>1
    <3>3. at[v] # Nowhere /\ \E i \in Ids : Represents(i, v)
      BY <1>2, <2>13, <3>1, <3>2, QuietTraces
    <3>4. PICK i \in Ids : Represents(i, v)
      BY <3>3
    <3>5. Represents(i, v)'
      BY <2>15, <3>4
    <3>6. QED
      BY <3>2, <3>3, <3>5 DEF Traced
  <2>17. OneLevel
    BY <2>13, BusParts
  <2>18. HandlesBelow(Len(stack) - 1)
    <3> DEFINE n == Len(stack)
    <3>1. n \in Nat /\ n >= 1 /\ DOMAIN stack = 1..n /\ stack[n] = Top
      BY <1>2, <1>3, Stacked
    <3> HIDE DEF n
    <3>2. SUFFICES ASSUME NEW i \in 1..(n - 1), NEW b \in Frame, b = stack[i] PROVE Handles(b)'
      BY DEF HandlesBelow, n
    <3>3. i \in DOMAIN stack /\ n \in DOMAIN stack /\ i < n /\ stack[n].fn = "hubProbe"
      BY <1>2, <3>1
    <3>4. b.fn # "handle"
      BY <2>17, <3>2, <3>3 DEF OneLevel
    <3>5. QED
      BY <3>4 DEF Handles
  <2>19. Handles(e)' /\ e.fn = Top.fn
    BY <1>2, <2>4, <2>8 DEF Handles
  <2>20. HandlesFit' /\ OneLevel'
    BY <1>2, <1>3, <2>9, <2>17, <2>18, <2>19, FitsReplaced
  <2>21. QED
    BY <2>15, <2>16, <2>20 DEF Exclusive
<1>8. QED
  BY <1>1, <1>5, <1>6, <1>7

-----------------------------------------------------------------------------
(* Every step keeps the things and the devices together.                    *)
LEMMA BusInvInit ==
  ASSUME Init
  PROVE  BusInv
<1>1. /\ \A t \in Things : at[t] = Nowhere /\ hw[t] = Off
      /\ \A i \in Ids : devices[i] = NoDevice /\ ~Used(i)
      /\ \A g \in HubIds : hubs[g].dev = NULL
      /\ powered = {} /\ stack = <<>>
  BY DEF Init, Used, NoHub
<1>2. Plugged
  BY <1>1 DEF Plugged, Things
<1>3. \A i \in Ids : devices[i].address # 0
  BY <1>1 DEF NoDevice, Off
<1>4. Numbered
  BY <1>1, <1>3 DEF Numbered, Enumerating
<1>5. Traces
  BY <1>1 DEF Traces
<1>6. HubsServed
  BY <1>1 DEF HubsServed, OnHub
<1>7. HandlesFit /\ OneLevel
  BY <1>1 DEF HandlesFit, OneLevel
<1>8. QED
  BY <1>2, <1>4, <1>5, <1>6, <1>7 DEF BusInv, Exclusive

LEMMA BusInvStutter ==
  ASSUME UsbInv, BusInv, UNCHANGED vars
  PROVE  BusInv'
<1>1. UNCHANGED <<at, hw, powered, devices, hubs, stack, halt, missed>>
  BY DEF vars, sysVars, world, table, drivers
<1>2. CASE halt = "no"
  <2>1. BusSame
    BY <1>1, BusSameTable
  <2>2. QED
    BY <1>1, <1>2, <2>1, QuietStutter
<1>3. CASE halt # "no"
  <2>1. Plugged'
    BY <1>1, SamePlugged DEF BusInv
  <2>2. QED
    BY <1>1, <1>3, <2>1 DEF BusInv
<1>4. QED
  BY <1>2, <1>3

LEMMA ShutdownBus ==
  ASSUME BusInv, USB_Shutdown
  PROVE  BusInv'
<1>1. UNCHANGED at /\ halt' = "shutdown"
  BY DEF USB_Shutdown, world
<1>2. Plugged'
  BY <1>1, SamePlugged DEF BusInv
<1>3. QED
  BY <1>1, <1>2 DEF BusInv

LEMMA BusInvStep ==
  ASSUME UsbInv, UsbInv', BusInv, ~Crossing', [Next]_vars
  PROVE  BusInv'
<1>1. CASE \E t \in Things : Unplug(t) \/ \E place \in Places : Plug(t, place)
  BY <1>1, UnplugBus, PlugBus
<1>2. CASE StartPoll \/ StartHubPoll \/ \E s \in Slots : StartScan(s)
  BY <1>2, BusBegins
<1>3. CASE PollStep
  BY <1>3, RootStatusBus, BusEnds, RootResetBus, EnumerateRootBus DEF PollStep
<1>4. CASE EnumerationStep
  BY <1>4, AllocateDeviceBus, GetDescriptorBus, SetAddressBus, ConfigureBus, BusEnds
  DEF EnumerationStep
<1>5. CASE HubStep
  BY <1>5, HubProbeBus, HubProbePortsBus, HubPollBus, HubPollPortsBus, PortStatusBus,
     PortClearBus, PortResetBus, EnumerateChildBus, BusEnds DEF HubStep
<1>6. CASE StorageStep
  BY <1>6, MassProbeBus, MaxLunBus, ScanBus, BusEnds DEF StorageStep
<1>7. CASE USB_Shutdown
  BY <1>7, ShutdownBus
<1>8. CASE UNCHANGED vars
  BY <1>8, BusInvStutter
<1>9. QED
  BY <1>1, <1>2, <1>3, <1>4, <1>5, <1>6, <1>7, <1>8 DEF Next, Step

(* No two things on the bus answer to the same address as long as every     *)
(* transfer succeeds, however USB_Poll, hubPoll and the scans reset,        *)
(* address and give up on what is plugged and unplugged meanwhile, until a  *)
(* callback that has found something to do interrupts another one.          *)
THEOREM UsbBusExclusive ==
  Spec => []BusExclusive
<1>1. Init => crossed \/ (UsbInv /\ BusInv)
  BY UsbInvInit, BusInvInit
<1>2. (crossed \/ (UsbInv /\ BusInv)) /\ [Next]_vars => (crossed \/ (UsbInv /\ BusInv))'
  <2> SUFFICES ASSUME crossed \/ (UsbInv /\ BusInv), [Next]_vars, ~crossed' PROVE UsbInv' /\ BusInv'
    OBVIOUS
  <2>1. UsbInv /\ BusInv /\ (~Crossing' \/ UNCHANGED vars)
    BY Uncrossed
  <2>2. CASE ~Crossing'
    BY <2>1, <2>2, UsbInvStep, BusInvStep
  <2>3. CASE UNCHANGED vars
    BY <2>1, <2>3, UsbInvStutter, BusInvStutter
  <2>4. QED
    BY <2>1, <2>2, <2>3
<1>3. UsbInv /\ BusInv => BusExclusive
  BY BusExclusiveFollows
<1>4. crossed \/ (UsbInv /\ BusInv) => BusExclusive
  BY <1>3 DEF BusExclusive
<1>5. QED
  BY <1>1, <1>2, <1>4, PTL DEF Spec
=============================================================================

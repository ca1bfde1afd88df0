--------------------------------- MODULE Usb ---------------------------------
(***************************************************************************)
(* The USB stack above the host controllers: the device table and its      *)
(* polling (usb.c), hubs (usb_hub.c) and mass storage (usb_storage.c).     *)
(*                                                                         *)
(* Everything runs in timer callbacks: USB_Poll watches the root ports,    *)
(* hubPoll the hubs, and massScan, queued once by massProbe, looks for the *)
(* units of a stick.  A callback waits for transfers and delays; meanwhile *)
(* the user plugs and unplugs, a boot chosen in the menu may shut the      *)
(* stack down, and other callbacks may run, up to MaxNesting of them       *)
(* inside each other.  stack holds the calls in progress, the running one  *)
(* last; each action runs it up to its next wait.                          *)
(*                                                                         *)
(* One bus is modelled, and one level of hubs: a hub is plugged into a     *)
(* root port only.                                                         *)
(***************************************************************************)
EXTENDS Integers, Sequences, SequencesExt, FiniteSets

CONSTANTS
  Hubs, Sticks,      \* what a user plugs in
  RootPorts,         \* 1..numPorts of the controller
  HubPorts,          \* 1..numPorts of each hub
  USB_MAX_DEVICES, USB_MAX_HUBS, USB_MSC_MAX_DEVICES,
  Luns,              \* 1..numLuns of each stick
  MaxNesting,        \* bound: callbacks of the stack that may be active at once
  BeyondCrossing,    \* bound: whether a run goes on after two have crossed
  Root, Nowhere

Things == Hubs \cup Sticks
RootPlaces == {Root} \X RootPorts
Places == RootPlaces \cup (Hubs \X HubPorts)

ASSUME UsbAssumption ==
  /\ Hubs \cap Sticks = {} /\ Root \notin Hubs /\ Root \notin Sticks /\ Nowhere \notin Places
  /\ USB_MAX_DEVICES \in Nat \ {0} /\ USB_MAX_HUBS \in Nat \ {0}
  /\ USB_MSC_MAX_DEVICES \in Nat \ {0} /\ MaxNesting \in Nat \ {0}
  /\ \A S \in {RootPorts, HubPorts, Luns} :
       IsFiniteSet(S) /\ S # {} /\ S = 1..Cardinality(S)

Ids == 1..USB_MAX_DEVICES          \* indices of devices[], and what points there
HubIds == 1..USB_MAX_HUBS
Slots == 1..USB_MSC_MAX_DEVICES
NULL == 0
Freed == -1                        \* a pointer to a device that has been freed
Off == -1                          \* the address of a thing that is not enabled

VARIABLES
  at,          \* where each thing is plugged in
  hw,          \* the address it answers to, 0 after a reset
  powered,     \* the hubs whose ports have power
  change,      \* the hub ports with C_PORT_CONNECTION set
  devices,     \* devices[]
  rootDevices, connectedPorts,
  hubs,        \* hubs[] of the hub driver
  storage,     \* storageDevices[] of the mass storage driver
  queued,      \* how many massScan events are queued for each of them
  blocks,      \* the units in B_Devices
  stack,       \* the calls in progress
  halt,        \* "no" or "shutdown"
  missed,      \* history: a transfer failed, a table was full, or a change
               \* was too quick to be noticed
  crossed      \* history: a callback that found something to do has
               \* interrupted another one

world == <<at, powered, change>>
table == <<devices, rootDevices>>
drivers == <<hubs, storage, queued, blocks>>
sysVars == <<world, hw, table, connectedPorts, drivers, stack, halt, missed>>
vars == <<sysVars, crossed>>

NoDevice == [parent |-> NULL, port |-> 0, address |-> Off, driver |-> "none", data |-> 0]
NoHub == [dev |-> NULL, children |-> [p \in HubPorts |-> NULL]]
NoStorage == [dev |-> NULL, scanPending |-> FALSE, registered |-> {}]

Init ==
  /\ at = [t \in Things |-> Nowhere] /\ hw = [t \in Things |-> Off]
  /\ powered = {} /\ change = {}
  /\ devices = [i \in Ids |-> NoDevice] /\ rootDevices = [p \in RootPorts |-> NULL]
  /\ connectedPorts = {}
  /\ hubs = [h \in HubIds |-> NoHub]
  /\ storage = [s \in Slots |-> NoStorage] /\ queued = [s \in Slots |-> 0]
  /\ blocks = {} /\ stack = <<>> /\ halt = "no"
  /\ missed = FALSE /\ crossed = FALSE

-----------------------------------------------------------------------------
(***************************************************************************)
(* The bus, as far as the stack can tell.                                  *)
(***************************************************************************)
OnHub(h) == {t \in Things : at[t] \in {h} \X HubPorts}
Reachable(t) == at[t] \in RootPlaces \/ \E h \in powered : t \in OnHub(h)
Answering(a) == {t \in Things : Reachable(t) /\ hw[t] = a}

Used(i) == devices[i] # NoDevice
\* The things a transfer to device i reaches, itself if all is well.
Target(i) == Answering(devices[i].address)

\* A port of a hub that has power latches every change.
Latched(place) == IF \E h \in powered : place \in {h} \X HubPorts THEN {place} ELSE {}

\* What cannot be noticed: a root port filled before USB_Poll has seen it
\* empty, and a hub port filled after its status was read as empty and
\* before the change this set is cleared.
Unnoticed(place) ==
  \/ place \in {Root} \X connectedPorts
  \/ \E i \in DOMAIN stack : /\ stack[i].fn = "handle" /\ stack[i].pc = "clear"
                             /\ place = <<stack[i].hubThing, stack[i].port>>

Plug(t, place) ==
  /\ halt = "no" /\ at[t] = Nowhere
  /\ \A u \in Things : at[u] # place
  /\ t \in Hubs => place \in RootPlaces
  /\ at' = [at EXCEPT ![t] = place]
  /\ change' = change \cup Latched(place)
  /\ missed' = (missed \/ Unnoticed(place))
  /\ UNCHANGED <<hw, powered, table, connectedPorts, drivers, stack, halt>>

\* What is unplugged loses power, and a hub all that is plugged into it.
Unplug(t) ==
  /\ halt = "no" /\ at[t] # Nowhere
  /\ at' = [at EXCEPT ![t] = Nowhere]
  /\ change' = (change \cup Latched(at[t])) \ ({t} \X HubPorts)
  /\ hw' = [u \in Things |-> IF u = t \/ u \in OnHub(t) THEN Off ELSE hw[u]]
  /\ powered' = powered \ {t}
  /\ UNCHANGED <<table, connectedPorts, drivers, stack, halt, missed>>

\* Resetting a port enables what is there, at address 0; a hub loses the
\* power of its ports.
Resets(t) ==
  /\ hw' = [u \in Things |->
             IF u = t THEN 0 ELSE IF u \in OnHub(t) THEN Off ELSE hw[u]]
  /\ powered' = powered \ {t}
  /\ change' = change \ ({t} \X HubPorts)

-----------------------------------------------------------------------------
(***************************************************************************)
(* Control.                                                                *)
(***************************************************************************)
Top == Last(stack)
Callbacks == {"poll", "hubPoll", "scan"}
Active == {i \in DOMAIN stack : stack[i].fn \in Callbacks}
Call(fn, pc) ==
  [fn |-> fn, pc |-> pc, port |-> 1, dev |-> NULL, parent |-> NULL, hub |-> 0,
   hubThing |-> Nowhere, todo |-> {}, slot |-> 0, lun |-> 1, address |-> 0]

\* The timer calls fn (for a slot): not while that is running.
Callback(fn, slot) ==
  /\ halt = "no" /\ Cardinality(Active) < MaxNesting
  /\ \A i \in Active : stack[i].fn = fn => stack[i].slot # slot

\* One has interrupted another: then its first frame is above that one's.
Crossing ==
  \E i, j \in DOMAIN stack : i < j /\ {stack[i].fn, stack[j].fn} \subseteq Callbacks

\* The device that the running call dereferences next was freed, or its
\* driver's structure cleared, by a callback that interrupted it: nothing is
\* said of what it does then.
Lost(dev) == dev \notin Ids \/ ~Used(dev)
Dangling ==
  \/ Top.dev = Freed \/ Top.parent = Freed
  \/ Top.fn \in {"handle", "hubProbe"} /\ Top.hub # 0 /\ Lost(hubs[Top.hub].dev)
  \/ Top.fn = "hubPoll" /\ Top.hub \in HubIds /\ hubs[Top.hub].dev # NULL /\ Lost(hubs[Top.hub].dev)
  \/ Top.fn = "scan" /\ Lost(storage[Top.slot].dev)

Running(fn, pc) ==
  halt = "no" /\ stack # <<>> /\ Top.fn = fn /\ Top.pc = pc /\ ~Dangling

Push(f) == stack' = Append(stack, f)
Continue(f) == stack' = Append(Front(stack), f)
Goto(pc) == Continue([Top EXCEPT !.pc = pc])
Return == stack' = Front(stack)
\* The running call f calls g.
CallFrom(f, g) == stack' = Append(Append(Front(stack), f), g)

-----------------------------------------------------------------------------
(***************************************************************************)
(* disconnectDevice of device i: its driver lets go of it, then the same   *)
(* for the devices behind it, and all of them are freed.                   *)
(***************************************************************************)

\* Device i and, again and again, those that are connected to one of them.
Behind(D) == {j \in Ids : Used(j) /\ devices[j].parent \in D}
Gone(i) ==
  IF i = NULL THEN {}
  ELSE {j \in Ids : \A D \in SUBSET Ids : i \in D /\ Behind(D) \subseteq D => j \in D}

\* hubRemove and massRemove, for a driver that is bound.
HubsWithout(D) ==
  [h \in HubIds |->
     IF \E i \in D : devices[i].driver = "hub" /\ devices[i].data = h THEN NoHub ELSE hubs[h]]

BoundStorage(D) == {s \in Slots : \E i \in D : devices[i].driver = "mass" /\ devices[i].data = s}

StorageWithout(D) ==
  [s \in Slots |->
     IF s \notin BoundStorage(D) THEN storage[s]
     ELSE IF storage[s].scanPending
     THEN [storage[s] EXCEPT !.dev = NULL, !.registered = {}] ELSE NoStorage]

BlocksWithout(D) ==
  {b \in blocks : b[1] \notin BoundStorage(D) \/ b[2] \notin storage[b[1]].registered}

\* Pointers of interrupted calls to the freed devices.
Invalidated(st, D) ==
  [i \in DOMAIN st |->
     [st[i] EXCEPT !.dev = IF @ \in D THEN Freed ELSE @,
                   !.parent = IF @ \in D THEN Freed ELSE @]]

\* st: the calls in progress after this.
Disconnect(i, st) ==
  LET D == Gone(i) IN
  /\ devices' = [j \in Ids |-> IF j \in D THEN NoDevice ELSE devices[j]]
  /\ storage' = StorageWithout(D)
  /\ blocks' = BlocksWithout(D)
  /\ stack' = Invalidated(st, D)

-----------------------------------------------------------------------------
(***************************************************************************)
(* USB_Poll: the root ports, in order.  knownPorts is left out: a port that *)
(* was never looked at is not in connectedPorts either.                    *)
(***************************************************************************)
At(port) == {t \in Things : at[t] = port}
Noticed(p) == (At(<<Root, p>>) # {}) # (p \in connectedPorts)

\* Inside another callback it is a step only if there is something to do:
\* reading the ports waits for nothing and changes nothing.
StartPoll ==
  /\ Callback("poll", 0)
  /\ \/ Active = {} /\ Push(Call("poll", "status"))
     \/ Active # {} /\ \E p \in RootPorts :
          Noticed(p) /\ Push([Call("poll", "status") EXCEPT !.port = p])
  /\ UNCHANGED <<world, hw, table, connectedPorts, drivers, halt, missed>>

NextPort == [Top EXCEPT !.pc = "status", !.port = @ + 1]
Onwards == Append(Front(stack), NextPort)

RootStatus ==
  LET p == Top.port  connected == At(<<Root, p>>) # {} IN
  /\ Running("poll", "status") /\ p \in RootPorts
  /\ \/ /\ ~Noticed(p)
        /\ stack' = Onwards /\ UNCHANGED <<table, connectedPorts, drivers>>
     \/ /\ ~connected /\ p \in connectedPorts
        /\ connectedPorts' = connectedPorts \ {p}
        /\ Disconnect(rootDevices[p], Onwards)
        /\ rootDevices' = [rootDevices EXCEPT ![p] = NULL]
        /\ hubs' = HubsWithout(Gone(rootDevices[p])) /\ UNCHANGED queued
     \/ /\ connected /\ p \notin connectedPorts
        /\ Goto("settle") /\ UNCHANGED <<table, connectedPorts, drivers>>
  /\ UNCHANGED <<world, hw, halt, missed>>

EndPoll ==
  /\ Running("poll", "status") /\ Top.port \notin RootPorts
  /\ Return
  /\ UNCHANGED <<world, hw, table, connectedPorts, drivers, halt, missed>>

\* After 100 ms: still there, and the reset succeeds, or fails half-way.
RootReset ==
  LET there == At(<<Root, Top.port>>) IN
  /\ Running("poll", "settle")
  /\ \/ /\ \E t \in there : Resets(t)
        /\ \/ /\ connectedPorts' = connectedPorts \cup {Top.port}
              /\ Goto("enumerate") /\ UNCHANGED missed
           \/ stack' = Onwards /\ missed' = TRUE /\ UNCHANGED connectedPorts
     \/ /\ stack' = Onwards /\ missed' = (missed \/ there # {})
        /\ UNCHANGED <<hw, powered, change, connectedPorts>>
  /\ UNCHANGED <<at, table, drivers, halt>>

\* enumerateDevice of hub h, or of the root ports if h is 0.
Enumeration(h, parent, port) ==
  [Call("enumerate", "allocate") EXCEPT !.hub = h, !.parent = parent, !.port = port]

EnumerateRoot ==
  /\ Running("poll", "enumerate")
  /\ CallFrom(NextPort, Enumeration(0, NULL, Top.port))
  /\ UNCHANGED <<world, hw, table, connectedPorts, drivers, halt, missed>>

-----------------------------------------------------------------------------
(***************************************************************************)
(* enumerateDevice.  result is where it leaves the device: rootDevices of  *)
(* a port or children of a hub.                                            *)
(***************************************************************************)
Result(i) ==
  IF Top.hub = 0
  THEN rootDevices' = [rootDevices EXCEPT ![Top.port] = i] /\ UNCHANGED hubs
  ELSE hubs' = [hubs EXCEPT ![Top.hub].children[Top.port] = i] /\ UNCHANGED rootDevices

AllocateDevice ==
  LET free == {i \in Ids : ~Used(i)}
      i == CHOOSE j \in free : \A k \in free : j <= k
  IN
  /\ Running("enumerate", "allocate")
  /\ \/ /\ free # {}
        /\ devices' = [devices EXCEPT ![i] =
             [NoDevice EXCEPT !.parent = Top.parent, !.port = Top.port, !.address = 0]]
        /\ Result(i)
        /\ Continue([Top EXCEPT !.dev = i, !.pc = "descriptor"]) /\ UNCHANGED missed
     \/ /\ free = {}
        /\ Return /\ missed' = TRUE /\ UNCHANGED <<table, hubs>>
  /\ UNCHANGED <<world, hw, connectedPorts, storage, queued, blocks, halt>>

\* What has been reset or addressed keeps its address.
Fail ==
  /\ Disconnect(Top.dev, Front(stack))
  /\ Result(NULL)
  /\ missed' = (missed \/ Target(Top.dev) # {})
  /\ UNCHANGED queued

\* Mutant: devices behind a hub are forgotten.
AddressOfRoot ==
  LET used == {devices[i].address : i \in {j \in Ids : Used(j) /\ devices[j].parent = NULL}}
  IN CHOOSE a \in 1..(USB_MAX_DEVICES + 1) : a \notin used /\ \A b \in 1..(a - 1) : b \in used

\* The first address that no connected device has.
AllocateAddress ==
  LET used == {devices[i].address : i \in {j \in Ids : Used(j)}}
  IN CHOOSE a \in 1..(USB_MAX_DEVICES + 1) : a \notin used /\ \A b \in 1..(a - 1) : b \in used

\* The first 8 bytes of the descriptor, from address 0.
GetDescriptor ==
  /\ Running("enumerate", "descriptor")
  /\ \/ /\ Target(Top.dev) # {}
        /\ Continue([Top EXCEPT !.pc = "setAddress", !.address = AllocateAddress])
        /\ UNCHANGED <<table, drivers, missed>>
     \/ Fail
  /\ UNCHANGED <<world, hw, connectedPorts, halt>>

\* Whoever is at address 0 takes the new one; the answer may be lost.
SetAddress ==
  /\ Running("enumerate", "setAddress")
  /\ LET reached == Target(Top.dev) IN
     \/ /\ reached # {}
        /\ hw' = [t \in Things |-> IF t \in reached THEN Top.address ELSE hw[t]]
        /\ \/ /\ devices' = [devices EXCEPT ![Top.dev].address = Top.address]
              /\ Goto("configure") /\ UNCHANGED <<rootDevices, drivers, missed>>
           \/ Fail
     \/ Fail /\ UNCHANGED hw
  /\ UNCHANGED <<world, connectedPorts, halt>>

\* The descriptors, configureDevice and bindInterface: the class decides
\* which driver probes.
Configure ==
  /\ Running("enumerate", "configure")
  /\ \/ /\ \E t \in Target(Top.dev) :
             CallFrom([Top EXCEPT !.pc = "bound"],
               [Call(IF t \in Hubs THEN "hubProbe" ELSE "massProbe", "probe")
                  EXCEPT !.dev = Top.dev, !.hubThing = t])
        /\ UNCHANGED <<table, drivers, missed>>
     \/ Fail
  /\ UNCHANGED <<world, hw, connectedPorts, halt>>

\* Whether or not a driver took it, the device is enumerated.
EndEnumeration ==
  /\ Running("enumerate", "bound")
  /\ Return
  /\ UNCHANGED <<world, hw, table, connectedPorts, drivers, halt, missed>>

-----------------------------------------------------------------------------
(***************************************************************************)
(* usb_hub.c.                                                              *)
(***************************************************************************)
Bound(i, driver, data) ==
  devices' = [devices EXCEPT ![i].driver = driver, ![i].data = data]

\* hubProbe takes a free hubs[] and powers the ports, or gives it back.
HubProbe ==
  LET free == {h \in HubIds : hubs[h].dev = NULL}
      h == CHOOSE g \in free : \A k \in free : g <= k
      t == Top.hubThing
  IN
  /\ Running("hubProbe", "probe") /\ Top.hub = 0
  /\ \/ /\ free # {} /\ t \in Target(Top.dev)
        /\ powered' = powered \cup {t}
        /\ change' = change \cup {at[u] : u \in OnHub(t)}
        /\ \/ /\ hubs' = [hubs EXCEPT ![h] = [NoHub EXCEPT !.dev = Top.dev]]
              /\ Continue([Top EXCEPT !.hub = h, !.pc = "ports"]) /\ UNCHANGED missed
           \/ Return /\ missed' = TRUE /\ UNCHANGED hubs
     \/ /\ Return /\ missed' = (missed \/ t \in Target(Top.dev))
        /\ UNCHANGED <<hubs, powered, change>>
  /\ UNCHANGED <<at, hw, table, connectedPorts, storage, queued, blocks, halt>>

HandlePort(h, p) == [Call("handle", "status") EXCEPT !.hub = h, !.port = p]

\* Then it looks at each of them, and is bound.
HubProbePorts ==
  /\ Running("hubProbe", "ports")
  /\ \/ /\ Top.port \in HubPorts
        /\ CallFrom([Top EXCEPT !.port = @ + 1], HandlePort(Top.hub, Top.port))
        /\ UNCHANGED devices
     \/ /\ Top.port \notin HubPorts
        /\ Return /\ Bound(Top.dev, "hub", Top.hub)
  /\ UNCHANGED <<world, hw, rootDevices, connectedPorts, drivers, halt, missed>>

\* hubPoll: each hub in turn reports the ports that have changed.
Changed(t) == {p \in HubPorts : <<t, p>> \in change}

\* The controller has polled them: asking it waits for nothing, and inside
\* another callback this is a step only if a hub has something to report.
StartHubPoll ==
  /\ Callback("hubPoll", 0)
  /\ \/ Active = {} /\ Push([Call("hubPoll", "hub") EXCEPT !.hub = 1])
     \/ Active # {} /\ \E h \in HubIds :
          /\ hubs[h].dev # NULL
          /\ Lost(hubs[h].dev) \/ \E t \in Target(hubs[h].dev) \cap Hubs : Changed(t) # {}
          /\ Push([Call("hubPoll", "hub") EXCEPT !.hub = h])
  /\ UNCHANGED <<world, hw, table, connectedPorts, drivers, halt, missed>>

NextHub == Continue([Top EXCEPT !.hub = @ + 1, !.pc = "hub", !.todo = {}])

HubPoll ==
  /\ Running("hubPoll", "hub") /\ Top.hub \in HubIds
  /\ LET dev == hubs[Top.hub].dev
         reached == IF dev = NULL THEN {} ELSE Target(dev) \cap Hubs
     IN \/ \E t \in reached : Continue([Top EXCEPT !.pc = "ports", !.todo = Changed(t)])
        \/ reached = {} /\ NextHub
  /\ UNCHANGED <<world, hw, table, connectedPorts, drivers, halt, missed>>

HubPollPorts ==
  /\ Running("hubPoll", "ports")
  /\ \/ /\ Top.todo = {} /\ NextHub
     \/ \E p \in Top.todo :
          /\ \A q \in Top.todo : p <= q
          /\ CallFrom([Top EXCEPT !.todo = @ \ {p}], HandlePort(Top.hub, p))
  /\ UNCHANGED <<world, hw, table, connectedPorts, drivers, halt, missed>>

EndHubPoll ==
  /\ Running("hubPoll", "hub") /\ Top.hub \notin HubIds
  /\ Return
  /\ UNCHANGED <<world, hw, table, connectedPorts, drivers, halt, missed>>

\* hubHandlePort reads the port's status.
Child == hubs[Top.hub].children[Top.port]

\* Mutant: only whether something is there counts.
AttentionByState(t) == (At(<<t, Top.port>>) # {}) # (Child # NULL)

NeedsAttention(t) ==
  <<t, Top.port>> \in change \/ (At(<<t, Top.port>>) # {} /\ Child = NULL)

PortStatus ==
  LET reached == Target(hubs[Top.hub].dev) IN
  /\ Running("handle", "status")
  /\ \/ \E t \in reached \cap Hubs :
          /\ IF NeedsAttention(t)
             THEN Continue([Top EXCEPT !.hubThing = t, !.pc = "clear",
                              !.todo = IF At(<<t, Top.port>>) = {} THEN {} ELSE {Top.port}])
             ELSE Return
          /\ UNCHANGED missed
     \/ Return /\ missed' = (missed \/ reached # {})
  /\ UNCHANGED <<world, hw, table, connectedPorts, drivers, halt>>

\* It clears the change, if that transfer succeeds, and detaches the old
\* child.
PortClear ==
  /\ Running("handle", "clear")
  /\ \/ change' = change \ {<<Top.hubThing, Top.port>>} /\ UNCHANGED missed
     \/ UNCHANGED change /\ missed' = (missed \/ <<Top.hubThing, Top.port>> \in change)
  /\ Disconnect(Child, IF Top.todo = {} THEN Front(stack)
                       ELSE Append(Front(stack), [Top EXCEPT !.pc = "reset"]))
  /\ hubs' = [HubsWithout(Gone(Child)) EXCEPT ![Top.hub].children[Top.port] = NULL]
  /\ UNCHANGED <<at, powered, hw, rootDevices, connectedPorts, queued, halt>>

\* After 100 ms it resets the port,
PortReset ==
  /\ Running("handle", "reset")
  /\ LET t == Top.hubThing
         there == IF t \in Target(hubs[Top.hub].dev) THEN At(<<t, Top.port>>) ELSE {}
     IN \/ /\ \E u \in there : Resets(u)
           /\ \/ Goto("enumerate") /\ UNCHANGED missed
              \/ Return /\ missed' = TRUE
        \/ /\ Return /\ missed' = (missed \/ there # {})
           /\ UNCHANGED <<hw, powered, change>>
  /\ UNCHANGED <<at, table, connectedPorts, drivers, halt>>

\* and enumerates the child.
EnumerateChild ==
  /\ Running("handle", "enumerate")
  /\ CallFrom([Top EXCEPT !.pc = "done"],
              Enumeration(Top.hub, hubs[Top.hub].dev, Top.port))
  /\ UNCHANGED <<world, hw, table, connectedPorts, drivers, halt, missed>>

EndHandle ==
  /\ Running("handle", "done")
  /\ Return
  /\ UNCHANGED <<world, hw, table, connectedPorts, drivers, halt, missed>>

-----------------------------------------------------------------------------
(***************************************************************************)
(* usb_storage.c.                                                          *)
(***************************************************************************)
\* Mutant: a slot that waits for its scan is taken.
AnyFreeSlots == {s \in Slots : storage[s].dev = NULL}

FreeSlots == {s \in Slots : storage[s].dev = NULL /\ ~storage[s].scanPending}

\* massProbe takes a free slot and asks for the number of units;
MassProbe ==
  LET s == CHOOSE r \in FreeSlots : \A q \in FreeSlots : r <= q IN
  /\ Running("massProbe", "probe")
  /\ \/ /\ FreeSlots # {}
        /\ storage' = [storage EXCEPT ![s] = [NoStorage EXCEPT !.dev = Top.dev]]
        /\ Continue([Top EXCEPT !.slot = s, !.pc = "maxLun"]) /\ UNCHANGED missed
     \/ /\ Return /\ missed' = (missed \/ Target(Top.dev) # {})
        /\ UNCHANGED storage
  /\ UNCHANGED <<world, hw, table, connectedPorts, hubs, queued, blocks, halt>>

\* with the answer it queues massScan, in 1 s, or it gives the slot back.
MaxLun ==
  LET s == Top.slot IN
  /\ Running("massProbe", "maxLun")
  /\ \/ /\ Target(Top.dev) # {}
        /\ storage' = [storage EXCEPT ![s].scanPending = TRUE]
        /\ queued' = [queued EXCEPT ![s] = @ + 1]
        /\ Bound(Top.dev, "mass", s) /\ UNCHANGED missed
     \/ /\ storage' = [storage EXCEPT ![s] = NoStorage]
        /\ missed' = (missed \/ Target(Top.dev) # {})
        /\ UNCHANGED <<queued, devices>>
  /\ Return
  /\ UNCHANGED <<world, hw, rootDevices, connectedPorts, hubs, blocks, halt>>

\* massScan: the stick may be gone by now.
StartScan(s) ==
  /\ Callback("scan", s) /\ queued[s] > 0
  /\ queued' = [queued EXCEPT ![s] = @ - 1]
  /\ IF storage[s].dev = NULL
     THEN storage' = [storage EXCEPT ![s] = NoStorage] /\ UNCHANGED stack
     ELSE /\ storage' = [storage EXCEPT ![s].scanPending = FALSE]
          /\ Push([Call("scan", "lun") EXCEPT !.slot = s])
  /\ UNCHANGED <<world, hw, table, connectedPorts, hubs, blocks, halt, missed>>

\* setupLun: a unit that answers is registered, which reads it, and only
\* then marked as registered.
SetupLun ==
  /\ Running("scan", "lun") /\ Top.lun \in Luns
  /\ LET reached == Target(storage[Top.slot].dev) # {} IN
     \/ /\ reached
        /\ storage' = [storage EXCEPT ![Top.slot].registered = @ \ {Top.lun}]
        /\ blocks' = blocks \cup {<<Top.slot, Top.lun>>}
        /\ Goto("mark") /\ UNCHANGED missed
     \/ /\ Continue([Top EXCEPT !.lun = @ + 1])
        /\ missed' = (missed \/ reached) /\ UNCHANGED <<storage, blocks>>
  /\ UNCHANGED <<world, hw, table, connectedPorts, hubs, queued, halt>>

MarkRegistered ==
  /\ Running("scan", "mark")
  /\ storage' = [storage EXCEPT ![Top.slot].registered = @ \cup {Top.lun}]
  /\ Continue([Top EXCEPT !.pc = "lun", !.lun = @ + 1])
  /\ UNCHANGED <<world, hw, table, connectedPorts, hubs, queued, blocks, halt, missed>>

EndScan ==
  /\ Running("scan", "lun") /\ Top.lun \notin Luns
  /\ Return
  /\ UNCHANGED <<world, hw, table, connectedPorts, drivers, halt, missed>>

-----------------------------------------------------------------------------
(***************************************************************************)
(* USB_Shutdown, for a boot that the user has chosen, whatever is going    *)
(* on: every root device, and what is behind it, is disconnected.          *)
(***************************************************************************)
USB_Shutdown ==
  LET roots == {i \in Ids : Used(i) /\ devices[i].parent = NULL}
      D == UNION {Gone(i) : i \in roots}
  IN
  /\ halt = "no" /\ halt' = "shutdown"
  /\ devices' = [i \in Ids |-> IF i \in D THEN NoDevice ELSE devices[i]]
  /\ hubs' = HubsWithout(D) /\ storage' = StorageWithout(D) /\ blocks' = BlocksWithout(D)
  /\ UNCHANGED <<world, hw, rootDevices, connectedPorts, queued, stack, missed>>

PollStep == RootStatus \/ EndPoll \/ RootReset \/ EnumerateRoot
EnumerationStep == AllocateDevice \/ GetDescriptor \/ SetAddress \/ Configure \/ EndEnumeration
HubStep == \/ HubProbe \/ HubProbePorts \/ HubPoll \/ HubPollPorts \/ EndHubPoll
           \/ PortStatus \/ PortClear \/ PortReset \/ EnumerateChild \/ EndHandle
StorageStep == MassProbe \/ MaxLun \/ SetupLun \/ MarkRegistered \/ EndScan
Step == PollStep \/ EnumerationStep \/ HubStep \/ StorageStep

Next ==
  /\ \/ \E t \in Things : Unplug(t) \/ \E place \in Places : Plug(t, place)
     \/ StartPoll \/ StartHubPoll \/ \E s \in Slots : StartScan(s)
     \/ Step
     \/ USB_Shutdown
  /\ crossed => BeyondCrossing
  /\ crossed' = (crossed \/ Crossing')

Spec == Init /\ [][Next]_vars

\* The timer calls what is due sooner or later (Timer, QueuedIsCalled), and
\* a callback that has begun goes on: every wait ends.
Fairness ==
  /\ WF_sysVars(Step)
  /\ SF_sysVars(StartPoll) /\ SF_sysVars(StartHubPoll)
  /\ \A s \in Slots : SF_sysVars(StartScan(s))

FairSpec == Spec /\ Fairness

-----------------------------------------------------------------------------
Device ==
  [parent : Ids \cup {NULL}, port : RootPorts \cup HubPorts,
   address : 0..USB_MAX_DEVICES, driver : {"none", "hub", "mass"},
   data : HubIds \cup Slots \cup {0}]

\* Every variable has its type, and the addresses in use stay as low as the
\* number of devices allows.
TypeOK ==
  /\ at \in [Things -> Places \cup {Nowhere}]
  /\ hw \in [Things -> {Off} \cup 0..USB_MAX_DEVICES]
  /\ powered \subseteq Hubs /\ change \subseteq Hubs \X HubPorts
  /\ devices \in [Ids -> Device \cup {NoDevice}]
  /\ rootDevices \in [RootPorts -> Ids \cup {NULL}]
  /\ connectedPorts \subseteq RootPorts
  /\ hubs \in [HubIds -> [dev : Ids \cup {NULL}, children : [HubPorts -> Ids \cup {NULL}]]]
  /\ storage \in [Slots -> [dev : Ids \cup {NULL}, scanPending : BOOLEAN,
                            registered : SUBSET Luns]]
  /\ queued \in [Slots -> Nat] /\ blocks \subseteq Slots \X Luns
  /\ halt \in {"no", "shutdown"} /\ missed \in BOOLEAN

(***************************************************************************)
(* What holds until a callback of the stack that has found something to do *)
(* interrupts another one.                                                 *)
(***************************************************************************)
\* The table and the pointers into it form one tree: each device is what
\* exactly its port's pointer shows, at a root port seen as connected or at
\* a hub whose own device is alive, and no pointer outlives its device,
\* however an enumeration ends and in whatever order things are unplugged.
TreeInStep ==
  halt = "no" =>
    /\ \A p \in RootPorts : rootDevices[p] # NULL =>
         /\ p \in connectedPorts
         /\ devices[rootDevices[p]].parent = NULL /\ devices[rootDevices[p]].port = p
    /\ \A h \in HubIds, p \in HubPorts : hubs[h].children[p] # NULL =>
         LET child == devices[hubs[h].children[p]] IN
         child # NoDevice /\ child.parent = hubs[h].dev /\ child.port = p
    /\ \A i \in Ids : Used(i) =>
         IF devices[i].parent = NULL THEN rootDevices[devices[i].port] = i
         ELSE /\ Used(devices[i].parent)
              /\ \E h \in HubIds : /\ hubs[h].dev = devices[i].parent
                                   /\ hubs[h].children[devices[i].port] = i

\* As long as every transfer succeeds, no two things on the bus answer to
\* the same address, address 0 included, and each that has been given an
\* address has it from a device in the table, or is about to be reset.
AboutToBeReset ==
  {<<stack[i].hubThing, stack[i].port>> : i \in {j \in DOMAIN stack : stack[j].pc = "reset"}}

BusExclusive ==
  ~missed /\ ~crossed /\ halt = "no" =>
    \A t \in Things : Reachable(t) /\ hw[t] # Off =>
      /\ Answering(hw[t]) = {t}
      /\ \/ hw[t] = 0 \/ at[t] \in AboutToBeReset
         \/ \E i \in Ids : devices[i].address = hw[t]

\* A massScan is queued for a slot exactly while the slot waits for it, and
\* a slot in use belongs to one live device that is bound to it, or is being
\* probed: a scan never meets a stick that was plugged in after it was
\* queued.
Probing(s) ==
  \E i \in DOMAIN stack : /\ stack[i].fn = "massProbe" /\ stack[i].pc = "maxLun"
                          /\ stack[i].slot = s /\ stack[i].dev = storage[s].dev

ScanOnce ==
  halt = "no" => \A s \in Slots :
    /\ queued[s] = IF storage[s].scanPending THEN 1 ELSE 0
    /\ storage[s].dev # NULL =>
         \/ devices[storage[s].dev].driver = "mass" /\ devices[storage[s].dev].data = s
         \/ Probing(s) /\ ~storage[s].scanPending

\* The block layer has exactly the units that their driver will unregister,
\* but for the one whose registration is in progress, and only of sticks
\* that are in the device table.
BeingRegistered ==
  {<<stack[i].slot, stack[i].lun>> : i \in {j \in DOMAIN stack : stack[j].pc = "mark"}}

BlocksInStep ==
  halt = "no" =>
    /\ blocks \ BeingRegistered = {b \in Slots \X Luns : b[2] \in storage[b[1]].registered}
                                   \ BeingRegistered
    /\ \A b \in blocks : storage[b[1]].dev # NULL

\* Whatever the boot interrupts, USB_Shutdown leaves no device, and no unit
\* but the one being registered, on which B_Shutdown then stops (Storage,
\* ShutdownClean).
ShutdownLeavesNone ==
  halt = "shutdown" => /\ \A i \in Ids : ~Used(i)
                       /\ blocks \subseteq BeingRegistered

\* The device table, the drivers' structures and the block layer agree.
InStep ==
  crossed \/ (TypeOK /\ TreeInStep /\ ScanOnce /\ BlocksInStep /\ ShutdownLeavesNone)

\* A stick that stays plugged in, in a root port or in a hub that stays, is
\* found and all its units are registered, whatever else comes and goes,
\* unless a transfer fails, a change is missed or callbacks have crossed.
Attached(t) == \/ at[t] \in RootPlaces
               \/ \E h \in Hubs : at[h] \in RootPlaces /\ t \in OnHub(h)
Registered(t) ==
  \E s \in Slots : /\ storage[s].dev # NULL /\ storage[s].registered = Luns
                   /\ t \in Target(storage[s].dev)

PluggedIsRegistered ==
  \A t \in Sticks :
    <>[](Attached(t) /\ ~missed /\ ~crossed /\ halt = "no") => <>[]Registered(t)
=============================================================================

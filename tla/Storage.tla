------------------------------- MODULE Storage -------------------------------
(***************************************************************************)
(* From a plugged device to a started program: the block layer (block.c),  *)
(* the one mounted filesystem (fs.c), the boot configurations found on it  *)
(* (config.c), the menu and its autoboot (menu.c), screenshots (video.c)   *)
(* and the loading of the chosen entry (elf.c, dol.c).                     *)
(*                                                                         *)
(* All of it runs in repeating timer callbacks: one per device that polls  *)
(* for insertion and removal, one for the menu, one for the autoboot       *)
(* countdown.  A callback runs with interrupts enabled, so another one,    *)
(* never the same one again (Timer, OneInstance), may run to its end at    *)
(* any point where a callback waits for a device, between a test and what  *)
(* menu.c does on its strength without a lock: the movement of the         *)
(* selection and the end of the countdown.  stack holds the callbacks that *)
(* have begun, the running one last; each action runs the last one up to   *)
(* its next wait or window.                                                *)
(***************************************************************************)
EXTENDS Integers, Sequences, SequencesExt, FiniteSets, MenuLists

CONSTANTS
  Console,           \* H_ConsoleType
  Devices,           \* the block devices
  Removable,         \* those that a callback polls: a card, a disc, a stick
  SdSlots,           \* of these, the slots of the SD host controller
  Parts,             \* their partitions
  PartsOf,           \* [Devices -> Seq(Parts)]: what P_ProbePartitions finds
  FsOf,              \* [Parts -> the filesystem a probe finds, or "none"]
  Npll, Gumboot,     \* [Parts -> the configuration file, or Absent]
  ScreenshotDevices, \* writable SD and SDGecko devices
  Slots,             \* MAX_FILES: descriptors of a mounted filesystem
  Builtins,          \* entries of the root menu after "System Information"
  MaxNesting,        \* bound: callbacks that may be active at once
  BeyondCrossing,    \* bound: whether a run goes on after two have crossed
  NoPart, Absent

(***************************************************************************)
(* A configuration: its entries, the seconds of its timeout (negative: no  *)
(* autoboot) and its default entry, counted from 0.  An entry lists the    *)
(* files it loads, the executable last, each on a partition or on "self",  *)
(* the partition its configuration came from; whether it is a Linux image  *)
(* started with a device tree; and whether it needs the pre-entry hook.    *)
(***************************************************************************)
Configs ==
  [timeout : Int, default : Nat,
   entries : Seq([paths : Seq(Parts \cup {"self"}), linux : BOOLEAN, hook : BOOLEAN])]

DevOf(p) == CHOOSE d \in Devices : \E i \in DOMAIN PartsOf[d] : PartsOf[d][i] = p

ASSUME StorageAssumption ==
  /\ Slots \in Nat \ {0} /\ Builtins \in Nat /\ MaxNesting \in Nat \ {0}
  /\ NoPart \notin Parts /\ {"ui", "autoboot"} \cap Devices = {}
  /\ PartsOf \in [Devices -> Seq(Parts)]
  /\ \A d, e \in Devices : \A i \in DOMAIN PartsOf[d], j \in DOMAIN PartsOf[e] :
       PartsOf[d][i] = PartsOf[e][j] => d = e /\ i = j      \* bdev->partitions[]
  /\ \A p \in Parts : \E d \in Devices : \E i \in DOMAIN PartsOf[d] : PartsOf[d][i] = p
  /\ {Npll, Gumboot} \subseteq [Parts -> Configs \cup {Absent}] /\ Absent \notin Configs
  /\ Console \in {"GameCube", "Wii", "WiiU"}
  /\ FsOf \in [Parts -> {"FAT", "WFS", "other", "none"}]
  /\ Console # "WiiU" => \A p \in Parts : FsOf[p] # "WFS"
  /\ Removable \subseteq Devices /\ ScreenshotDevices \subseteq Devices
  /\ SdSlots \subseteq Removable

NoGlobals == [timeout |-> -1, default |-> 0]
NoEntry == [owner |-> NoPart, src |-> NoPart, file |-> "none", n |-> 0]

ConfigFile(file, p) == IF file = "npll" THEN Npll[p] ELSE Gumboot[p]
What(e) == ConfigFile(e.file, e.src).entries[e.n]

\* The menu entries of one file of partition src, for the partition that is
\* being added (owner): where a later boot looks for "self" is src.
EntriesOf(file, src, owner) ==
  [i \in 1..Len(ConfigFile(file, src).entries) |->
     [owner |-> owner, src |-> src, file |-> file, n |-> i]]

VARIABLES
  devices,     \* B_Devices
  registered,  \* the flag of each device's driver that it has registered it
  mounted,     \* FS_MountedPartition (FS_Mounted is what a probe finds on it)
  files,       \* the descriptors of the mounted filesystem
  fatPart,     \* partitions[0] of the FAT glue
  wfsPart,     \* state.part of WFS
  parts,       \* the menu's partitions[], with the entries of each
  rootMenu,    \* the entries at the front of the root menu
  curMenu, selected,
  autoboot,    \* autobootActive, autobootCanceled, autobootTimeout
  input,       \* whether an event is pending, and whether any was received
  consumed,    \* npllEverConsumed
  hook,        \* whether H_PreEntryHook is installed
  stack,       \* the callbacks that have begun
  halt,        \* "no", or how the program ended
  started,     \* what was started
  due,         \* history: the default entry the running countdown is for
  decider,     \* history: the partition of the first npll.cfg that was read
  cut, slipped, \* history: a removal came between the check of a movement
               \* of the selection and its store: of the one in progress
               \* (cut), of one since the menu was last drawn (slipped)
  crossed      \* history: a callback that works on devices, filesystems or
               \* configurations has interrupted another one that does

fsVars == <<mounted, files, fatPart, wfsPart>>
slips == <<cut, slipped>>
menuVars == <<parts, rootMenu, curMenu, selected, autoboot, input, due, slips>>
cfgVars == <<consumed, decider>>
sysVars == <<devices, registered, fsVars, menuVars, cfgVars, hook, stack, halt, started>>
vars == <<sysVars, crossed>>

Free == NoPart                              \* an unused descriptor
NoFiles == [s \in 1..Slots |-> Free]
NotStarted == [entry |-> NoEntry, got |-> <<>>, hook |-> FALSE]

Frame(cb, task, pc) ==
  [cb |-> cb, task |-> task, pc |-> pc, part |-> NoPart, rest |-> <<>>,
   entry |-> NoEntry, fd |-> 0, found |-> <<>>, globals |-> NoGlobals,
   first |-> FALSE, old |-> NoPart, got |-> <<>>, to |-> 0]

Init ==
  /\ devices = {} /\ registered = {} /\ mounted = NoPart /\ files = NoFiles
  /\ fatPart = NoPart /\ wfsPart = NoPart
  /\ parts = <<>> /\ rootMenu = <<>> /\ curMenu = "root" /\ selected = 0
  /\ autoboot = [active |-> FALSE, canceled |-> FALSE, timeout |-> 0]
  /\ input = [pending |-> FALSE, received |-> FALSE]
  /\ consumed = FALSE /\ hook = FALSE
  /\ stack = <<>> /\ halt = "no" /\ started = NotStarted
  /\ due = NoEntry /\ decider = NoPart
  /\ cut = FALSE /\ slipped = FALSE /\ crossed = FALSE

-----------------------------------------------------------------------------
(***************************************************************************)
(* Control: entering, continuing and leaving a callback.                   *)
(***************************************************************************)
Top == Last(stack)

\* A timer event that is due calls its function: not while that function
\* itself is running, and no deeper than the bound on nesting.
Callback(cb) ==
  /\ halt = "no" /\ Len(stack) < MaxNesting
  /\ \A i \in DOMAIN stack : stack[i].cb # cb

Enter(f) == stack' = Append(stack, f) /\ UNCHANGED registered

At(pc) == halt = "no" /\ stack # <<>> /\ Top.pc = pc
Continue(f) == stack' = Append(Front(stack), f) /\ UNCHANGED registered
Goto(pc) == Continue([Top EXCEPT !.pc = pc])
Idle == UNCHANGED <<stack, registered>>
Stop(how) == halt' = how /\ stack' = <<>>

\* Back in a device's driver, which sets its flag after B_Register, or, but
\* for an SD slot, clears it after B_Unregister.
Return ==
  /\ stack' = Front(stack)
  /\ registered' = CASE Top.cb \notin Devices -> registered
                     [] Top.task = "unregister" -> registered \ {Top.cb}
                     [] OTHER -> registered \cup {Top.cb}

Running == UNCHANGED <<halt, started>>

\* A callback that so far has looked at the menu's own variables only; two
\* that have gone further, one of which has interrupted the other.
Quiet(f) == f.pc \in {"store", "count", "fire"}
Crossing == \E i, j \in DOMAIN stack : i < j /\ ~Quiet(stack[i]) /\ ~Quiet(stack[j])
-----------------------------------------------------------------------------
(***************************************************************************)
(* fs.c and the filesystems' own state.                                    *)
(***************************************************************************)
\* FS_Unmount: the filesystem forgets its partition and its open files.
\* What is left of fatPart and wfsPart after it:
Released(kind, held) ==
  IF mounted # NoPart /\ FsOf[mounted] = kind THEN NoPart ELSE held

FS_Unmount ==
  /\ fatPart' = Released("FAT", fatPart)
  /\ wfsPart' = Released("WFS", wfsPart)
  /\ mounted' = NoPart
  /\ files' = NoFiles

\* FS_Probe recognises p.  WFS keeps the partition it has recognised and
\* recognises no other one while it holds it.
Recognises(p) == FsOf[p] # "none" /\ (FsOf[p] = "WFS" => wfsPart \in {NoPart, p})
WfsAfterProbe(p) == IF FsOf[p] = "WFS" THEN p ELSE wfsPart

\* FS_Mount: unmounts what is mounted and calls the filesystem.  FAT asserts
\* that it holds no partition and takes p; WFS refuses a partition it has
\* not probed since it was last unmounted.
Refused == CASE Top.task = "register" -> Goto("partition")
             [] OTHER -> Return

MountStart ==
  /\ At("mount")
  /\ LET p == Top.part
         fat == Released("FAT", fatPart)
         wfs == Released("WFS", wfsPart)
     IN /\ mounted' = NoPart /\ files' = NoFiles /\ wfsPart' = wfs
        /\ \/ /\ FsOf[p] = "FAT" /\ fat # NoPart
              /\ Stop("assert") /\ UNCHANGED <<started, registered>> /\ fatPart' = fat
           \/ /\ FsOf[p] = "WFS" /\ wfs # p
              /\ fatPart' = fat /\ Refused /\ Running
           \/ /\ FsOf[p] = "FAT" => fat = NoPart
              /\ FsOf[p] = "WFS" => wfs = p
              /\ fatPart' = (IF FsOf[p] = "FAT" THEN p ELSE fat)
              /\ Goto("mounting") /\ Running
  /\ UNCHANGED <<devices, menuVars, cfgVars, hook>>

\* The filesystem has read its structures: FS_Mount records it, or returns
\* the error (FAT keeps the partition it took).
AfterMount ==
  CASE Top.task = "register" -> Goto("npll")
    [] Top.task = "boot" -> Goto("open")
    [] Top.task = "shot" -> Goto("write")
    [] OTHER -> Return

MountEnd ==
  /\ At("mounting")
  /\ \/ mounted' = Top.part /\ AfterMount
     \/ mounted' = mounted /\ Refused
  /\ Running
  /\ UNCHANGED <<devices, files, fatPart, wfsPart, menuVars, cfgVars, hook>>

\* FS_Open takes the lowest free descriptor for a file of what is mounted.
FreeSlots == {s \in 1..Slots : files[s] = Free}
Opens(s) ==
  /\ s \in FreeSlots /\ \A r \in FreeSlots : s <= r
  /\ files' = [files EXCEPT ![s] = mounted]

\* FS_Read and FS_Close of a descriptor that is not open do nothing.
Valid(fd) == files[fd] # Free
FS_Close(fd) == files' = [files EXCEPT ![fd] = Free]

\* FS_Open, FS_Read and FS_Close assert that a filesystem is mounted.
NothingMounted ==
  /\ \E pc \in {"npll", "npllRead", "gumboot", "gumbootRead", "open", "load"} : At(pc)
  /\ mounted = NoPart /\ (Top.task = "boot" => Top.rest # <<>>)
  /\ Stop("assert") /\ UNCHANGED started
  /\ UNCHANGED <<devices, registered, fsVars, menuVars, cfgVars, hook>>

-----------------------------------------------------------------------------
(***************************************************************************)
(* block.c: a device's polling callback finds it inserted or removed.      *)
(***************************************************************************)
B_Register(d) ==
  /\ Callback(d) /\ d \notin registered
  /\ devices' = devices \cup {d}
  /\ Enter([Frame(d, "register", "partition") EXCEPT !.rest = PartsOf[d]])
  /\ Running /\ UNCHANGED <<fsVars, menuVars, cfgVars, hook>>

\* The next partition is probed; the first one that mounts is the last.
ProbePartition ==
  /\ At("partition")
  /\ \/ Top.rest = <<>> /\ Return /\ UNCHANGED wfsPart
     \/ /\ Top.rest # <<>>
        /\ LET p == Head(Top.rest)
               f == [Top EXCEPT !.rest = Tail(Top.rest)]
           IN \/ Recognises(p) /\ wfsPart' = WfsAfterProbe(p)
                 /\ Continue([f EXCEPT !.part = p, !.pc = "mount"])
              \/ Continue(f) /\ UNCHANGED wfsPart      \* not recognised
  /\ Running
  /\ UNCHANGED <<devices, mounted, files, fatPart, menuVars, cfgVars, hook>>

B_Unregister(d) ==
  /\ Callback(d) /\ d \in registered \cap Removable
  /\ stack' = Append(stack, [Frame(d, "unregister", "unmount") EXCEPT !.rest = PartsOf[d]])
  /\ registered' = IF d \in SdSlots THEN registered \ {d} ELSE registered
  /\ Running /\ UNCHANGED <<devices, fsVars, menuVars, cfgVars, hook>>

\* Mutant: only a mounted partition is taken out of the menu.
UnmountPartitionOnly ==
  /\ At("unmount") /\ Top.rest # <<>>
  /\ IF mounted = Head(Top.rest)
     THEN FS_Unmount /\ Goto("delpart")
     ELSE UNCHANGED fsVars /\ Continue([Top EXCEPT !.rest = Tail(Top.rest)])
  /\ Running /\ UNCHANGED <<devices, menuVars, cfgVars, hook>>

UnmountPartition ==
  /\ At("unmount") /\ Top.rest # <<>>
  /\ IF mounted = Head(Top.rest) THEN FS_Unmount ELSE UNCHANGED fsVars
  /\ Goto("delpart")
  /\ Running /\ UNCHANGED <<devices, menuVars, cfgVars, hook>>

RemoveDevice ==
  /\ At("unmount") /\ Top.rest = <<>>
  /\ devices' = devices \ {Top.cb}
  /\ Return
  /\ Running /\ UNCHANGED <<fsVars, menuVars, cfgVars, hook>>

-----------------------------------------------------------------------------
(***************************************************************************)
(* config.c: C_Probe reads npll.cfg, then gumboot.lst, from what is        *)
(* mounted.  Only the first npll.cfg of all sets the timeout and default.  *)
(***************************************************************************)
\* C_Probe returns an error: UI_AddPart logs it and adds nothing.
ProbeFails == Return /\ UNCHANGED cfgVars

OpenNpll ==
  /\ At("npll") /\ mounted # NoPart
  /\ \/ /\ Npll[mounted] # Absent
        /\ \E s \in 1..Slots : Opens(s) /\
             Continue([Top EXCEPT !.first = ~consumed, !.fd = s, !.pc = "npllRead"])
     \/ UNCHANGED files                         \* absent, or it cannot be opened
        /\ Continue([Top EXCEPT !.first = FALSE, !.pc = "gumboot"])
  /\ Running
  /\ UNCHANGED <<devices, mounted, fatPart, wfsPart, menuVars, cfgVars, hook>>

ReadNpll ==
  /\ At("npllRead") /\ mounted # NoPart
  /\ FS_Close(Top.fd)
  /\ \/ /\ Valid(Top.fd) /\ consumed' = TRUE
        /\ decider' = IF consumed THEN decider ELSE Top.part
        /\ LET cfg == Npll[mounted] IN
           Continue([Top EXCEPT !.pc = "gumboot",
             !.found = EntriesOf("npll", mounted, Top.part),
             !.globals = IF Top.first THEN [timeout |-> cfg.timeout, default |-> cfg.default]
                                      ELSE NoGlobals])
     \/ ProbeFails                              \* short read or bad version
  /\ Running
  /\ UNCHANGED <<devices, mounted, fatPart, wfsPart, menuVars, hook>>

OpenGumboot ==
  /\ At("gumboot") /\ mounted # NoPart
  /\ \/ /\ Gumboot[mounted] # Absent
        /\ \E s \in 1..Slots : Opens(s) /\
             Continue([Top EXCEPT !.fd = s, !.pc = "gumbootRead"])
     \/ UNCHANGED files /\ Goto("add")
  /\ Running
  /\ UNCHANGED <<devices, mounted, fatPart, wfsPart, menuVars, cfgVars, hook>>

\* Mutant: any gumboot.lst sets them if this npll.cfg does not.
GumbootGlobalsAlways(cfg) ==
  IF ~Top.first THEN [timeout |-> cfg.timeout, default |-> cfg.default] ELSE Top.globals

GumbootGlobals(cfg) ==
  IF ~Top.first /\ ~consumed THEN [timeout |-> cfg.timeout, default |-> cfg.default]
                             ELSE Top.globals

ReadGumboot ==
  /\ At("gumbootRead") /\ mounted # NoPart
  /\ FS_Close(Top.fd)
  /\ \/ Valid(Top.fd) /\ UNCHANGED cfgVars
        /\ LET cfg == Gumboot[mounted] IN
           Continue([Top EXCEPT !.pc = "add",
             !.found = Top.found \o EntriesOf("gumboot", mounted, Top.part),
             !.globals = GumbootGlobals(cfg)])
     \/ ProbeFails
  /\ Running
  /\ UNCHANGED <<devices, mounted, fatPart, wfsPart, menuVars, hook>>

-----------------------------------------------------------------------------
(***************************************************************************)
(* menu.c: partitions join and leave the menu with interrupts disabled.    *)
(***************************************************************************)
NumEntries(menu) == IF curMenu = "root" THEN Len(menu) + 1 + Builtins ELSE 1
Canceled == autoboot' = [autoboot EXCEPT !.active = FALSE, !.canceled = TRUE] /\ due' = NoEntry

\* UI_PrependEntry of each entry, the last one first.
\* Mutant: they are appended.
Appended(entries) == rootMenu \o entries

Prepended(entries) == entries \o rootMenu

\* Mutant: a cancelled autoboot may start again.
MayAutobootAgain(f) == f.globals.timeout >= 0 /\ f.globals.default < Len(f.found)

MayAutoboot(f) ==
  /\ ~autoboot.canceled /\ ~input.received
  /\ f.globals.timeout >= 0 /\ f.globals.default < Len(f.found)

AddPart ==
  /\ At("add")
  /\ IF Top.found = <<>>
     THEN Return /\ UNCHANGED menuVars
     ELSE /\ parts' = Append(parts, [owner |-> Top.part, entries |-> Top.found])
          /\ rootMenu' = Prepended(Top.found)
          /\ IF MayAutoboot(Top)
             THEN /\ selected' = Top.globals.default
                  /\ autoboot' = [autoboot EXCEPT !.active = TRUE,
                                                  !.timeout = Top.globals.timeout]
                  /\ due' = Top.found[Top.globals.default + 1]
                  /\ IF Top.globals.timeout = 0 THEN Goto("bootNow") ELSE Return
             ELSE UNCHANGED <<selected, autoboot, due>> /\ Return
          /\ UNCHANGED <<curMenu, input, slips>>
  /\ Running /\ UNCHANGED <<devices, fsVars, cfgVars, hook>>

\* UI_DelPart: cancels the autoboot; the entries of p leave the menu, and if
\* there are any and it is the menu shown, the selection is moved back into it.
\* Mutant: the first entry of p stays.
WithoutRest(p) == SelectSeq(rootMenu, LAMBDA e : e.owner # p \/ e.n = 1)

Without(p) == WithoutOwner(rootMenu, p)

Clamped(menu) ==
  IF curMenu = "root" /\ menu # rootMenu /\ selected >= NumEntries(menu)
  THEN NumEntries(menu) - 1 ELSE selected

DelPart ==
  /\ At("delpart")
  /\ LET p == Head(Top.rest) IN
     /\ Canceled
     /\ parts' = WithoutOwner(parts, p)
     /\ rootMenu' = Without(p)
     /\ selected' = Clamped(Without(p))
  /\ cut' = (cut \/ \E i \in DOMAIN stack : stack[i].pc = "store")
  /\ Continue([Top EXCEPT !.rest = Tail(Top.rest), !.pc = "unmount"])
  /\ Running
  /\ UNCHANGED <<devices, fsVars, curMenu, input, slipped, cfgVars, hook>>

-----------------------------------------------------------------------------
(***************************************************************************)
(* The callback of the selected entry, called by the menu's callback, by   *)
(* the countdown, or at once for a timeout of 0.                           *)
(***************************************************************************)
BootFrame(f, e) == [f EXCEPT !.task = "boot", !.entry = e, !.rest = What(e).paths,
                             !.got = <<>>,
                             !.pc = IF What(e).paths = <<>> THEN "load" ELSE "resolve"]

\* The entry's function either begins to boot or returns at once; f is the
\* callback that calls it, running if it had begun before.
Select(f, running) ==
  LET boot == BootFrame(f, rootMenu[selected + 1])
      done == IF running THEN Return ELSE Idle
  IN \/ /\ curMenu = "root" /\ selected < Len(rootMenu)
        /\ IF running THEN Continue(boot) ELSE Enter(boot)
        /\ UNCHANGED <<curMenu, selected, halt>>
     \/ /\ curMenu = "root" /\ selected = Len(rootMenu)          \* UI_Switch
        /\ curMenu' = "sysinfo" /\ selected' = 0
        /\ done /\ UNCHANGED halt
     \/ /\ curMenu = "root" /\ selected \in (Len(rootMenu) + 1)..(NumEntries(rootMenu) - 1)
        /\ \/ halt' = "left"                                     \* H_PlatOps
           \/ Console # "GameCube" /\ UNCHANGED halt             \* "Eject Disc"
        /\ done /\ UNCHANGED <<curMenu, selected>>
     \/ /\ selected >= NumEntries(rootMenu)     \* reads beyond entries[]: undefined
        /\ Stop("wild") /\ UNCHANGED <<registered, curMenu, selected>>
     \/ /\ curMenu = "sysinfo" /\ selected = 0                   \* UI_UpLevel
        /\ curMenu' = "root"
        /\ selected' = IF selected < Len(rootMenu) + 1 + Builtins THEN selected
                       ELSE Len(rootMenu) + Builtins
        /\ done /\ UNCHANGED halt

\* autobootEventCB, as the 1 s timer callback, finds the countdown running.
Countdown ==
  /\ Callback("autoboot") /\ autoboot.active
  /\ Enter(Frame("autoboot", "count", "count"))
  /\ Running /\ UNCHANGED <<devices, fsVars, menuVars, cfgVars, hook>>

\* UI_AddPart calls it, after its lock, for a timeout of 0.
BootNow ==
  /\ At("bootNow")
  /\ IF autoboot.active THEN Goto("count") ELSE Return
  /\ Running /\ UNCHANGED <<devices, fsVars, menuVars, cfgVars, hook>>

\* It counts, whether or not it has been cancelled since; at 0 the countdown
\* is over,
Count ==
  /\ At("count")
  /\ IF autoboot.timeout > 1
     THEN autoboot' = [autoboot EXCEPT !.timeout = @ - 1] /\ Return
     ELSE autoboot' = [autoboot EXCEPT !.active = FALSE, !.timeout = 0] /\ Goto("fire")
  /\ Running
  /\ UNCHANGED <<devices, fsVars, parts, rootMenu, curMenu, selected, input, due, slips, cfgVars, hook>>

\* and what is selected by then is called.
Fire ==
  /\ At("fire")
  /\ Select(Top, TRUE)
  /\ due' = IF autoboot.active THEN due ELSE NoEntry
  /\ UNCHANGED <<devices, fsVars, parts, rootMenu, autoboot, input, slips, cfgVars, hook, started>>

\* An input arrives (Input models the queue; here one may be pending, and
\* which one it is matters only when it is handled).
InputArrives ==
  /\ halt = "no" /\ ~input.pending
  /\ input' = [pending |-> TRUE, received |-> TRUE]
  /\ Running /\ Idle
  /\ UNCHANGED <<devices, fsVars, parts, rootMenu, curMenu, selected, autoboot, due, slips, cfgVars,
                  hook>>

\* The selection has been compared with the menu and is about to become n.
WillSelect(task, n) == Enter([Frame("ui", task, "store") EXCEPT !.to = n])

\* UI_HandleInputs, one event of it.  A movement may be used up by scrolling
\* or by the end of the menu.
Down == selected < NumEntries(rootMenu) - 1 /\ WillSelect("move", selected + 1)
Up == selected > 0 /\ WillSelect("move", selected - 1)
Scroll == Idle

UI_HandleInputs ==
  /\ Callback("ui") /\ input.pending
  /\ Canceled
  /\ input' = [input EXCEPT !.pending = FALSE]
  /\ \/ (Down \/ Up \/ Scroll) /\ UNCHANGED <<curMenu, selected, halt>>
     \/ Select(Frame("ui", "boot", "resolve"), FALSE)
     \/ /\ Enter([Frame("ui", "shot", "target") EXCEPT !.old = mounted])
        /\ UNCHANGED <<curMenu, selected, halt>>
  /\ UNCHANGED <<devices, fsVars, parts, rootMenu, slips, cfgVars, hook, started>>

\* UI_Redraw, unless the frame buffer is locked or nothing has changed: a
\* selection that is not in the menu is about to be moved to its end.
UI_Redraw ==
  /\ Callback("ui")
  /\ selected >= NumEntries(rootMenu)
  /\ WillSelect("redraw", NumEntries(rootMenu) - 1)
  /\ Running /\ UNCHANGED <<devices, fsVars, menuVars, cfgVars, hook>>

\* The selection moves, wherever the menu ends by now.
Store ==
  /\ At("store")
  /\ selected' = Top.to
  /\ slipped' = (cut \/ (slipped /\ Top.task = "move")) /\ cut' = FALSE
  /\ Return
  /\ Running
  /\ UNCHANGED <<devices, fsVars, parts, rootMenu, curMenu, autoboot, input, due, cfgVars, hook>>

\* npllEnsureFS and gumbootSelectedCB: the partition of the next file; a
\* path other than "self" names a registered device and is probed again.
\* Mutant: "self" is whatever is mounted.
SelfIsMounted(e) == IF mounted # NoPart THEN mounted ELSE e.src

SelfIs(e) == e.src
Target(e, path) == IF path = "self" THEN SelfIs(e) ELSE path

Resolve ==
  /\ At("resolve")
  /\ LET path == Head(Top.rest)
         p == Target(Top.entry, path)
         there == Continue([Top EXCEPT !.part = p, !.pc = IF mounted = p THEN "open" ELSE "mount"])
     IN \/ path = "self" /\ there /\ UNCHANGED wfsPart
        \/ /\ path # "self" /\ DevOf(p) \in devices /\ Recognises(p)
           /\ wfsPart' = WfsAfterProbe(p) /\ there
        \/ path # "self" /\ Return /\ UNCHANGED wfsPart    \* cannot be resolved
  /\ Running
  /\ UNCHANGED <<devices, mounted, files, fatPart, menuVars, cfgVars, hook>>

\* An entry with the "ios" or the "mini_sd" modifier, on a Wii.
NeedsHook(e) == Console = "Wii" /\ What(e).hook

\* installPreEntryHook, before the executable of an npll entry is loaded,
\* sets or clears the hook.  Mutant: it does not clear it.
HookForKept(f) ==
  hook \/ (f.entry.file = "npll" /\ Len(f.rest) = 1 /\ NeedsHook(f.entry))

HookFor(f) ==
  IF f.entry.file = "npll" /\ Len(f.rest) = 1 THEN NeedsHook(f.entry) ELSE hook

\* FS_Open of the file.
OpenFile ==
  /\ At("open") /\ mounted # NoPart
  /\ \/ /\ \E s \in 1..Slots : Opens(s) /\ Continue([Top EXCEPT !.fd = s, !.pc = "load"])
        /\ hook' = HookFor(Top)
     \/ Return /\ UNCHANGED <<files, hook>>     \* -ENOENT, -EMFILE or -EIO
  /\ Running
  /\ UNCHANGED <<devices, mounted, fatPart, wfsPart, menuVars, cfgVars>>

\* L_LoadAuxFile: a device tree or an initrd.
LoadAux ==
  /\ At("load") /\ Len(Top.rest) > 1 /\ mounted # NoPart
  /\ FS_Close(Top.fd)
  /\ \/ Valid(Top.fd)
        /\ Continue([Top EXCEPT !.got = Append(Top.got, files[Top.fd]),
                                !.rest = Tail(Top.rest), !.pc = "resolve"])
     \/ Return
  /\ Running
  /\ UNCHANGED <<devices, mounted, fatPart, wfsPart, menuVars, cfgVars, hook>>

\* Before program is entered everything is unmounted, each driver that has
\* registered a device unregisters it (the menu this leaves is not shown any
\* more and is left out), and B_Shutdown asserts that no device is left.
H_PrepareForExecEntry(program) ==
  /\ FS_Unmount
  /\ devices' = devices \ registered
  /\ registered' = {}
  /\ IF devices \subseteq registered
     THEN Stop("started") /\ started' = program
     ELSE Stop("busy") /\ UNCHANGED started

\* The executable: on success the hook runs before it; on an error the menu
\* goes on, but a Linux image may have overwritten the exception vectors,
\* with interrupts disabled.
LoadExec ==
  /\ At("load") /\ Len(Top.rest) = 1 /\ mounted # NoPart
  /\ \/ /\ Valid(Top.fd)
        /\ H_PrepareForExecEntry([entry |-> Top.entry, hook |-> hook,
                                  got |-> Append(Top.got, files[Top.fd])])
     \/ /\ FS_Close(Top.fd) /\ Return
        /\ Running /\ UNCHANGED <<mounted, fatPart, wfsPart, devices>>
     \/ /\ Valid(Top.fd) /\ What(Top.entry).linux
        /\ Stop("panic") /\ UNCHANGED <<fsVars, started, devices, registered>>
  /\ UNCHANGED <<menuVars, cfgVars, hook>>

\* npllBootChannel, on a Wii only: nothing is loaded from a filesystem, and
\* the hook is not run.
StartChannel ==
  /\ At("load") /\ Top.rest = <<>>
  /\ \/ /\ Console = "Wii"
        /\ H_PrepareForExecEntry([entry |-> Top.entry, got |-> <<>>, hook |-> FALSE])
     \/ Console # "Wii" /\ Return /\ Running /\ UNCHANGED <<fsVars, devices>>
  /\ UNCHANGED <<menuVars, cfgVars, hook>>

-----------------------------------------------------------------------------
(***************************************************************************)
(* video.c: a screenshot is written to the mounted partition if that is on *)
(* a writable card, else to a recognised partition of one, which is        *)
(* mounted for it; then what was mounted before is mounted again.          *)
(***************************************************************************)
IsTarget(p) == DevOf(p) \in devices \cap ScreenshotDevices

ChooseTarget ==
  /\ At("target")
  /\ \/ /\ Top.old # NoPart /\ IsTarget(Top.old) /\ UNCHANGED wfsPart
        /\ Continue([Top EXCEPT !.part = Top.old, !.pc = "write"])
     \/ /\ ~(Top.old # NoPart /\ IsTarget(Top.old))
        /\ \/ \E p \in Parts : /\ IsTarget(p) /\ Recognises(p) /\ wfsPart' = WfsAfterProbe(p)
                               /\ Continue([Top EXCEPT !.part = p, !.pc = "mount"])
           \/ Return /\ UNCHANGED wfsPart
  /\ Running
  /\ UNCHANGED <<devices, mounted, files, fatPart, menuVars, cfgVars, hook>>

\* FS_Create, FS_Write and FS_Close do not fail the callback.
\* Mutant: the target is left to the next mount to unmount.
SaveScreenshotKeep ==
  /\ At("write")
  /\ IF Top.part = Top.old \/ Top.old = NoPart
     THEN Return
     ELSE Continue([Top EXCEPT !.task = "restore", !.part = Top.old, !.pc = "mount"])
  /\ Running /\ UNCHANGED <<fsVars, devices, menuVars, cfgVars, hook>>

SaveScreenshot ==
  /\ At("write")
  /\ IF Top.part = Top.old
     THEN Return /\ UNCHANGED fsVars
     ELSE /\ FS_Unmount
          /\ IF Top.old = NoPart THEN Return
             ELSE Continue([Top EXCEPT !.task = "restore", !.part = Top.old, !.pc = "mount"])
  /\ Running /\ UNCHANGED <<devices, menuVars, cfgVars, hook>>

-----------------------------------------------------------------------------
FileSystemStep == MountStart \/ MountEnd \/ NothingMounted
BlockStep == ProbePartition \/ UnmountPartition \/ RemoveDevice
ConfigStep == OpenNpll \/ ReadNpll \/ OpenGumboot \/ ReadGumboot
MenuStep == AddPart \/ DelPart \/ BootNow \/ Count \/ Fire \/ Store
BootStep == Resolve \/ OpenFile \/ LoadAux \/ LoadExec \/ StartChannel
ScreenshotStep == ChooseTarget \/ SaveScreenshot

\* The running callback goes on.
Step == FileSystemStep \/ BlockStep \/ ConfigStep \/ MenuStep \/ BootStep \/ ScreenshotStep

Next ==
  /\ \/ \E d \in Devices : B_Register(d) \/ B_Unregister(d)
     \/ InputArrives
     \/ UI_HandleInputs \/ UI_Redraw
     \/ Countdown
     \/ Step
  /\ crossed => BeyondCrossing
  /\ crossed' = (crossed \/ Crossing')

Spec == Init /\ [][Next]_vars

-----------------------------------------------------------------------------
Entries == [owner : Parts, src : Parts, file : {"npll", "gumboot"}, n : Nat]

\* Every variable has its type; a descriptor that is open is one of a file
\* of what is mounted, so a read through it reads that filesystem.
TypeOK ==
  /\ devices \subseteq Devices /\ registered \subseteq devices
  /\ mounted \in Parts \cup {NoPart}
  /\ \A s \in 1..Slots : files[s] \in {Free, mounted}
  /\ {fatPart, wfsPart} \subseteq Parts \cup {NoPart}
  /\ \A i \in DOMAIN rootMenu : rootMenu[i] \in Entries
  /\ curMenu \in {"root", "sysinfo"} /\ selected \in Nat
  /\ autoboot.timeout \in Nat
  /\ consumed \in BOOLEAN /\ hook \in BOOLEAN
  /\ Len(stack) <= MaxNesting
  /\ halt \in {"no", "assert", "busy", "panic", "wild", "started", "left"}

\* The root menu shows exactly the entries of the partitions that were
\* added and not deleted, the newest partition first, each as one block in
\* the order of its configuration: insertion and removal of whole blocks
\* survive any nesting of the callbacks, and no freed entry stays in it.
MenuInStep == rootMenu = Blocks(parts)

\* The selection is an entry of the menu shown, whatever was deleted:
\* UI_HandleInputs and autobootEventCB index the entries with it unchecked.
\* The exception is a removal between the check of a movement and its store
\* (menu.c:547-548, 556-557, 299-300), until the menu is drawn again.
SelectedInMenu == slipped \/ selected < NumEntries(rootMenu)

\* The menu whatever interrupts what.
MenuKept == TypeOK /\ MenuInStep /\ SelectedInMenu

\* While a countdown runs, nobody has pressed a key that was handled and
\* no device was removed, the root menu is shown, and what is selected is
\* an entry of a configuration: it never powers the console off or opens a
\* submenu.
AutobootTarget ==
  autoboot.active => /\ ~autoboot.canceled /\ curMenu = "root"
                     /\ selected < Len(rootMenu)

\* No entry is looked up beyond the end of the menu.
NothingWild == halt # "wild"

(***************************************************************************)
(* What holds until two callbacks that work on the one mounted filesystem, *)
(* on devices or on configurations cross.  Keys, the movement of the       *)
(* selection, submenus and the countdown may interrupt them all the while. *)
(***************************************************************************)
\* What is mounted is a partition of a registered device: the block layer
\* unmounts it before it forgets the device and frees the partition.
MountLive == halt = "no" /\ mounted # NoPart => DevOf(mounted) \in devices

\* Every entry of the menu belongs to a registered device and is booted
\* from the partition it was read from.
EntriesLive ==
  halt = "no" => \A i \in DOMAIN rootMenu :
    rootMenu[i].src = rootMenu[i].owner /\ DevOf(rootMenu[i].owner) \in devices

\* Nothing refers to a device that is gone.
ReferencesLive == crossed \/ (MountLive /\ EntriesLive)

\* What is started was read from where the entry's paths say: "self" is
\* the partition its configuration came from, whatever was mounted since.
StartedFromPaths ==
  halt = "started" /\ ~crossed =>
    LET e == started.entry  paths == What(e).paths
    IN started.got = [i \in DOMAIN paths |-> IF paths[i] = "self" THEN e.src ELSE paths[i]]

\* An entry of an npll.cfg that loads an image runs the pre-entry hook
\* exactly if it asks for it, whatever entry was tried before and failed.
HookOfEntry ==
  halt = "started" /\ ~crossed /\ started.entry.file = "npll" /\ What(started.entry).paths # <<>>
    => started.hook = NeedsHook(started.entry)

\* Once an npll.cfg was read, only it begins a countdown: a partition that
\* comes later has no say in the timeout and default.
FirstConfigDecides ==
  [][autoboot'.active /\ ~autoboot.active /\ consumed /\ ~crossed' => due'.owner = decider]_vars

\* A screenshot never leaves the card it was written to mounted in place
\* of what was mounted before: that is mounted again, or, after an error,
\* nothing is.
ScreenshotRestores ==
  [][halt' = "no" /\ Len(stack') < Len(stack) /\ Top.task \in {"shot", "restore"} /\ ~crossed'
       => mounted' \in {Top.old, NoPart}]_vars

\* The countdown boots the entry that the configuration it runs for names
\* as its default.
DefaultBooted ==
  [][At("fire") /\ due # NoEntry /\ stack' # <<>> /\ Last(stack').task = "boot"
       => Last(stack').entry = due]_vars

\* No assertion of the program fails: a partition that cannot be mounted
\* leaves the user a menu to choose from (CONFIG_FORMAT.txt, error handling).
NoAssertion == halt # "assert"

\* A timeout of 0 boots instantly (CONFIG_FORMAT.txt): H_PrepareForExecEntry
\* leaves no block device for the assertion of B_Shutdown to stop at.
ShutdownClean == halt # "busy"

(***************************************************************************)
(* The menu, the boots in progress and the started program, whatever       *)
(* interrupts what, are those of BootMenu.                                 *)
(***************************************************************************)
BootsInProgress == {stack[i].entry : i \in {j \in DOMAIN stack : stack[j].task = "boot"}}
Menu == INSTANCE BootMenu WITH
          Owners <- Parts, None <- NoEntry,
          menu <- rootMenu, chosen <- BootsInProgress, program <- started.entry
MenuSpec == Menu!Spec
=============================================================================

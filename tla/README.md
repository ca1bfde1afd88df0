# NPLL: specification, model checking and proofs

NPLL is a boot loader for the GameCube, the Wii and the Wii U. It runs on one
CPU without an operating system: it brings up the hardware, finds block devices,
reads boot configurations from their partitions, shows a menu and starts what
the user, or a countdown, chooses. This directory holds TLA+ models of its
core, the TLC runs that check them and theorems checked by TLAPS.
`PROJECT.json` maps every definition of a model to the lines it models and
lists the hazards of the code with the properties that cover them. Paths of the
form `src/timer.c` are relative to the repository, the directory `src/` of it.

Check a model with `tlc -config <Run>.cfg <Module>.tla` and a proof with
`tlapm <Module>Proofs.tla`.

## 1. Inventory

Everything below rests on one fact: **there are no threads, but nearly
everything after initialisation runs in timer callbacks with interrupts
enabled.** The decrementer (DEC) exception may interrupt such a callback and run
others inside it, 32 frames deep (`src/exception.c`). The inner callback runs to
its end before the outer one goes on. Locks are sections with interrupts off
(`IRQ_DisableSave` to `IRQ_Restore`). Most data is not protected by one: what a
callback read before it waited for a device may be different afterwards.

| Component | Source | State | Operations | What makes it correct |
|---|---|---|---|---|
| Input queue | `src/input.c` | `queue`, `queuePos`, `hasReceivedInput` | `IN_NewEvent` by keyboard, controller and button polls; `IN_ConsumeEvent` by the menu | each event is delivered once, in order, until the queue has been full |
| Timer | `src/timer.c`, `src/exception.c` | `events`, the slots of repeating events, DEC | `T_QueueEvent`, `T_QueueRepeatingEvent`, `T_CancelRepeatingEvent`, `T_DECHandler` | earliest first and never early; no event is lost or runs inside itself; a cancelled one stays out; every event comes |
| Allocator | `src/allocator.c` | `cur_bottom` of two pools, block headers | `M_PoolAlloc` and its variants, `free` | regions are disjoint, in the pool and off reserved memory; headers stay intact; all memory comes back |
| Block layer | `src/block.c` | `B_Devices` | `B_Register` (probes partitions, reads configurations), `B_Unregister`, `B_Shutdown`, chunked reads and writes | nothing refers to a partition that was freed; no device is left when a program starts |
| File systems | `src/fs.c`, `src/fs/*` | the one mounted partition, open descriptors, each file system's own state | `FS_Probe`, `FS_Mount`, `FS_Open`, `FS_Read`, `FS_Close`, `FS_Unmount` | a read goes to the partition the caller means |
| Configuration | `src/config.c` | `npllEverConsumed`, entries, the pre-entry hook | `C_Probe`, `npllSelectedCB`, boot functions | the first `npll.cfg` decides; an entry loads from the paths it names and runs its own hook |
| Menu | `src/menu.c` | root menu, `curMenu`, `selected`, autoboot | `UI_AddPart`, `UI_DelPart`, `UI_HandleInputs`, `autobootEventCB` | the menu shows the registered partitions; the selection is in it; the countdown never starts what it should not |
| Screenshots | `src/video.c` | the mounted partition, temporarily | `V_SaveScreenshot` | what was mounted is given back |
| Loaders and handover | `src/elf.c`, `src/dol.c`, `src/linux.c`, `src/cleanup.c` | loaded segments | load, `H_PrepareForExecEntry` | what is started was loaded from the right place; all devices are stopped before |
| USB core | `src/usb.c` | `devices`, `rootDevices`, `connectedPorts` | `USB_Poll`, enumeration, disconnection, `USB_Shutdown` | the table is the tree of what is plugged in; one device per bus address |
| USB hubs | `src/drivers/usb_hub.c` | `hubs[]` with their children | probe, `hubPoll`, `hubHandlePort`, remove | changes are not lost; a removed hub takes its children along |
| USB mass storage | `src/drivers/usb_storage.c` | `storageDevices[]` | probe, delayed `massScan`, remove | a scan meets the stick it was queued for; every unit registered is unregistered |
| Mass storage commands | `src/drivers/usb_storage.c`, `src/drivers/usb_hcd.c` | the shared schedule, the toggles, the phase of the stick | `botCommand`, `botReset`, control and bulk transfers over EHCI and OHCI | a command that succeeds was done, all of it; after a fault commands succeed again |
| Disc drive | `src/drivers/di.c` | the drive's registers, `bdevRegistered`, what is known of the medium | `diInit`, `diCoverPoller`, `diRead`, `diCleanup` | a registered disc can be read; an error is not lost; nothing writes to memory after the handover |
| SD cards | `src/drivers/hollywood_sdmmc.c`, `src/drivers/sdmmc/*` | the command list, `INT_STATUS`, bus width and clock of card and host, `checkConnected` | commands, interrupt handler, `mmc_init`, reads, `sdmmcConnectionCheck` | an answer is that of its command; no finished command is missed; card and host agree; the slot is followed |
| Other cards, NAND | `src/drivers/sdgecko.c`, `hollywood_nand.c` | whether a medium is registered | polls, probe, removal | what was registered, and nothing else, is unregistered |
| Bluetooth remotes | `src/drivers/usb_bluetooth.c`, `src/wiimote_pairing.c` | the pending command and the queue behind it, remotes and their channels, the page | `btProbe`, `btPoll` with all it calls | slots follow links; the adapter comes up again after a lost answer; a linked remote is heard |
| Keyboards and controllers | `src/drivers/usb_hid.c`, `si.c`, `exi.c`, `reset_switch.c` | button states | polls that call `IN_NewEvent` | no press lost or repeated |
| Wii start | `src/wii/*` | the state and flags of `H_InitWii`, the message channel to MINI | `testMEM2`, `armbootnow`, `MINI_Init`, reload, rights | every path ends with the hardware open and NPLL's own MINI running, or in a panic with a cause |
| Low level | `src/irq.c`, `src/exception.c`, `src/cpu.c`, `src/init.c`, `src/drivers.c`, `src/entry.S` | handler table, initialisation order | dispatch, start | fixed order before anything is concurrent |
| Pure output and data | logs, displays, fonts, libc, crypto engines, FatFs | none that matters here | | |

Interactions: drivers call `B_Register`/`B_Unregister` from their polls; the
block layer calls into the file systems, `C_Probe` and the menu from inside
those; the menu consumes the input queue and calls the entry functions, which
mount, read and load; all of them use the timer for polls and delays and the
allocator for buffers. A boot shuts everything down through
`H_PrepareForExecEntry` and does not come back.

Hard behaviours: nesting of callbacks at every wait; removal of a medium in
the middle of a use; state kept as an index or pointer across a wait; failing
transfers at every step of an enumeration; one-shot timer events that outlive
what they were queued for; postponed frees; commands cut off by a time out whose
answer comes later; and two machines beside the CPU, the coprocessor of the Wii
and the devices behind each controller. There is no persistence, hence no crash
recovery, and no network.

## 2. Modules

| Module | Models | State and actions |
|---|---|---|
| `EventFifo` | abstract: a first-in first-out channel | `Post`, `Deliver` |
| `Input` | `input.c` | the array, the index, and how many producers are past their unlocked check (`storing`, `suspended`); the two halves of each function are actions; refines `EventFifo` |
| `EventCalendar` | abstract: events that fire once, in time order, not inside themselves | `Post`, `Fire`, `Withdraw`, `Return`, `Pass` |
| `Timer` | `timer.c` and the DEC part of `exception.c` | `events` with the ticks left, the slots, DEC and its pending exception, and the stack of handler frames; every locked section is an action; refines `EventCalendar` |
| `MemoryHeap` | abstract: regions that belong to one caller each | `Alloc`, `Free` |
| `Allocator` | `allocator.c` | `cur`, the headers, and a stack of the calls in progress; an iteration of each loop is an action; refines `MemoryHeap` |
| `BootMenu` | abstract: entries arrive and leave by partition, and only what was chosen from the menu is started | `Attach`, `Detach`, `Choose`, `Abandon`, `Start` |
| `Storage` | `block.c`, `fs.c`, the FAT glue, `config.c`, `menu.c`, screenshots, loaders and `cleanup.c` together, for they meet in what is mounted | the registered devices, the mounted partition, the menu, the autoboot, the stack of callbacks; each action runs the running callback up to its next wait; refines `BootMenu` |
| `Usb` | `usb.c`, `usb_hub.c`, `usb_storage.c` | the bus (`at`, `hw`, `powered`, `change`), the device table, the drivers' structures, the stack of calls; each action runs up to the next transfer or delay |
| `UsbBulk` | a mass storage command down to its packets: `botCommand` of `usb_storage.c` over the EHCI and OHCI transfers of `usb_hcd.c` | the schedule and its items, the toggles of both sides, the stick's phase, the command in progress; a packet, the end of a wait, and the stop of the controller with what the driver makes of it are actions |
| `Disc` | `di.c` | registers, the drive and its cover, the calls in progress (`diInit`, the poller, reads); a call's step up to its next command is an action |
| `SdCards` | `sdhc.c`, `mmc.c`, `hollywood_sdmmc.c` | the wire, `INT_STATUS` and the copy of it the handler works on, the command list, card and host, calls in progress; the handler is two actions, because bits may rise in between |
| `Bluetooth` | `usb_bluetooth.c` | the driver's structures, commands, events and data between it and the adapter, the remotes; `btPoll` is one action, made of the driver's functions as operators on a record |
| `WiiStart` | `wii/init.c`, `wii/mini_ipc.c` | the state, flags and retries of `H_InitWii`, the rights, the last word of MEM2, the queues to and from MINI, what runs on the coprocessor; one action per state, and the coprocessor's two |
| `MenuLists` | the lists of `menu.c` whose elements belong to partitions | what `UI_DelPart` leaves of one, and the root menu that a list of partitions makes |
| `MCTimer`, `MCAllocator`, `MCStorage`, `MCBluetooth` | values of constants for TLC | |
| `InputProofs`, `TimerProofs`, `AllocatorProofs`, `StorageProofs`, `UsbProofs`, `DiscProofs`, `SdCardsProofs`, `WiiStartProofs` | theorems about the module of the same name, and the lemmas they need | |

Invariants are conjunctions of named parts. `QueueKept`, `OrderKept`, `PoolsKept`,
`MenuKept`, `InStep`, `DiscKept`, `CardKept`, `BulkKept`, `SlotsKept` and
`StartSafe` hold the type invariant of their module and the parts that say what
its data structures mean. The modules meet at what they promise each other:
`Usb` takes a transfer to reach its device or fail, which `UsbBulk` looks into;
`Storage` takes a device to be registered and unregistered once, which `Usb`,
`SdCards` and `Disc` show of their drivers; all of them are called by the timer.

Conventions. `stack` (or `frames`, `calls`) holds the calls in progress, the
running one last: only the last one moves, and any new one goes on top, because the
callback that interrupts ends before the one it has interrupted goes on. Where a
call can be interrupted is a choice of each module. `Input`, `Timer` and
`Allocator` are split at every lock, unlocked read and loop. In the other modules
a callback is interrupted where it waits for a device (there it spends nearly all
of its time), and in `Storage` also in the windows of `menu.c` that have no wait
but whose two sides belong together: between the check and the store of a
movement of the selection, between the end of a countdown and the entry looked up for
it, and between an entry's look-up and its call. An interrupt between two
other statements of those modules is not explored.

Variables named "history" in their comments record that something has happened;
properties read them, and so do guards of the environment, never the modelled code.
Where the code promises nothing after some event, the property says so by such a
variable (`Spoiled`, `Excused`, `slipped`, `crossed`, `missed`, `sizeless`, `wasReset`):
the model goes through the event, the property is about everything before it, and a
further configuration shows what happens after it. So no such case is
hidden in the value of a constant. A definition preceded by "Mutant:" is a
plausible mistake: replacing the definition after it by it must make the
property that PROJECT.json names fail, which shows that the run can see it.

### Correspondence and abstractions

*Input.* An event's payload is its number. Producers post whatever the state of
the queue: `overrun` is a store outside the array, whose value the model drops, and
`reread` a read of the last slot, which is never cleared. A producer counts as `storing`
between its unlocked check and its locked store. The consumer's frame separates
the producers under it (`suspended`) from those above it, because the inner
ones end first. `IN_Init` is called by nobody; the array starts zeroed.

*Timer.* `rem` is the time left of an event in ticks, not below `-MaxLate`, so
that time is bounded. `DecSticky` is whether writing DEC withdraws a latched
exception, and `IdleExpires` whether DEC counts down from `DEC_IDLE`, the
largest value that is written to it (35 s on a Wii): without it DEC stays there,
an abstraction for callbacks that do not last that long. Neither is decided by
the code, and both are constants.
`CancelScope` says who cancels.

*Allocator.* Addresses count units of 8 bytes. The physical ranges given to
`M_Reserve` and to `M_PoolAllocAvoid` are written as the cached addresses they
are mapped to. Calls nest: an allocation or a `free` may run inside any iteration
of another one's loop. `raced` says that the inner one has moved the `cur_bottom` of a
pool that an interrupted one works with, `empty` that a block of no bytes was asked
for; nothing more is begun after that. `NoRoom` compares the candidate with the bottom
of the pool in one test, which also takes the wrap of `mem - sizeof(block)`; no pool
begins so low that the wrap could occur. `M_PoolAlloc(POOL_ANY)` searches one pool only,
as in the code (`Tried`). Panics stop the model.

*Storage.* What a partition contains is a constant; whether a read or mount
succeeds is a choice each time. `P_ProbePartitions` is part of `B_Register`,
and a screenshot's file is written in one step. The menu below the root, which
`H_PrepareForExecEntry` leaves when it fails, and a second `B_Unregister` of
the same device by a boot nested in a removal are not modelled; neither is the
built-in 'Eject Disc' of the root menu (it asks the drive to eject, and changes nothing
here: `Builtins` counts it among the entries that stay). `crossed` says that a
callback that works on devices, file systems or configurations has interrupted another
that does; keys, the selection, submenus and the countdown do not count. A selection
that is moved while a removal is nested in it (`slipped`) may stand beyond the menu until
the menu is drawn again; the next key or countdown then reads behind the list, and the
model stops at `wild`.

*Usb.* A transfer to a device reaches whatever answers to its address; if
nothing does it fails, and it may fail anyway, those of `hubClearPortFeature` and of
the mass-storage probe (`GET_MAX_LUN`) too. Retries of a transfer are one
transfer. The three descriptors' contents are the class of the device. When the
hub driver asks for the status bitmap, the controller has already polled the hub.
`disconnectDevice` takes what is behind a device with it, however deep
(`Behind`, `Gone`); hubs are plugged into root ports only. A poll that finds nothing
to do leaves no trace and is not called; one that finds something may interrupt another
call of the stack at any transfer or delay, and that is `crossed`.

*UsbBulk.* A qTD takes `PerItem` packets, and so does a TD; the data phase has
`Packets`. The stick is that of the bulk-only transport: phases, toggles, halted
endpoints. Disturbances are lost packets and acknowledgements, stalls, short
data, refused commands, a stick that is too slow, a controller that does not start
or stop, and callbacks: a callback in the wait of a transfer builds its own in
the schedule, uses it up and returns, and the wait goes on with what it finds.

*Disc.* Readable is what the drive can do with the disc, the command and the
firmware. A command that was launched and timed out keeps the drive busy with no
caller. `clob` marks a call inside which another command ran. Nothing of the
driver runs after `diCleanup`, so its own tests of `diStopping` never succeed in
the model; what they are for is that no wait goes on in the handover. The wait for
an idle drive and the launch of the command after it (`di.c:307-338`) are one step: in
between an interrupted call could find the drive busy again, and would wait again.
The commands by which a drive is unlocked or patched are one step with one result,
and the `diGetStatus` calls of `diValidateMediaRead` (`di.c:639, 647`), whose result is
only logged or compared with the cover, are left out.

*SdCards.* A command has a response part and a data part on the wire. Interrupts
are on before a command and for a moment after it was queued (`window`); the rest
of the wait has them off and polls. `latch` is the handler's copy of `INT_STATUS`.

*Bluetooth.* The adapter answers in order; an answer may be lost once, stay with the
adapter until after the time out, or tell of a failure (of `READ_BD_ADDR`, or of the
encryption). Remotes start when nothing is under way and start nothing new after a reset,
bounds that keep the queues short; something goes wrong only while at most one of them is
on, and after that the other one stays off. A remote opens a channel once the driver
knows its link, so that an L2CAP request that overtakes the event of its own link, which
the driver drops, is not seen. A remote may close a channel that works. A button is one bit,
and waits for the report before it to be taken; one that is let go while the interrupt
channel is closed cannot be reported (`unheard`).

*WiiStart.* What IOS is asked is left out: it grants the rights, refuses, seems to
grant them, does not answer (the panics of `ES_Init`), or is an IOS in which
`armbootnow` finds no place for its hook or too many tickets. MINI serves requests one
by one whenever it likes; its queue may stay full until a post times out. Registers
that are closed take no writes. `testMEM2` is three actions, its first read, its write, and
its second read with the restoring, because MINI may publish its header between any two of
them; `seen` records what went wrong. A word that was read while MEM2 was closed, and
that is written back, is `closed`.

## 3. Runs

| Run | Config | What it asks | Bounds | States |
|---|---|---|---|---|
| `input` | `Input.cfg` | contents, order, refinement of `EventFifo`, delivery; the queue goes wrong only after it was full | 4 slots, 3 nested producers, 12 events, at any pace | 14,000 |
| `timer` | `Timer.cfg` | order, one instance, no lost event, cancellation, refinement of `EventCalendar`, every queued event is called | 2 repeating and 1 one-shot event, 3 frames, 3 slots, DEC up to 2 | 179,000 |
| `allocator` | `Allocator.cfg` | disjointness, metadata, reclaiming, refusals, refinement of `MemoryHeap` | pools of 10 and 14 units, a reserved range, two sets to avoid, sizes 0 and 1, two alignments, a call inside another | 567,000 |
| `storage` | `Storage.cfg` | menu, selection, autoboot, refinement of `BootMenu`, whatever crosses | a card with an `npll.cfg`, a WFS memory with a `gumboot.lst`, a callback inside another | 1,611,000 |
| `storage_uncrossed` | `StorageUncrossed.cfg` | what is mounted, listed, started and hooked until callbacks cross | three devices of which one comes and goes, a callback inside another; nothing goes on after a crossing | 1,301,000 |
| `storage_instant` | `StorageInstant.cfg` | expected violation, see below | three devices, no nesting | |
| `usb` | `Usb.cfg` | tree, addresses, scans, units, shutdown, registration, until callbacks cross | a hub with two ports in the one root port or a stick there, two sticks, 3 devices, one mass-storage slot | 169,000 |
| `disc` | `Disc.cfg` | what is registered can be read, no read lies, a quiet handover, every disc is served | both consoles, an original and a DVD-R, a call inside another | 204,000 |
| `cards` | `SdCards.cfg` | true answers, no finished command missed, card and host agree, nothing left that the code can know of, the slot followed | one card that comes and goes, with or without a size, and the internal device of a Wii U; a clock that may fail; a call inside another | 213,000 |
| `usb_bulk` | `UsbBulk.cfg` | true commands, recovery | 3 packets of data, 2 to an item, 2 disturbances, 3 tags, both controllers | 321,000 |
| `bluetooth` | `Bluetooth.cfg` | slots, repeats, pages and queue in step with the adapter; start and start again; remotes heard | two paired remotes, one of them with a key, two slots, a queue of 4, one disturbance while one remote is on | 270,000 |
| `wii` | `WiiStart.cfg` | a sound end or a panic with a cause, IOS spoken to only while it runs, an end at all | IOS or MINI with any rights, the code's 5 waits and 3 replies, 3 launches, a queue of 3, 3 disturbances | 24,000 |

Why the bounds suffice: three times as many events pass as the queue has slots, so
it is at every fill level, full too, with producers nested at each of them; the
timer has two events of different period, a one-shot event due at once or later,
and stack room for each to interrupt each other and one more; the pools hold
several blocks, so that frees can be out of order, both pools can
be exhausted and every allocation policy falls back; the storage instances have
every kind of entry, both configuration files and a partition of each relevant
file system, and two callbacks are the smallest nesting, deeper ones repeat it;
the USB instance has a tree of depth two, more sticks than mass-storage slots
and room for one address to be reused. A read of a card or a disc inside another
call is the smallest nesting; the transfer of three packets has an item that
is full and one that is not, so that packets and items count differently, and
two disturbances let the recovery itself fail; two remotes in two slots can be taken
for one another, and are asked for, paged and accepted at once; three disturbances let
MINI be slow after a refusal and a lost launch, and a queue of three requests is full after one
round of `MINI_Init` that nobody serves.

**Expected violation.** `storage_instant`: a timeout of 0 boots from inside
`B_Register`, before the driver has recorded the device, and stops at an assertion
of `B_Shutdown`; the text it contradicts is quoted in `PROJECT.json` under
`findings`.

**Further configurations** are not among the runs. The first ones check the properties
of a run on another instance, and pass:

| Config, module | Instance | States |
|---|---|---|
| `AllocatorAlone.cfg`, `MCAllocator` | three sizes, calls that do not nest | 83,000 |
| `BluetoothOne.cfg`, `MCBluetooth` | one slot for two remotes, so that one of them is turned away | 170,000 |
| `BluetoothTwo.cfg`, `MCBluetooth` | another console than a Wii: no remote is paged, and all that ask are accepted | 57,000 |

Each of the others checks one statement that the code does not keep, and TLC violates
it; most are what a property of a run excepts:

| Config, module | Statement | What TLC finds |
|---|---|---|
| `InputBurst.cfg`, `Input` | `NoRedelivery` | after as many events as there are slots are queued without being consumed, the last slot is never cleared, and its event is delivered again and again |
| `AllocatorRace.cfg`, `MCAllocator` | `MetadataIntact` | an allocation that another one interrupts hands out the same memory |
| `AllocatorEmpty.cfg`, `MCAllocator` | `MetadataIntact` | a block of no bytes at the top of a pool lies outside it, and `free` panics |
| `AllocatorAny.cfg`, `MCAllocator` | `AnyRefusedOnlyWhenFull` | `M_PoolAlloc(POOL_ANY)`, "to allocate from a specific (or any) pool" (`src/allocator.c:277`), tries only the pool with more bytes free, and panics although an aligned place is free in the other |
| `StorageDefault.cfg`, `MCStorage` | `DefaultBooted` | the countdown boots an index; a partition that arrives in the meantime moves another entry there |
| `StorageSlip.cfg`, `MCStorage` | `NothingWild` | a removal between `menu.c:547` and `548` leaves the selection beyond the menu, and the next key looks up what is there |
| `StorageAssert.cfg`, `MCStorage` | `NoAssertion` | a FAT partition that fails to mount makes the next mount of one fail an assertion |
| `StorageCrossed.cfg`, `MCStorage` | `MountLive` | once callbacks cross, what is mounted may belong to a device that is gone |
| `UsbNested.cfg`, `Usb` | `InStep` without the exception | a poll inside the wait of another frees the device that one is about |
| `SdCardsClock.cfg`, `SdCards` | `StillWorks` | a clock that does not get stable during the switch to high speed stays off (`sdhc.c:961, 976`), though `mmc.c:505` says that "every failure path leaves a card that still works at the default operational clock", and the card is registered |
| `SdCardsUnsized.cfg`, `SdCards` | `NoneMissing` | a card whose size cannot be read is not registered but marked so (`hollywood_sdmmc.c:140, 193, 285`); its removal or a boot stops at the assertion of `B_Unregister` |
| `SdCardsWiiU.cfg`, `SdCards` | `AllCleanedUp` | on a Wii U the removal of the card sets the state of the driver of both devices to NO_HARDWARE (`hollywood_sdmmc.c:204`), a boot does not clean up the internal one, and stops at the assertion of `B_Shutdown` |
| `UsbBulkShared.cfg`, `UsbBulk` | `SharedSchedule` | a transfer made by a callback in the wait of another one makes that one succeed without its data |
| `BluetoothClosed.cfg`, `MCBluetooth` | `RepeatsOnlyHeld` | after an `L2CAP_DISCONN_REQ` for the interrupt channel (`usb_bluetooth.c:542-549`) the buttons stay as they were last reported, and `btPoll` (957-967) repeats one that was let go meanwhile |
| `WiiStartRights.cfg`, `WiiStart` | `UnrestrictHasRights` | the rights are posted to MINI and used before it has served the request |

### Fairness

`Timer` assumes that time passes, that a pending exception is taken once
interrupts are on, and that a handler goes on (weak fairness); and strong
fairness of the main program's queueing and enabling, because an interrupted
context resumes whenever the handlers above it have returned, which happens
again and again but not for good. `Input` assumes that the consumer
is called again and a producer ends. `Usb` assumes that a callback that has begun
goes on (every transfer and delay has a timeout: `USB_SubmitTransfer` sets
one) and strong fairness of the calls of `USB_Poll`, `hubPoll` and `massScan`,
which `QueuedIsCalled` shows of the timer that calls them. `Disc` and `SdCards`
assume that the device ends what it does, that the interrupt and the poller are
taken, and that each call goes on when it is the running one (strong fairness, for
a nested call ends). `UsbBulk` and `WiiStart` assume that something happens as
long as anything can: every wait there has a time out, or MINI answers. In
`Bluetooth` the fairness of `btPoll` is spelled out, what enables it (`Waiting`)
and what it does (`Taken`), and that its two seconds pass (`Overdue`); it stands
for weak fairness of a large action, whose ENABLED is slow to evaluate. Nothing
is assumed of the user.

### What the properties except

* Input: the queue has no room for more events than it has slots, and the code does
  not keep to that. `QueueKept` says when it goes wrong: a store leaves the array
  (`overrun`), or the consumer reads behind the queue (`reread`), only once the last
  slot has been used (`filled`), and until one of them happens contents, order and head are
  as they should be. `FifoSpec` and `AllDelivered` speak of the same time.
* Allocator: nothing is said after a nested call has moved the `cur_bottom` that an
  interrupted one works with, nor after a block of no bytes was asked for, whose range
  is empty (`Excused`). A refusal is about the pools that were looked in.
  Sizes, with the header, fit in 32 bits.
* Storage: `SelectedInMenu` excepts the time from a removal inside a movement of the
  selection to the next drawing of the menu (`slipped`). The properties of
  `storage_uncrossed` speak of the time until two callbacks cross, for `FS_Open` then
  reads from whatever is mounted. Nothing in the code excludes that; the model has it.
* Usb: `InStep`, `BusExclusive` and `PluggedIsRegistered` speak of the time until a
  callback that has something to do interrupts another (`crossed`); then a call may be
  left with a device that was freed (`Dangling`). The last two also except a failed
  transfer and a change too quick to be seen (`missed`): the code has no answer to
  either, an enumeration that failed is not repeated.
* Timer: `CancelledStaysOut` with `CancelScope = "self"`: an event that a nested
  callback cancels after `repeatingEventCB` has looked is queued once more.
* Disc: `TruthfulReads` is about a read inside which no other command ran, and
  the history variables `missed` and `flaky` name what `DiscKept` and
  `DiscServed` except: a cover that moved back before it was polled, a drive that
  failed.
* SdCards: `CardKept` is about a card that can be reached at all, for a clock that did
  not get stable stays off; `NoneLeft` excepts the internal device of a Wii U whose slot
  has lost its card, and an unregistration after a card without a size (`sizeless`). A failed
  `mmc_init` is not tried again until the card is changed (`flaky`).
* UsbBulk: a command in whose waits a callback made a transfer (`mixed`) is
  excepted from `TruthfulCommands`, those after it are not.
* Bluetooth: a button may repeat that was let go while its remote had closed the interrupt
  channel (`unheard`): the driver forgets the channel but not the buttons. After
  a reset of an adapter in use (`wasReset`) the driver keeps slots of links that are gone:
  from then on, and for good, `SlotsFollowLinks`, `RepeatsWhileHeld` and `NoneRefused` say
  nothing; `PageInFlight` goes on. `AdapterComesUp` excepts an adapter that refuses its
  address (`unread`): `initAdvance` then asks nothing more (659). `TransfersFail` is
  FALSE: a reset of the adapter whose transfer fails is not sent again.
* WiiStart: `IosOnlyOnIos` excepts a MINI that is slower than the half second it is
  given, or that was not asked because its queue was full; a MINI that was there before
  has opened MEM2.

## 4. Proofs

All theorems hold for every value of the constants that satisfies the named
`ASSUME` of the module: any number of devices, events, entries or nested callbacks. Two
theorems about the timer have a premise more, on a constant for what the hardware or
the callers do; the others have none, and except what the properties themselves except
(section 3).

| Theorem | Says | Premise |
|---|---|---|
| `InputCorrect` (`InputProofs`) | `[]QueueKept`: types; contents and head, and what it takes to spoil them | none |
| `InputImplementsFifo` | `FifoSpec`: every step of `Input` is a step of `EventFifo`, a stutter, or spoils the queue | none |
| `TimerCorrect` (`TimerProofs`) | `[]OrderKept`: types, sorted, one instance | none |
| `NeverOverflows` | `[]NoOverflow` | none, the property has its own |
| `NeverLost` | `[]NoLostEvent` | `IdleExpires` |
| `CancelledIsOut` | `[]CancelledStaysOut` | `CancelScope # "any"` |
| `TimerImplementsCalendar` | `CalendarSpec`: `Timer` refines `EventCalendar` | none |
| `AllocatorSafe` (`AllocatorProofs`) | `[]PoolsKept`: types, disjointness, metadata, reclaiming, for nested calls | none |
| `RefusesOnlyWhenFull` | `[]RefusedOnlyWhenFull` | none |
| `AllocatorImplementsHeap` | `HeapSpec`: `Allocator` refines `MemoryHeap` | none |
| `MenuIsKept` (`StorageProofs`) | `[]MenuKept`: types, the menu in step with the partitions, the selection in the menu | none |
| `AutobootHasTarget` | `[]AutobootTarget` | none |
| `StorageImplementsMenu` | `MenuSpec`: `Storage` refines `BootMenu` | none |
| `NothingDangles` | `[]ReferencesLive` | none |
| `StartsWhatIsNamed`, `HookIsOfEntry` | `[]StartedFromPaths`, `[]HookOfEntry` | none |
| `FirstDecides`, `ScreenshotsRestore` | the action properties `FirstConfigDecides`, `ScreenshotRestores` | none |
| `UsbInStep` (`UsbProofs`) | `[]InStep`: types, device table, hubs, scans and block devices in step | none |
| `UsbBusExclusive` | `[]BusExclusive` | none |
| `DriveIsFollowed`, `DiscsAreReadable` (`DiscProofs`) | `[]DiscInv`, from it `[]DiscKept`: types, what is registered can be read | none |
| `ReadsAreTruthful`, `StartedInPeace` | `[]TruthfulReads`, `[]HandoverQuiet` | none |
| `AnswersAreTrue`, `CompletionsAreSeen` (`SdCardsProofs`) | `[]TruthfulAnswers`, `[]FinishedIsSeen` | none |
| `CardsAreTuned` | `[]CardKept`: types, card and host agree or the clock is off | none |
| `NothingIsLeft` | `[]NoneLeft` | none |
| `WiiStartSafe` (`WiiStartProofs`) | `[]StartSafe`: types, a sound end, no `__builtin_unreachable`, IOS only on IOS | none |
| `PanicsAreCaused` | `[]PanicHasCause` | none |

The two premises are needed: TLC violates `NoLostEvent` with `IdleExpires = FALSE`, and
`CancelledStaysOut` with `CancelScope = "any"`.

The arguments:

* **Input.** `Contents` alone is not inductive: a producer past its check may
  find the queue full. `InputInv` adds `Counted`: the index is at most as far
  behind the array as there are producers whose check is stale, and it was at the end of
  the array once if it is there (`filled`). A store past the end is
  `overrun`, a shift of a full array `reread`; without either, every
  store appends, so that the fetched event stays the head.
* **Timer.** `OneInstance` says that an id is in at most one place: the array, or
  one frame. `TimerInv` adds that a repeating event whose slot is free is
  nowhere, without which registering one could duplicate it. Moving an event
  from the array to a frame, from there to "being queued", and back are the
  four steps that move ids; each other step leaves the places alone. `NoOverflow`
  follows by counting: distinct ids in an array that has a slot for each.
  `NoLostEvent` has a case per way the first event changes. Its premise is that
  DEC counts down from its largest value; with the abstraction for short
  callbacks (`IdleExpires = FALSE`) a first event farther away than that would
  never be reached by DEC. `CancelledOut` adds to `TimerInv` that no frame has a
  cancelled slot in its hand (`NotBack`). For the refinement an event's place in
  the array becomes the time it is due at, which one instance per id makes a
  function; that the first event is the earliest is `Sorted`.
* **Allocator.** Calls are a stack, and every one but the top waits with what it has
  read of its pool. `AllocInv`: the blocks of a pool tile it from `cur_bottom`
  to the top (`Tiled`), the live regions are the blocks not freed (`Owned`), and
  the lowest block is free only while some `free` in the stack is about to give it back
  (`Postponed`). The last part yields `AllReclaimed`: without live regions and calls every
  block is free, the lowest cannot be, so there is none. An
  inner call that moves `cur_bottom` under one that still works with it ends all of them
  (`raced`); one that works in another pool, finds nothing, or only marks a block as free
  disturbs none. `Refusals` follows a
  search through its calls: an address that was stepped over, because it hits a
  reserved range, lets nothing fit between itself and the next one tried, and a
  dry run of a pool that found nothing is remembered until the second one ends.
* **Storage, whatever is nested.** `Kept` has six parts. `Nested`: the callbacks
  in progress are different ones, each waits where its task may wait, and the
  device that one of them is about is in the list. `OpenKept`: an open
  descriptor is a file of what is mounted, and some callback waits with its number,
  above which nobody is mounting; a mount inside that wait closes it, and what the
  outer callback then reads through the number is what was opened there since.
  `Listed`: the root menu is the entries of the partitions, newest
  first. `Counted`: what the selection, the countdown and the pending input know of it.
  The deletion of a partition from the middle of the menu is an
  induction over the list (`MenuLists`). `Moving` is about the movement that waits
  between its comparison and its store: it has cancelled the countdown, so that
  none can select above it, and a removal in between has left `cut` or `slipped`.
* **Storage, until callbacks cross.** The theorems are of the nested specification and
  have the invariant `crossed \/ KeptAlone`. `KeptAlone` adds what the running callback knows
  (`Working`), each task its own: a registration, how far through the
  partitions and which `npll.cfg` decides; a boot, that what it has loaded and
  what it has still to load make up the entry's paths, and that what is mounted is
  what the next of them names; a screenshot, what was mounted before it. The callbacks
  of the menu (keys, countdown, drawing) may interrupt it anywhere and change none of
  that; another one that mounts does, which is when `crossed` is set.
* **USB, what the stack believes.** `InStep` says what the structures of the three
  drivers have to do with each other, and a call that waits for a transfer is in the middle
  of changing them, so `UsbInv` says in three parts how far. `Tree`: nothing is
  without a root above it (`Rooted`), so that what `disconnectDevice` finds from the
  device downwards is all that depends on it; a device is in a port that its
  parent has (`PortsFit`), and each slot of the hub driver is of one device (`HubSlots`,
  `HubsBound`). `Units`: a device bound to the mass-storage driver has its slot, besides
  what `InStep` says of scans and units. `Calls` is the invariant of the stack: what each
  waiting call has made sure of before it waits and must find again (`FramesOK`), which
  call waits for which (`Chained`), and that what runs above `hubProbe` for its hub
  is about a port that it has dealt with (`Spread`). The invariant is `crossed \/ UsbInv`: until
  callbacks cross, the calls of a stack are one chain from a poll downwards, so that only the running call can free what one below it
  holds, and it does so only where that one expects it. One lemma per action, each
  with a step per part; the actions that free (`FreeTree`) share theirs.
* **USB, what is on the bus.** `BusInv` relates that belief to the things. `Numbered`:
  addresses in the table are unique, 0 is that of the device being enumerated
  and the one it is about to be given is free, which rests on the search of
  `allocateAddress` and on one enumeration at a time. `Exclusive`: whatever answers on the bus
  has a device with its address and its place, or is what the running call
  enumerates or resets next (`Traces`); a hub that
  has power is served by one slot of the driver (`HubsServed`), and a call
  that handles one of its ports knows it (`HandlesFit`). Without the last two,
  port 1 of one hub could not be told from port 1 of another.
  `missed` ends `Exclusive` only: what the stack believes stays in step.
* **Disc.** `DiscInv`: while the program runs, `Going`. `Shaped`: `diInit` is
  below everything, there is one poller. `Slot`: a disc is looked at only while none is
  registered, and so nothing interrupts that, for only reads do. `Wired`: the drive works for
  a call that has no answer yet, and every other call that waits has lost its
  registers. `Told`: LENGTH tells a call that has not whether it got its data,
  which makes `diRead` right although the interrupt handler took the error from SR.
  `Fit`: what is registered, or was read from in a probe, can be read if the cover has
  stayed closed. `Starting`: a driver without hardware has no transfer under
  way, so that a boot that skips `diCleanup` leaves none either.
* **SD cards.** `SdInv` has seven parts. The list holds the calls that wait, in the order
  of their nesting (`InList`); the command on the wire is the first of them, or was answered
  already and then its card is gone (`Wired`); the bits of `INT_STATUS` and of the
  handler's copy are about the first of the list or about nobody (`Evidence`), and
  after a removal about nobody whose card is there (`Removed`, `Orphans`).
  So a bit read late ends no command but its own, and none that ended is without its bit
  (`Seen`). `Tuned` says at each step of `mmc_init` what card and
  host were told; a clock that does not get stable, at which `mmc_init` does not look, is
  off from then on and leaves them agreeing. `Sized` says when there is a device;
  after a card without a size (`sizeless`) only an unregistration can miss one, and
  only the internal device of a Wii U is left behind by a removal.
* **Wii start.** None of the parts of `StartSafe` is inductive: that
  `STATE_READY` finds the right MINI depends on what was known when the flags were
  last set. `StartInv` adds what H_InitWii may conclude. `Origin` says who runs,
  by what it remembers (`ORIG_MINI`, `RAN_ABN`, `MINI_RELOADED`). `Published`: an
  address in the last word of MEM2, saved by `testMEM2` or taken for
  `CUR_MINI`, is one of the MINI that runs now, which is why the reload clears
  word and flag, and why the jump is only ever queued with the old MINI
  (`Reload`). `Places` says what each state was reached with, and between the two halves of
  `testMEM2` what it keeps. `NoIos`
  follows the word: started from MINI, and unless MINI is slow, there is a header at
  each look. Each part is preserved by a lemma with a case per action.
  `PanicHasCause` needs `Causes`: what is true, many states before the panic,
  unless the disturbance that the message names has happened (`Granted`, `Launched`,
  `Up`, `Missed`). It shows too that the last checks and a header that vanished never
  are a cause.

Induction over a length or a list is stated over a set (`SetInduction`,
`AppendInduction` of `StorageProofs`), because a theorem with an operator as its parameter
cannot be instantiated. It suffices for lists (`WithoutOwner`, `Blocks`), which is why
those are functions on the length and not folds. Where guards of a
`CASE` overlapped, its value was left to the choice of the checker; those definitions
(`Verdict` of `SdCards`, `Status` of `Disc`, `hciCommand` and `initAdvance` of
`Bluetooth`, `StorageWithout` of `Usb`) are written in the order in which the
code tests.

**Only model-checked:** liveness (`AllDelivered`, `QueuedIsCalled`,
`PluggedIsRegistered`, `DiscServed`, `SlotFollowed`, `StickRecovers`,
`AdapterComesUp`, `RemoteHeard`, `Settles`), which is out of the prover's reach;
and so far the safety of `UsbBulk` (`BulkKept`) and `Bluetooth` (`SlotsKept`,
`CommandsKept`). `NoneRefused` of `Bluetooth` cannot become a theorem without
further assumptions, for it depends on the queue being long enough for the disturbances. `ShutdownClean` and the statements of
the further configurations are false and have no proof.

## 5. Not modelled

Of the modelled drivers: interrupt endpoints that stay in a schedule and root
hub ports (`usb_hcd.c`), the SPI host and writes (`sdspi.c`, `sdhc.c`), the layout
of Bluetooth packets, the IPC with IOS. Not begun: SD Gecko cards and EXI, the
chunking of block transfers, partition tables, USB keyboards, controllers and
the reset switch (section 6).

Left out for good: file formats and file system contents (data, the models choose
the outcome), drawing, logs, fonts, libc and statistics (output), register
sequences of the crypto engines, I2C, GPIO and displays (no state of their own),
the Wii U's and the GameCube's straight initialisation, and what was not
written here: FatFs with its Unicode tables, lwext4, the compiler's support
functions and a font, some 32,000 of the 66,600 lines. The map covers about a
tenth of all lines. With data formats and output taken off too, most of what is
left is registers written in a fixed order, so that a share of a third is not to
be had without widening lines past what a definition says.

## 6. Plan

Done, in the order of importance: the timer that everything runs in, the queue
and the allocator that everything shares, storage to program start, USB; then
the drivers that feed them, down to the commands: mass storage, discs, cards,
remotes; and the start of the Wii.

Next:

1. `Exi`: `exi.c`, `sdgecko.c`, `sdspi.c`: the selection of a device between
   callbacks, and probing; `si.c` and `reset_switch.c` as further sources of `Input`.
2. `UsbResident`: interrupt endpoints that stay in a schedule while transfers
   are linked into it and out of it, and `usb_hid.c`, which lives on one.
3. `Partition` and `BlockIO`: pure algorithms, against reference definitions:
   the chain of extended boot records, which need not end, and the split of an
   unaligned transfer.

Theorems to come, with the invariant each needs: `TruthfulCommands` of `UsbBulk`
(which packet of which command each side believes to come next, and that only a
transfer made in a wait removes items that are not its own); `SlotsFollowLinks` and
`PageInFlight` of `Bluetooth` (where each event of a link is on its way).

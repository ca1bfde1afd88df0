-------------------------------- MODULE Disc --------------------------------
(***************************************************************************)
(* The disc drive (drivers/di.c) of the GameCube and the Wii.              *)
(*                                                                         *)
(* The main program (diInit), a repeating event that watches the cover     *)
(* (diCoverPoller) and the callbacks that read files (diRead) share one    *)
(* command engine.  Each waits for its command with interrupts enabled, so *)
(* others may run commands inside it, and a boot may shut the driver down. *)
(* stack holds the calls in progress, the running one last.  A call either *)
(* stands before a command or waits for the one it has launched; what it   *)
(* does then, up to its next command, is one action.                       *)
(*                                                                         *)
(* A boot does not come back: after diCleanup nothing of this driver runs, *)
(* so the driver's own tests of diStopping never succeed and are left out. *)
(***************************************************************************)
EXTENDS Naturals, Sequences, SequencesExt

CONSTANTS
  MaxNesting        \* calls in progress at once

ASSUME DiscAssumption == MaxNesting \in Nat \ {0}

VARIABLES
  console,          \* "gamecube" or "wii"
  lid, disc,        \* is the cover open, and what is in the drive
  engine,           \* the drive's command: is it busy, with DMA, and the
                    \* place in stack of the call that waits for it (0: none)
  sr, residual,     \* an error is reported in SR; LENGTH is not 0
  immbuf,           \* the status the drive returned, where it is looked at
  patchedDrive,     \* the drive runs the patched firmware
  driveKnown,       \* driveDate is that of a drive there is a patch for
  bdev, bdevRegistered,           \* registered; known to be
  mediaValidated, usingWiiDVDRRead, patchedGCNMedia, lastDICVR,
  polling, irqOn, state, stack,
  halted,           \* "no", "handover" or "panic"
  lied,             \* history: a diRead that no other command interrupted
                    \* returned success although the drive had failed
  missed,           \* history: the cover has moved back before it was polled
  flaky             \* history: the drive has failed since the cover moved

hardware == <<lid, disc, patchedDrive, immbuf>>
flags == <<mediaValidated, usingWiiDVDRRead, patchedGCNMedia>>
blocks == <<bdev, bdevRegistered>>
control == <<console, driveKnown, lastDICVR, polling, irqOn, state, halted, lied, missed>>
vars == <<hardware, engine, sr, residual, flags, blocks, control, stack, flaky>>

Discs == {"none", "original", "dvdr"}
Statuses == {"ok", "nodisc", "changed", "dvdr", "other"}
Media == {"empty", "original", "rejected", "unknown"}
Dma == {"inquiry", "readid", "v0", "v16", "size", "read"}
Commands == Dma \cup {"waitstatus", "status", "unlock", "idstatus", "patch", "status2"}
Idle == [busy |-> FALSE, dma |-> FALSE, by |-> 0]

Call(fn, pc) ==
  [fn |-> fn, pc |-> pc, wait |-> FALSE, out |-> "none", clob |-> FALSE,
   open |-> FALSE, id |-> "none", media |-> "unknown"]

Init ==
  /\ console \in {"gamecube", "wii"} /\ lid \in BOOLEAN /\ disc \in Discs
  /\ engine \in {Idle, [busy |-> TRUE, dma |-> TRUE, by |-> 0]}
  /\ sr = FALSE /\ residual = FALSE /\ immbuf = "other"
  /\ patchedDrive = FALSE /\ driveKnown = FALSE
  /\ bdev = FALSE /\ bdevRegistered = FALSE
  /\ mediaValidated = FALSE /\ usingWiiDVDRRead = FALSE /\ patchedGCNMedia = FALSE
  /\ lastDICVR = FALSE /\ polling = FALSE /\ irqOn = FALSE
  /\ state = "cleanable" /\ stack = <<Call("init", "unwedge")>> /\ halted = "no"
  /\ lied = FALSE /\ missed = FALSE /\ flaky = FALSE

-----------------------------------------------------------------------------
(***************************************************************************)
(* The drive and its user.                                                 *)
(***************************************************************************)
Top == Last(stack)
Running == halted = "no" /\ stack # <<>>

\* A disc can be read with the command and the firmware its kind needs.
Readable ==
  /\ ~lid
  /\ \/ disc = "original" /\ ~usingWiiDVDRRead
     \/ disc = "dvdr" /\ console = "wii" /\ usingWiiDVDRRead
     \/ disc = "dvdr" /\ console = "gamecube" /\ patchedDrive

Succeeds(pc) ==
  CASE pc = "readid" -> ~lid /\ disc = "original"
    [] pc \in {"v0", "v16", "read"} -> Readable
    [] pc = "size" -> console = "wii" /\ ~lid /\ disc # "none"
    [] OTHER -> TRUE

Status ==
  IF lid \/ disc = "none" THEN "nodisc"
  ELSE IF disc = "original" THEN "ok"
  ELSE IF console = "wii" THEN "dvdr" ELSE "other"

\* The user moves the cover, and changes the disc while it is open.
MoveCover ==
  /\ halted = "no"
  /\ lid' = ~lid
  /\ disc' \in IF lid THEN Discs ELSE {disc}
  /\ missed' = (missed \/ lid' = lastDICVR)
  /\ UNCHANGED <<patchedDrive, immbuf, engine, sr, residual, flags, blocks, console, driveKnown,
                 lastDICVR, polling, irqOn, state, halted, lied, stack, flaky>>

\* The drive ends its command, well or not.  A status it returns may say
\* that it is not ready yet.
DriveDone ==
  /\ engine.busy /\ halted = "no"
  /\ engine' = Idle
  /\ IF engine.by = 0
     THEN /\ sr' \in BOOLEAN
          /\ UNCHANGED <<residual, immbuf, stack, flaky>>
     ELSE LET f == stack[engine.by] IN
          \E good \in BOOLEAN :
            /\ good => Succeeds(f.pc)
            /\ sr' = ~good
            /\ residual' = (residual /\ ~good)
            /\ immbuf' \in IF good /\ f.pc = "idstatus" THEN {Status, "changed"} ELSE {immbuf}
            /\ flaky' = (flaky \/ (~good /\ Succeeds(f.pc)) \/ immbuf' = "changed")
            /\ stack' = [stack EXCEPT ![engine.by].out = IF good THEN "good" ELSE "bad"]
  /\ UNCHANGED <<lid, disc, patchedDrive, flags, blocks, control>>

\* The interrupt acknowledges what SR reports, whoever was to read it.
diIRQHandler ==
  /\ irqOn /\ sr /\ halted = "no"
  /\ sr' = FALSE
  /\ UNCHANGED <<hardware, engine, residual, flags, blocks, control, stack, flaky>>

-----------------------------------------------------------------------------
(***************************************************************************)
(* Commands.                                                               *)
(***************************************************************************)
Set(f) == stack' = [stack EXCEPT ![Len(stack)] = f]
Before(f, pc) == [f EXCEPT !.pc = pc, !.wait = FALSE, !.out = "none", !.clob = FALSE]
Goto(pc) == Set(Before(Top, pc))
Return == stack' = Front(stack)

Launch ==
  /\ Running /\ Top.pc \in Commands /\ ~Top.wait /\ ~engine.busy
  /\ engine' = [busy |-> TRUE, dma |-> Top.pc \in Dma, by |-> Len(stack)]
  /\ sr' = FALSE /\ residual' = (Top.pc \in Dma)
  /\ stack' = [i \in DOMAIN stack |->
                 IF i = Len(stack) THEN [stack[i] EXCEPT !.wait = TRUE]
                 ELSE [stack[i] EXCEPT !.clob = stack[i].wait]]
  /\ UNCHANGED <<hardware, flags, blocks, control, flaky>>

\* What diDoCMDTimeout makes of the registers.
\* Mutant: SR alone is believed.
ResultOfSR(dma) == IF sr THEN "eio" ELSE "ok"

Result(dma) == IF sr \/ (dma /\ residual) THEN "eio" ELSE "ok"

\* The command of the running call at pc returns r.  One that times out,
\* before its launch or after it, leaves the drive busy.
Returns(pc, r) ==
  /\ Running /\ Top.pc = pc
  /\ \/ /\ Top.wait /\ ~engine.busy /\ r = Result(pc \in Dma)
        /\ sr' = FALSE /\ UNCHANGED <<engine, flaky>>
     \/ /\ engine.busy /\ r = "etimedout"
        /\ engine' = IF engine.by = Len(stack) THEN [engine EXCEPT !.by = 0] ELSE engine
        /\ flaky' = TRUE /\ UNCHANGED sr
  /\ immbuf' = "other"
  /\ UNCHANGED <<residual, lid, disc, console, halted, missed>>

Results == {"ok", "eio", "etimedout"}
ReadStatus(r) == IF r = "ok" THEN immbuf ELSE "other"

-----------------------------------------------------------------------------
(***************************************************************************)
(* Probing: diProbeNewMedia and what it calls, for diInit or the poller.   *)
(***************************************************************************)
EndProbe == IF Top.fn = "init" THEN Set(Call("init", "queue")) ELSE Return

BeginReadID ==
  /\ Set([Before(Top, "readid") EXCEPT !.media = "unknown", !.id = "none"])
  /\ mediaValidated' = FALSE

ProbeNewMedia ==
  IF console = "gamecube"
  THEN Goto("unlock") /\ UNCHANGED flags
  ELSE BeginReadID /\ UNCHANGED <<usingWiiDVDRRead, patchedGCNMedia>>

Unlock ==
  \E r \in Results :
    /\ Returns("unlock", r)
    /\ IF r = "ok" THEN BeginReadID ELSE (EndProbe /\ UNCHANGED mediaValidated)
    /\ UNCHANGED <<usingWiiDVDRRead, patchedGCNMedia, blocks, patchedDrive, driveKnown, lastDICVR,
                   polling, irqOn, state, lied>>

ReadID ==
  \E r \in Results :
    /\ Returns("readid", r)
    /\ Set([Before(Top, "idstatus") EXCEPT !.id = r])
    /\ UNCHANGED <<flags, blocks, patchedDrive, driveKnown, lastDICVR, polling, irqOn, state, lied>>

\* Mutant: a DVD-R rejected by the drive is not told from a bad disc.
ClassifyAlike(id, status) ==
  CASE id = "ok" -> "original"
    [] id # "ok" /\ status = "nodisc" -> "empty"
    [] OTHER -> "unknown"

Classify(id, status) ==
  CASE id = "ok" -> "original"
    [] id # "ok" /\ console # "gamecube" /\ status = "dvdr" -> "rejected"
    [] id # "ok" /\ status = "nodisc" -> "empty"
    [] OTHER -> "unknown"

\* diTryGCNPatchOnRejectedMedia: go on with the patch, or give up.
TryPatch(status) ==
  IF console # "gamecube" \/ patchedGCNMedia \/ ~driveKnown \/ status = "nodisc"
  THEN EndProbe
  ELSE Goto("patch")

\* What is done about each kind of media; one that is still settling is
\* read again, for a while.
Dispatch(media, status) ==
  \/ /\ media \in {"original", "rejected"}
     /\ Set([Before(Top, "v0") EXCEPT !.media = media, !.id = "none"])
     /\ usingWiiDVDRRead' = (media = "rejected")
     /\ UNCHANGED <<mediaValidated, patchedGCNMedia>>
  \/ /\ media = "empty"
     /\ EndProbe
     /\ usingWiiDVDRRead' = FALSE /\ patchedGCNMedia' = FALSE /\ UNCHANGED mediaValidated
  \/ /\ media = "unknown" /\ status = "changed"
     /\ BeginReadID /\ UNCHANGED <<usingWiiDVDRRead, patchedGCNMedia>>
  \/ /\ media = "unknown"
     /\ TryPatch(status)
     /\ usingWiiDVDRRead' = FALSE /\ UNCHANGED <<mediaValidated, patchedGCNMedia>>

IDStatus ==
  \E r \in Results :
    LET status == ReadStatus(r)
        media == Classify(Top.id, status)
    IN /\ Returns("idstatus", r)
       /\ IF console = "gamecube" /\ patchedGCNMedia /\ media # "original"
          THEN /\ Set([Before(Top, "v0") EXCEPT !.media = media, !.id = status])
               /\ UNCHANGED flags
          ELSE Dispatch(media, status)
       /\ UNCHANGED <<blocks, patchedDrive, driveKnown, lastDICVR, polling, irqOn, state, lied>>

\* diRegisterMedia up to the read of the size: the old medium goes first.
Validated ==
  /\ Set([Before(Top, "size") EXCEPT !.media = "unknown", !.id = "none"])
  /\ mediaValidated' = TRUE
  /\ bdev' = (bdev /\ ~bdevRegistered) /\ bdevRegistered' = FALSE
  /\ UNCHANGED <<usingWiiDVDRRead, patchedGCNMedia>>

\* diValidateMediaRead: sector 0, then sector 16, must hold something.
Validate0 ==
  \E r \in Results, interesting \in BOOLEAN :
    /\ Returns("v0", r)
    /\ IF r = "ok" /\ interesting
       THEN Validated
       ELSE Goto("v16") /\ UNCHANGED <<flags, blocks>>
    /\ UNCHANGED <<patchedDrive, driveKnown, lastDICVR, polling, irqOn, state, lied>>

Validate16 ==
  \E r \in Results :
    /\ Returns("v16", r)
    /\ \/ r = "ok" /\ Validated
       \/ /\ r # "ok" \/ Top.out # "good"      \* the buffer may be empty still
          /\ IF Top.media \in {"original", "rejected"}
             THEN EndProbe /\ mediaValidated' = FALSE /\ UNCHANGED <<usingWiiDVDRRead, patchedGCNMedia>>
             ELSE Dispatch(Top.media, Top.id)
          /\ UNCHANGED blocks
    /\ UNCHANGED <<patchedDrive, driveKnown, lastDICVR, polling, irqOn, state, lied>>

\* The size read, which a GameCube drive need not answer; then B_Register.
ReadDiscSize ==
  \E r \in Results :
    /\ Returns("size", r)
    /\ IF r = "ok" \/ console = "gamecube"
       THEN Goto("register") /\ bdev' = TRUE
       ELSE EndProbe /\ UNCHANGED bdev
    /\ UNCHANGED <<flags, bdevRegistered, patchedDrive, driveKnown, lastDICVR, polling, irqOn, state, lied>>

Registered ==
  /\ Running /\ Top.pc = "register"
  /\ bdevRegistered' = TRUE
  /\ EndProbe
  /\ UNCHANGED <<hardware, engine, sr, residual, flags, bdev, control, flaky>>

\* diApplyGCNPatches; a drive that could not be patched is reset.
ApplyPatches ==
  \E r \in Results :
    /\ Returns("patch", r)
    /\ IF r = "ok"
       THEN /\ patchedGCNMedia' = TRUE /\ patchedDrive' = TRUE
            /\ Goto("unlock")
       ELSE /\ EndProbe
            /\ patchedDrive' = FALSE /\ UNCHANGED patchedGCNMedia
    /\ UNCHANGED <<mediaValidated, usingWiiDVDRRead, blocks, driveKnown, lastDICVR, polling, irqOn,
                   state, lied>>

-----------------------------------------------------------------------------
(***************************************************************************)
(* Starting and watching.                                                  *)
(***************************************************************************)
\* A command that was in flight ends, is broken off, or is the end.
NoUnwedge(next) == engine' = engine /\ halted' = next     \* Mutant: not waited for.

diUnwedge(next) ==
  \/ engine' = Idle /\ halted' = next
  \/ engine.busy /\ engine' = engine /\ halted' = "panic"

InitUnwedge ==
  /\ Running /\ Top.pc = "unwedge"
  /\ diUnwedge("no") /\ Goto("reset")
  /\ UNCHANGED <<hardware, sr, residual, flags, blocks, console, driveKnown, lastDICVR, polling,
                 irqOn, state, lied, missed, flaky>>

\* diReset stops the drive.  diInit gives up if it fails, the poller does not look.
Reset ==
  /\ Running /\ Top.pc = "reset"
  /\ engine' = Idle /\ sr' = FALSE /\ patchedDrive' = FALSE
  /\ \/ Goto("waitstatus") /\ UNCHANGED flaky
     \/ Top.fn = "init" /\ Return /\ flaky' = TRUE
  /\ UNCHANGED <<lid, disc, immbuf, residual, flags, blocks, control>>

WaitForStatus ==
  \E r \in Results :
    /\ Returns("waitstatus", r)
    /\ \/ /\ r = "ok" /\ UNCHANGED state
          /\ IF Top.fn = "init" THEN Goto("inquiry") /\ UNCHANGED flags ELSE ProbeNewMedia
       \/ r # "ok" /\ Goto("waitstatus") /\ UNCHANGED <<flags, state>>
       \/ /\ r # "ok" /\ Return /\ UNCHANGED flags
          /\ state' = IF Top.fn = "init" THEN "nohardware" ELSE state
    /\ UNCHANGED <<blocks, patchedDrive, driveKnown, lastDICVR, polling, irqOn, lied>>

Inquiry ==
  \E r \in Results :
    /\ Returns("inquiry", r)
    /\ Goto("status")
    /\ driveKnown' \in {FALSE, r = "ok"}
    /\ mediaValidated' = FALSE /\ usingWiiDVDRRead' = FALSE /\ patchedGCNMedia' = FALSE
    /\ irqOn' = TRUE
    /\ UNCHANGED <<blocks, patchedDrive, lastDICVR, polling, state, lied>>

InitStatus ==
  \E r \in Results :
    /\ Returns("status", r) /\ Top.fn = "init"
    /\ lastDICVR' = lid
    /\ IF lid THEN Goto("queue") /\ UNCHANGED flags ELSE ProbeNewMedia
    /\ UNCHANGED <<blocks, patchedDrive, driveKnown, polling, irqOn, state, lied>>

QueuePoller ==
  /\ Running /\ Top.pc = "queue"
  /\ polling' = TRUE /\ Goto("status2")
  /\ UNCHANGED <<hardware, engine, sr, residual, flags, blocks, console, driveKnown, lastDICVR,
                 irqOn, state, halted, lied, missed, flaky>>

Ready ==
  \E r \in Results :
    /\ Returns("status2", r)
    /\ state' = "ready" /\ Return
    /\ UNCHANGED <<flags, blocks, patchedDrive, driveKnown, lastDICVR, polling, irqOn, lied>>

\* The timer calls diCoverPoller, which is not called inside itself; it has
\* something to do when the cover is not where it was.
diCoverPoller ==
  /\ polling /\ halted = "no" /\ Len(stack) < MaxNesting
  /\ \A i \in DOMAIN stack : stack[i].fn # "poller"
  /\ lid # lastDICVR
  /\ lastDICVR' = lid /\ missed' = FALSE /\ flaky' = FALSE
  /\ stack' = Append(stack, [Call("poller", "status") EXCEPT !.open = lid])
  /\ UNCHANGED <<hardware, engine, sr, residual, flags, blocks, console, driveKnown, polling,
                 irqOn, state, halted, lied>>

Forget == mediaValidated' = FALSE /\ usingWiiDVDRRead' = FALSE /\ patchedGCNMedia' = FALSE
Unregister == bdev' = (bdev /\ ~bdevRegistered) /\ bdevRegistered' = FALSE

\* Mutant: an open cover only clears the flags.
CoverKept ==
  \E r \in Results :
    /\ Returns("status", r) /\ Top.fn = "poller"
    /\ \/ Top.open /\ UNCHANGED blocks /\ Forget /\ Return
       \/ /\ ~Top.open /\ console = "gamecube" /\ ProbeNewMedia /\ UNCHANGED blocks
       \/ /\ ~Top.open /\ console = "wii" /\ Goto("reset") /\ UNCHANGED <<flags, blocks>>
    /\ UNCHANGED <<patchedDrive, driveKnown, lastDICVR, polling, irqOn, state, lied>>

CoverStatus ==
  \E r \in Results :
    /\ Returns("status", r) /\ Top.fn = "poller"
    /\ \/ Top.open /\ Unregister /\ Forget /\ Return
       \/ /\ ~Top.open /\ console = "gamecube" /\ ProbeNewMedia /\ UNCHANGED blocks
       \/ /\ ~Top.open /\ console = "wii" /\ Goto("reset") /\ UNCHANGED <<flags, blocks>>
    /\ UNCHANGED <<patchedDrive, driveKnown, lastDICVR, polling, irqOn, state, lied>>

-----------------------------------------------------------------------------
(***************************************************************************)
(* Reading, by B_Register itself or by any callback; and the end.          *)
(***************************************************************************)
StartRead ==
  /\ bdev /\ halted = "no" /\ Len(stack) < MaxNesting
  /\ stack' = Append(stack, Call("read", "read"))
  /\ UNCHANGED <<hardware, engine, sr, residual, flags, blocks, control, flaky>>

diRead ==
  \E r \in Results :
    /\ Returns("read", r)
    /\ lied' = (lied \/ (r = "ok" /\ Top.out # "good" /\ ~Top.clob))
    /\ Return
    /\ UNCHANGED <<flags, blocks, patchedDrive, driveKnown, lastDICVR, polling, irqOn, state>>

\* H_PrepareForExecEntry calls diCleanup of a driver that is ready or has
\* begun to start.  A boot inside B_Register is the subject of Storage.
Handover ==
  /\ halted = "no"
  /\ \A i \in DOMAIN stack : stack[i].pc # "register"
  /\ IF state \in {"ready", "cleanable"}
     THEN /\ state' = "notready" /\ polling' = FALSE /\ irqOn' = FALSE /\ sr' = FALSE
          /\ Unregister /\ Forget /\ diUnwedge("handover")
     ELSE /\ halted' = "handover"
          /\ UNCHANGED <<state, polling, irqOn, sr, blocks, flags, engine>>
  /\ UNCHANGED <<hardware, residual, console, driveKnown, lastDICVR, lied, missed, stack, flaky>>

Step ==
  \/ Launch \/ InitUnwedge \/ Reset \/ WaitForStatus \/ Inquiry \/ InitStatus \/ QueuePoller
  \/ Ready \/ CoverStatus \/ Unlock \/ ReadID \/ IDStatus \/ Validate0 \/ Validate16
  \/ ReadDiscSize \/ Registered \/ ApplyPatches \/ diRead

Next ==
  \/ Step \/ MoveCover \/ DriveDone \/ diIRQHandler
  \/ diCoverPoller \/ StartRead \/ Handover

Spec == Init /\ [][Next]_vars

FairSpec ==
  /\ Spec
  /\ WF_vars(DriveDone) /\ SF_vars(diCoverPoller)
  /\ \A fn \in {"init", "poller", "read"} : SF_vars(stack # <<>> /\ Top.fn = fn /\ Step)

-----------------------------------------------------------------------------
(***************************************************************************)
(* Properties.                                                             *)
(***************************************************************************)
\* Every variable has its type, and the calls stay within the bound.
TypeOK ==
  /\ console \in {"gamecube", "wii"} /\ lid \in BOOLEAN /\ disc \in Discs
  /\ engine \in [busy : BOOLEAN, dma : BOOLEAN, by : 0..MaxNesting]
  /\ sr \in BOOLEAN /\ residual \in BOOLEAN /\ immbuf \in Statuses
  /\ patchedDrive \in BOOLEAN /\ driveKnown \in BOOLEAN
  /\ bdev \in BOOLEAN /\ bdevRegistered \in BOOLEAN
  /\ mediaValidated \in BOOLEAN /\ usingWiiDVDRRead \in BOOLEAN /\ patchedGCNMedia \in BOOLEAN
  /\ lastDICVR \in BOOLEAN /\ polling \in BOOLEAN /\ irqOn \in BOOLEAN
  /\ state \in {"cleanable", "nohardware", "ready", "notready"}
  /\ halted \in {"no", "handover", "panic"}
  /\ lied \in BOOLEAN /\ missed \in BOOLEAN /\ flaky \in BOOLEAN
  /\ stack \in Seq([fn : {"init", "poller", "read"},
                    pc : Commands \cup {"unwedge", "reset", "register", "queue"},
                    wait : BOOLEAN, out : {"none", "good", "bad"}, clob : BOOLEAN,
                    open : BOOLEAN, id : Results \cup Statuses \cup {"none"}, media : Media])
  /\ Len(stack) <= MaxNesting

Settled ==
  /\ \A i \in DOMAIN stack : stack[i].fn = "read"
  /\ lid = lastDICVR /\ ~missed

\* What is registered is a disc that is there and that diRead reads with the
\* command and on the firmware its kind needs, however many discs of
\* whatever kind were in the drive before: once the poller has seen the
\* cover where it is, and unless it moved back before it was seen.
RegisteredReadable == bdevRegistered /\ Settled => Readable

\* What the driver believes of its drive and disc.
DiscKept == TypeOK /\ RegisteredReadable

\* A read that reports success has read its data, although the interrupt
\* handler may have taken the error from SR first; unless another command
\* ran inside it, which replaces the registers it looks at.
TruthfulReads == ~lied

\* When a program is started the drive writes to no memory, and neither the
\* block device nor the poller is left, wherever the boot came in between.
HandoverQuiet ==
  halted = "handover" => ~(engine.busy /\ engine.dma) /\ ~bdev /\ ~polling

\* A disc that stays in the closed drive is registered in the end, unless
\* the drive fails, the cover moved unseen or the drive cannot be patched.
DiscServed ==
  []<>(\/ bdevRegistered \/ lid \/ disc = "none" \/ missed \/ flaky \/ halted # "no"
       \/ disc = "dvdr" /\ console = "gamecube" /\ ~driveKnown)
=============================================================================

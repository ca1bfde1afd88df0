------------------------------ MODULE SdCards -------------------------------
(***************************************************************************)
(* The SD card slot of the Wii and the Wii U: the host controller's        *)
(* command list and its interrupt handler (drivers/sdmmc/sdhc.c), the card *)
(* protocol (drivers/sdmmc/mmc.c) and the watch over the slot              *)
(* (drivers/hollywood_sdmmc.c).                                            *)
(*                                                                         *)
(* Every command is synchronous: it is queued with interrupts off, they    *)
(* are on for a moment (phase "window"), and then the caller polls with    *)
(* interrupts off.  Before a command and in the window other code may run, *)
(* and queue commands of its own.  stack holds the calls in progress, the  *)
(* running one last; a command is named by the place of its call there.    *)
(***************************************************************************)
EXTENDS Naturals, Sequences, SequencesExt

CONSTANTS
  MaxNesting,       \* calls in progress at once
  Emmc              \* a Wii U, whose internal sdhci2 is registered too

ASSUME SdCardsAssumption == MaxNesting \in Nat \ {0} /\ Emmc \in BOOLEAN

VARIABLES
  card,             \* in the slot; has an address; 4 bits; high speed
  wire,             \* the command on the wire (0: none) and what is awaited
  pend, latch,      \* INT_STATUS, and its copy the handler is working on
  flag, irqOn,      \* the latched interrupt line of the host; unmasked
  host,             \* 4 bits wide; clock
  list,             \* cmd_list
  stack,
  mmcDev, bdev, emmc,             \* the card's structure; registered devices
  sdmmcRegistered, checkConnected, polling, state,
  halted,           \* "no", "handover"; panics: a device is "left" or "missing"
  flaky,            \* history: since the last check mmc_init has failed, or a
                    \* reset of the host has lost an insertion
  sizeless          \* history: a card without a size has been "registered"

hardware == <<card, wire, pend, latch, flag, irqOn, host>>
driver == <<mmcDev, bdev, emmc, sdmmcRegistered, checkConnected, polling, state, halted, sizeless>>
vars == <<hardware, list, stack, driver, flaky>>

Commands == {"appcmd", "opcond", "identify", "setwidth", "status", "hscheck", "hsset", "prove", "read"}
Data == {"hscheck", "hsset", "read"}
Idle == [by |-> 0, await |-> "none"]
NoCard == [in |-> FALSE, known |-> FALSE, wide |-> FALSE, hs |-> FALSE]

\* complete is the field of struct mmc_cmd; end is what really happened.
Call(fn, pc) == [fn |-> fn, pc |-> pc, ph |-> "start", complete |-> "none", end |-> "none",
   sd |-> FALSE]

Init ==
  /\ card \in {NoCard, [NoCard EXCEPT !.in = TRUE]}
  /\ wire = Idle /\ pend = {} /\ latch = {} /\ flag = FALSE /\ irqOn = FALSE
  /\ host = [wide |-> FALSE, clock |-> "init"]
  /\ list = <<>> /\ stack = <<Call("init", "look")>>
  /\ mmcDev = FALSE /\ bdev = FALSE /\ emmc = FALSE
  /\ sdmmcRegistered = FALSE /\ checkConnected = FALSE /\ polling = FALSE /\ state = "ready"
  /\ halted = "no" /\ flaky = FALSE /\ sizeless = FALSE

-----------------------------------------------------------------------------
Top == Last(stack)
Me == Len(stack)
Running == halted = "no" /\ stack # <<>> /\ latch = {}
Open == halted = "no" /\ latch = {} /\ (stack # <<>> => Top.ph # "wait")
Goto(pc) == stack' = [stack EXCEPT ![Me] = Call(Top.fn, pc)]
Return == stack' = Front(stack)

(***************************************************************************)
(* The card and the controller.                                            *)
(***************************************************************************)
Raise(bits) == pend' = pend \cup bits /\ flag' = TRUE

\* The card is taken out, or one is put in.  What a card that is gone was
\* doing cannot end well.
MoveCard ==
  /\ halted = "no"
  /\ card' = [NoCard EXCEPT !.in = ~card.in]
  /\ Raise({IF card.in THEN "CRM" ELSE "CINS"})
  /\ stack' = IF wire.by = 0 THEN stack ELSE [stack EXCEPT ![wire.by].end = "bad"]
  /\ UNCHANGED <<wire, latch, irqOn, host, list, driver, flaky>>

\* The card can take part in the command on the wire.
Fits == host.wide = card.wide /\ (host.clock = "fast" => card.hs)
Answers ==
  /\ card.in /\ host.clock # "off" /\ stack[wire.by].end = "none"
  /\ stack[wire.by].pc \in {"appcmd", "opcond", "identify"} \/ card.known
  /\ stack[wire.by].pc \in Data => Fits

\* What a card does when it is told pc; it may decline high speed.
Told(pc) ==
  CASE pc = "identify" -> {[in |-> TRUE, known |-> TRUE, wide |-> FALSE, hs |-> FALSE]}
    [] pc = "setwidth" -> {[card EXCEPT !.wide = TRUE]}
    [] pc = "hsset" -> {[card EXCEPT !.hs = hs] : hs \in BOOLEAN}
    [] OTHER -> {card}

\* The response arrives; then, if there are data, they have been moved.
Finish ==
  /\ wire.by # 0 /\ halted = "no" /\ Answers
  /\ IF wire.await = "response" /\ stack[wire.by].pc \in Data
     THEN /\ wire' = [wire EXCEPT !.await = "data"]
          /\ Raise({"CC"}) /\ UNCHANGED <<card, stack>>
     ELSE /\ wire' = Idle
          /\ card' \in Told(stack[wire.by].pc)
          /\ stack' = [stack EXCEPT ![wire.by].end = "good"]
          /\ \/ Raise({IF wire.await = "data" THEN "TC" ELSE "CC"})
             \/ wire.await = "data" /\ Raise({"TC", "ERR"})     \* just in time
  /\ UNCHANGED <<latch, irqOn, host, list, driver, flaky>>

\* Something goes wrong, and the controller says so or falls silent.  The
\* card may have done what it was told.
GoWrong ==
  /\ wire.by # 0 /\ halted = "no"
  /\ card' \in {card} \cup (IF Answers THEN Told(stack[wire.by].pc) ELSE {})
  /\ stack' = [stack EXCEPT ![wire.by].end = "bad"]
  /\ \/ host.clock # "off" /\ wire' = Idle /\ Raise({"ERR"})
     \/ stack[wire.by].end = "none" /\ UNCHANGED <<wire, pend, flag>>
  /\ UNCHANGED <<latch, irqOn, host, list, driver, flaky>>

-----------------------------------------------------------------------------
(***************************************************************************)
(* The command list (sdhc.c).                                              *)
(***************************************************************************)
Quiet(bits) == bits \ {"CC", "TC"}      \* what a reset of CMD and DAT leaves

\* sdhc_next_cmd for the command n, with INT_STATUS at bits: it is put on
\* the wire once that is free; if it never is, CMD and DAT are reset.
sdhc_next_cmd(n, bits, ok) ==
  \/ /\ ok
     /\ wire.by # 0 => ~Answers
     /\ wire' = [by |-> n, await |-> "response"]
     /\ pend' = (bits \ {"ERR"}) \cup (IF wire.by = 0 THEN {} ELSE {"ERR"})
  \/ /\ ~ok /\ wire.by # 0
     /\ wire' = Idle /\ pend' = Quiet(bits \ {"ERR"})

\* _sdhc_send_cmd up to IRQ_Restore.
Submit ==
  /\ Running /\ Top.pc \in Commands /\ Top.ph = "start"
  /\ \/ /\ list = <<>> /\ sdhc_next_cmd(Me, pend, TRUE)
        /\ list' = <<Me>> /\ UNCHANGED flaky
        /\ stack' = [stack EXCEPT ![Me].ph = "window"]
     \/ /\ list = <<>> /\ sdhc_next_cmd(Me, pend, FALSE)
        /\ list' = <<>> /\ UNCHANGED flaky
        /\ stack' = [stack EXCEPT ![Me].ph = "wait", ![Me].complete = "bad", ![Me].end = "bad"]
     \/ /\ list # <<>>
        /\ list' = Append(list, Me) /\ UNCHANGED <<wire, pend, flaky>>
        /\ stack' = [stack EXCEPT ![Me].ph = "window"]
  /\ UNCHANGED <<card, latch, flag, irqOn, host, driver>>

Wait ==
  /\ Running /\ Top.ph = "window"
  /\ stack' = [stack EXCEPT ![Me].ph = "wait"]
  /\ UNCHANGED <<hardware, list, driver, flaky>>

Acknowledge == latch' = pend /\ pend' = {}

\* sdhc_handle_irq looks at INT_STATUS, from the polling loop or, with what
\* sdmmcIRQ adds, from the interrupt.
Poll ==
  /\ Running /\ Top.ph = "wait" /\ Top.complete = "none" /\ pend # {}
  /\ Acknowledge
  /\ UNCHANGED <<card, wire, flag, irqOn, host, list, stack, driver, flaky>>

\* Mutant: the check is asked for only if the interrupt shows a card moving.
IRQIfCard ==
  /\ Open /\ irqOn /\ flag
  /\ flag' = FALSE /\ Acknowledge
  /\ checkConnected' = (checkConnected \/ pend \cap {"CRM", "CINS"} # {})
  /\ UNCHANGED <<card, wire, irqOn, host, list, stack, mmcDev, bdev, emmc, sdmmcRegistered,
                 polling, state, halted, sizeless, flaky>>

sdmmcIRQ ==
  /\ Open /\ irqOn /\ flag
  /\ flag' = FALSE /\ Acknowledge
  /\ checkConnected' = TRUE
  /\ UNCHANGED <<card, wire, irqOn, host, list, stack, mmcDev, bdev, emmc, sdmmcRegistered,
                 polling, state, halted, sizeless, flaky>>

\* Mutant: a command is taken for finished when its response arrives.
VerdictOfResponse(bits, cmd) ==
  IF bits \cap {"TC", "CC"} # {} THEN "ok"
  ELSE IF bits \cap {"ERR", "CRM"} # {} THEN "bad" ELSE cmd.complete

\* What the bits make of a command.  The end of its data wins over errors.
Verdict(bits, cmd) ==
  IF "TC" \in bits \/ ("CC" \in bits /\ cmd.pc \notin Data) THEN "ok"
  ELSE IF bits \cap {"ERR", "CRM"} # {} THEN "bad" ELSE cmd.complete

\* The first command of the list may be finished, and the next one is
\* started (or not: nobody looks); lost are bits that are cleared meanwhile.
Work(lost) ==
  LET head == Head(list)
      verdict == Verdict(latch, stack[head])
  IN IF list = <<>> \/ verdict = "none"
     THEN pend' = pend \ lost /\ UNCHANGED <<wire, list, stack>>
     ELSE /\ stack' = [stack EXCEPT ![head].complete = verdict]
          /\ list' = Tail(list)
          /\ \/ Len(list) = 1 /\ pend' = pend \ lost /\ UNCHANGED wire
             \/ /\ Len(list) > 1
                /\ \E ok \in BOOLEAN : sdhc_next_cmd(list[2], pend \ lost, ok)

\* sdhc_handle_irq works on what it has read.
\* Mutant: and clears all of INT_STATUS when it is done.
ProcessAndClear ==
  /\ latch # {} /\ halted = "no"
  /\ latch' = {}
  /\ Work({"CC", "TC", "ERR", "CRM", "CINS"})
  /\ UNCHANGED <<card, flag, irqOn, host, driver, flaky>>

Process ==
  /\ latch # {} /\ halted = "no"
  /\ latch' = {}
  /\ Work({})
  /\ UNCHANGED <<card, flag, irqOn, host, driver, flaky>>

Results == {"ok", "fail"}

\* The command of the running call returns r.  A wait ends without an
\* answer only when nothing more can come; then the whole list is dropped.
Returns(pc, r) ==
  /\ Running /\ Top.pc = pc /\ Top.ph = "wait"
  /\ \/ /\ Top.complete = "ok" /\ r = "ok"
        /\ UNCHANGED <<wire, pend, list>>
     \/ /\ Top.complete = "bad" /\ r = "fail"
        /\ wire' = Idle /\ pend' = Quiet(pend) /\ UNCHANGED list
     \/ /\ Top.complete = "none" /\ r = "fail"
        /\ pend = {} /\ (wire.by # 0 => ~Answers)
        /\ wire' = Idle /\ list' = <<>> /\ UNCHANGED pend
  /\ UNCHANGED <<latch, flag, irqOn>>

-----------------------------------------------------------------------------
(***************************************************************************)
(* Bringing a card up (mmc_init), for sdmmcInit or sdmmcConnectionCheck.   *)
(***************************************************************************)
\* sdhc_set_clock stops the clock before it changes it, and leaves it off if
\* it does not get stable again.
Clocks(clock) == {clock, "off"}
sdhc_set_clock(c) == host' = [host EXCEPT !.clock = c]

\* sdhc_reset: all is forgotten but the list; calls that waited are cut off.
sdhc_reset(c, frames) ==
  /\ host' = [wide |-> FALSE, clock |-> c]
  /\ wire' = Idle /\ pend' = {}
  /\ stack' = [i \in DOMAIN frames |->
                 IF frames[i].ph = "start" \/ frames[i].complete # "none" THEN frames[i]
                 ELSE [frames[i] EXCEPT !.end = "bad"]]

\* sdmmcInit looks at PRES_STATE itself, and ends by letting the watch begin.
Ended == IF Top.fn = "init" THEN [stack EXCEPT ![Me] = Call(Top.fn, "watch")] ELSE Front(stack)
End == stack' = Ended

Look ==
  /\ Running /\ Top.pc = "look"
  /\ IF card.in THEN Goto("reset") ELSE End
  /\ UNCHANGED <<hardware, list, driver, flaky>>

\* A reset that fails ends mmc_init.
Reset ==
  /\ Running /\ Top.pc = "reset"
  /\ \E c \in Clocks("init") :
       /\ sdhc_reset(c, IF c = "off" THEN Ended ELSE [stack EXCEPT ![Me] = Call(Top.fn, "appcmd")])
       /\ flaky' = (flaky \/ "CINS" \in pend \/ c = "off")
  /\ UNCHANGED <<card, latch, flag, irqOn, list, driver>>

\* A step of mmc_init that fails ends it, and nothing is registered; the
\* steps of high speed only end that.
GiveUp == End /\ flaky' = TRUE /\ UNCHANGED <<mmcDev, state>>
Proceed(pc, sd) ==
  stack' = [stack EXCEPT ![Me] = [Call(Top.fn, pc) EXCEPT !.sd = sd]] /\ UNCHANGED <<mmcDev, state, flaky>>

\* Mutant: the driver that has lost its card is not ready again.
DoneQuietly == mmcDev' = TRUE /\ UNCHANGED <<state, flaky>> /\ Goto("register")

Done == mmcDev' = TRUE /\ state' = "ready" /\ Goto("register") /\ UNCHANGED flaky

\* mmc_reset, whose commands may fail, and the first command of
\* mmc_voltage_validation: a card that does not answer it is taken for an MMC.
AppCmd ==
  \E r \in Results :
    /\ Returns("appcmd", r)
    /\ Proceed("opcond", r = "ok")
    /\ UNCHANGED <<card, host, bdev, emmc, sdmmcRegistered, checkConnected, polling, halted, sizeless>>

\* The rest of it: the card is asked for its voltages until it is up.
OpCond ==
  \E r \in Results :
    /\ Returns("opcond", r)
    /\ IF r = "ok" THEN Proceed("identify", Top.sd) ELSE GiveUp
    /\ UNCHANGED <<card, host, bdev, emmc, sdmmcRegistered, checkConnected, polling, halted, sizeless>>

\* mmc_card_registry: one command stands for the six that must succeed.
Identify ==
  \E r \in Results :
    /\ Returns("identify", r)
    /\ IF r = "fail"
       THEN GiveUp /\ UNCHANGED host
       ELSE \E c \in Clocks("default") :
              /\ sdhc_set_clock(c)
              /\ CASE c = "off" -> GiveUp
                   [] c # "off" /\ Top.sd -> Proceed("setwidth", TRUE)
                   [] OTHER -> Done
    /\ UNCHANGED <<card, bdev, emmc, sdmmcRegistered, checkConnected, polling, halted, sizeless>>

SetWidth ==
  \E r \in Results :
    /\ Returns("setwidth", r)
    /\ IF r = "ok"
       THEN Proceed("status", TRUE) /\ host' = [host EXCEPT !.wide = TRUE]
       ELSE GiveUp /\ UNCHANGED host
    /\ UNCHANGED <<card, bdev, emmc, sdmmcRegistered, checkConnected, polling, halted, sizeless>>

ValidateWidth ==
  \E r \in Results :
    /\ Returns("status", r)
    /\ IF r = "ok" THEN Proceed("hscheck", TRUE) ELSE GiveUp
    /\ UNCHANGED <<card, host, bdev, emmc, sdmmcRegistered, checkConnected, polling, halted, sizeless>>

CheckHighSpeed ==
  \E r \in Results :
    /\ Returns("hscheck", r)
    /\ \/ r = "ok" /\ Proceed("hsset", TRUE)
       \/ Done                                          \* rejected, or not offered
    /\ UNCHANGED <<card, host, bdev, emmc, sdmmcRegistered, checkConnected, polling, halted, sizeless>>

\* sdhc_set_high_speed when the card is seen to have switched.
\* Mutant: the answer of the card is not looked at.
SetHighSpeedUnread ==
  \E r \in Results :
    /\ Returns("hsset", r)
    /\ IF r = "ok"
       THEN \E c \in Clocks("fast") :
              /\ sdhc_set_clock(c)
              /\ IF c = "fast" THEN Proceed("prove", TRUE) ELSE Done
       ELSE Done /\ UNCHANGED host
    /\ UNCHANGED <<card, bdev, emmc, sdmmcRegistered, checkConnected, polling, halted, sizeless>>

SetHighSpeed ==
  \E r \in Results :
    /\ Returns("hsset", r)
    /\ IF r = "ok" /\ card.hs
       THEN \E c \in Clocks("fast") :
              /\ sdhc_set_clock(c)
              /\ IF c = "fast" THEN Proceed("prove", TRUE) ELSE Done
       ELSE Done /\ UNCHANGED host
    /\ UNCHANGED <<card, bdev, emmc, sdmmcRegistered, checkConnected, polling, halted, sizeless>>

ProveHighSpeed ==
  \E r \in Results :
    /\ Returns("prove", r)
    /\ Done
    /\ IF r = "ok" THEN UNCHANGED host
       ELSE \E c \in Clocks("default") : sdhc_set_clock(c)
    /\ UNCHANGED <<card, bdev, emmc, sdmmcRegistered, checkConnected, polling, halted, sizeless>>

-----------------------------------------------------------------------------
(***************************************************************************)
(* The watch over the slot (hollywood_sdmmc.c).                            *)
(***************************************************************************)
\* A card may have a CSD or an EXT_CSD that the program cannot read a
\* capacity from.
mmc_card_capacity == BOOLEAN

\* sdmmcRegisterBlock: without a size the device is not registered.
Register ==
  /\ Running /\ Top.pc = "register"
  /\ bdev' \in mmc_card_capacity
  /\ sizeless' = (sizeless \/ ~bdev')
  /\ Goto("registered")
  /\ UNCHANGED <<hardware, list, mmcDev, emmc, sdmmcRegistered, checkConnected, polling, state,
                 halted, flaky>>

Registered ==
  /\ Running /\ Top.pc = "registered"
  /\ sdmmcRegistered' = TRUE
  /\ End
  /\ UNCHANGED <<hardware, list, mmcDev, bdev, emmc, checkConnected, polling, state, halted,
                 sizeless, flaky>>

\* The end of sdmmcInit, which brings up sdhci2 too.
Watch ==
  /\ Running /\ Top.pc = "watch"
  /\ irqOn' = TRUE /\ polling' = TRUE /\ emmc' = Emmc /\ Return
  /\ UNCHANGED <<card, wire, pend, latch, flag, host, list, mmcDev, bdev, sdmmcRegistered,
                 checkConnected, state, halted, sizeless, flaky>>

\* sdmmcConnectionCheck, which the timer calls and not inside itself.
sdmmcConnectionCheck ==
  /\ Open /\ polling /\ Len(stack) < MaxNesting
  /\ \A i \in DOMAIN stack : stack[i].fn # "check"
  /\ checkConnected
  /\ checkConnected' = FALSE /\ flaky' = FALSE
  /\ stack' = Append(stack, Call("check", IF sdmmcRegistered THEN "gone" ELSE "look"))
  /\ UNCHANGED <<hardware, list, mmcDev, bdev, emmc, sdmmcRegistered, polling, state, halted,
                 sizeless>>

Gone ==
  /\ Running /\ Top.pc = "gone"
  /\ IF card.in
     THEN Return /\ UNCHANGED sdmmcRegistered
     ELSE Goto("unregister") /\ sdmmcRegistered' = FALSE
  /\ UNCHANGED <<hardware, list, mmcDev, bdev, emmc, checkConnected, polling, state, halted,
                 sizeless, flaky>>

\* B_Unregister asserts that the device is registered.  A call below this
\* one goes on with the structure that is freed here.
Unregister ==
  /\ Running /\ Top.pc = "unregister"
  /\ bdev' = FALSE /\ mmcDev' = FALSE /\ state' = "nohardware"
  /\ halted' = IF bdev THEN "no" ELSE "missing"
  /\ \E c \in Clocks("init") : sdhc_reset(c, Front(stack))
  /\ flaky' = (flaky \/ "CINS" \in pend)
  /\ UNCHANGED <<card, latch, flag, irqOn, list, emmc, sdmmcRegistered, checkConnected, polling,
                 sizeless>>

\* B_Register or any callback reads a block: one of the three attempts of
\* mmc_block_read, which follow one another as calls do here.
StartRead ==
  /\ Open /\ bdev /\ Len(stack) < MaxNesting
  /\ stack' = Append(stack, Call("read", "read"))
  /\ UNCHANGED <<hardware, list, driver, flaky>>

mmc_block_read ==
  \E r \in Results :
    /\ Returns("read", r)
    /\ Return
    /\ UNCHANGED <<card, host, driver, flaky>>

Registering == \E i \in DOMAIN stack : stack[i].pc \in {"registered", "unregister"}

\* H_PrepareForExecEntry calls sdmmcCleanup if the driver is ready, which
\* unregisters what it believes to be registered, and B_Shutdown asserts
\* that no device is left.  A boot from inside
\* B_Register or B_Unregister is the subject of Storage.
Handover ==
  /\ Open /\ ~Registering
  /\ LET clean == state = "ready"
         sd == bdev /\ ~(clean /\ sdmmcRegistered)
         other == emmc /\ ~clean
     IN /\ bdev' = sd /\ emmc' = other
        /\ halted' = IF clean /\ sdmmcRegistered /\ ~bdev THEN "missing"
                     ELSE IF sd \/ other THEN "left" ELSE "handover"
        /\ sdmmcRegistered' = (sdmmcRegistered /\ ~clean)
        /\ mmcDev' = (mmcDev /\ ~(clean /\ sdmmcRegistered))
        /\ state' = IF clean THEN "notready" ELSE state
        /\ polling' = FALSE /\ irqOn' = FALSE
        /\ IF clean THEN wire' = Idle /\ pend' = {} ELSE UNCHANGED <<wire, pend>>
  /\ stack' = <<>> /\ list' = <<>>
  /\ UNCHANGED <<card, latch, flag, host, checkConnected, sizeless, flaky>>

Step ==
  \/ Submit \/ Wait \/ Poll \/ Look \/ Reset \/ AppCmd \/ OpCond \/ Identify \/ SetWidth \/ ValidateWidth
  \/ CheckHighSpeed \/ SetHighSpeed \/ ProveHighSpeed \/ Register \/ Registered \/ Watch
  \/ Gone \/ Unregister \/ mmc_block_read

Next ==
  \/ Step \/ Process \/ sdmmcIRQ \/ sdmmcConnectionCheck \/ StartRead \/ Handover
  \/ MoveCard \/ Finish \/ GoWrong

Spec == Init /\ [][Next]_vars

FairSpec ==
  /\ Spec
  /\ WF_vars(Finish) /\ WF_vars(Process) /\ SF_vars(sdmmcIRQ) /\ SF_vars(sdmmcConnectionCheck)
  /\ \A fn \in {"init", "check", "read"} : SF_vars(stack # <<>> /\ Top.fn = fn /\ Step)

-----------------------------------------------------------------------------
(***************************************************************************)
(* Properties.                                                             *)
(***************************************************************************)
Bits == {"CC", "TC", "ERR", "CRM", "CINS"}

\* Every variable has its type, and the list holds calls in progress.
TypeOK ==
  /\ card \in [in : BOOLEAN, known : BOOLEAN, wide : BOOLEAN, hs : BOOLEAN]
  /\ wire \in [by : 0..MaxNesting, await : {"none", "response", "data"}]
  /\ pend \subseteq Bits /\ latch \subseteq Bits
  /\ host \in [wide : BOOLEAN, clock : {"off", "init", "default", "fast"}]
  /\ list \in Seq(DOMAIN stack)
  /\ stack \in Seq([fn : {"init", "check", "read"},
                    pc : Commands \cup {"look", "reset", "register", "registered", "watch",
                                        "gone", "unregister"},
                    ph : {"start", "window", "wait"}, complete : {"none", "ok", "bad"},
                    end : {"none", "good", "bad"}, sd : BOOLEAN])
  /\ Len(stack) <= MaxNesting
  /\ \A v \in {flag, irqOn, mmcDev, bdev, emmc, sdmmcRegistered, checkConnected, polling,
               flaky, sizeless} : v \in BOOLEAN
  /\ state \in {"ready", "nohardware", "notready"} /\ halted \in {"no", "handover", "left", "missing"}

\* A command is reported to have succeeded only if the card has done it,
\* whoever's interrupts, resets and failures came before.
TruthfulAnswers == \A i \in DOMAIN stack : stack[i].complete = "ok" => stack[i].end = "good"

\* A command that the card has done is not waited for in vain: the handler
\* loses none of the bits the controller raises while it works, and no
\* other command is credited with them.
FinishedIsSeen ==
  \A i \in DOMAIN stack :
    stack[i].end = "good" /\ stack[i].complete = "none" => pend \cup latch # {}

\* However far mmc_init got with high speed, a card that is registered and
\* has not been replaced is driven with the bus width and the timing that
\* it was told, unless the last change of the clock has stopped it for good:
\* then the card is not driven at all.
RegisteredFits ==
  bdev /\ card.known =>
    /\ host.wide = card.wide
    /\ host.clock \in {"default", "off"} \/ (host.clock = "fast" /\ card.hs)

\* What the driver believes of its card.
CardKept == TypeOK /\ RegisteredFits

\* A boot finds every device unregistered (the assertion in B_Shutdown),
\* but for the internal device of a Wii U whose slot has lost its card, when
\* nobody cleans up; and who unregisters a device finds it registered (that
\* in B_Unregister), unless there was a card without a size.
NoneLeft ==
  /\ halted = "left" => emmc /\ ~bdev /\ state = "nohardware"
  /\ halted = "missing" => sizeless

\* What mmc.c says of sd_switch_high_speed: every failure leaves a card that
\* still works at the operational clock, or at high speed.
StillWorks == bdev /\ card.known => host.clock # "off"

\* What B_Unregister asserts: the device is registered.
NoneMissing == halted # "missing"

\* What B_Shutdown asserts: no device is registered.
AllCleanedUp == halted # "left"

\* The program follows the slot: again and again it knows what is there,
\* unless bringing the card up failed since it last looked.
SlotFollowed == []<>(sdmmcRegistered = card.in \/ flaky \/ halted # "no")
=============================================================================

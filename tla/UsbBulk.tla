------------------------------ MODULE UsbBulk -------------------------------
(***************************************************************************)
(* A command to a USB stick, down to the packets: the command, data and    *)
(* status phases of mass storage and the recovery when one fails           *)
(* (usb_storage.c), each a transfer in the one schedule of its host        *)
(* controller, EHCI or OHCI (usb_hcd.c).                                   *)
(*                                                                         *)
(* A transfer is waited for with interrupts enabled.  A callback may run   *)
(* in the wait and make a transfer of its own to another device ("other"): *)
(* it overwrites the schedule, uses it up and returns, and the wait goes   *)
(* on with what it finds there.  What goes wrong on the bus, and the       *)
(* callbacks, are Disturbances in number.                                  *)
(*                                                                         *)
(* Not here: the enumeration (Usb), a stick that is unplugged (Usb), the   *)
(* endpoints that stay in a schedule.                                      *)
(***************************************************************************)
EXTENDS Naturals, Sequences, SequencesExt, FiniteSetsExt

CONSTANTS
  Packets,           \* packets in the data phase of a command
  PerItem,           \* packets one item of the schedule (qTD, TD) can take
  Disturbances,      \* things that go wrong
  Tags               \* 1..n: the tags of commands, in turn

ASSUME UsbBulkAssumption ==
  /\ Packets \in Nat \ {0} /\ PerItem \in Nat \ {0} /\ Disturbances \in Nat
  /\ Tags \in Nat \ {0}

VARIABLES
  hc,                \* "ehci" or "ohci"
  sched,             \* priv->ehci, priv->ohci: what it was built for, its items
  on,                \* the controller works on it
  ep,                \* the toggles of bulkIn and bulkOut
  stick,
  cmd,               \* the call of botCommand in progress
  other,             \* the transfer of a callback, in the wait of cmd's
  last,              \* history: how the last command ended
  untrue,            \* history: a command succeeded without being done, and
                     \* whether a callback's transfer had run inside it
  left               \* things that may still go wrong

vars == <<hc, sched, on, ep, stick, cmd, other, last, untrue, left>>

Bulk == {"cbw", "data", "csw"}
Control == {"reset", "clearIn", "clearOut"}
Bad == {"stall", "error"}
NoCommand == [fn |-> "none", pc |-> "cbw", step |-> "begin", tag |-> 1, done |-> 0,
              short |-> FALSE, fresh |-> 0, csw |-> 0, mixed |-> FALSE]

Init ==
  /\ hc \in {"ehci", "ohci"}
  /\ sched = [for |-> "none", fn |-> "none", tag |-> 0, tog |-> 0, items |-> <<>>] /\ on = FALSE
  /\ ep = [in |-> 0, out |-> 0]
  /\ stick = [ph |-> "cbw", tag |-> 0, write |-> FALSE, left |-> 0, good |-> TRUE, all |-> TRUE,
              in |-> 0, out |-> 0, haltIn |-> FALSE, haltOut |-> FALSE]
  /\ cmd = NoCommand /\ other = "none" /\ last = "good" /\ untrue = "no"
  /\ left = Disturbances

Disturb == left > 0 /\ left' = left - 1

-----------------------------------------------------------------------------
(***************************************************************************)
(* The controller and the stick.                                           *)
(***************************************************************************)
Item(n) == [n |-> n, left |-> n, st |-> "active"]

\* Control: a setup and a status stage.  Bulk on EHCI: all of it; on OHCI,
\* what fits one TD.
Items(pc, todo) ==
  CASE pc \in Control \cup {"other"} -> <<Item(1), Item(1)>>
    [] pc \in {"cbw", "csw"} -> <<Item(1)>>
    [] pc = "data" ->
         IF todo <= PerItem THEN <<Item(todo)>>
         ELSE IF hc = "ohci" THEN <<Item(PerItem)>>
         ELSE [i \in 1..((todo + PerItem - 1) \div PerItem) |->
                 Item(IF i * PerItem <= todo THEN PerItem ELSE todo % PerItem)]

Writing(fn) == fn = "write"
Incoming(pc, fn) == pc = "csw" \/ (pc = "data" /\ ~Writing(fn))

\* The item the controller works on: an item that failed, or an IN item that
\* came short, stops it.
Stopping(it) == it.st \in Bad \cup {"short"}
Current == {i \in DOMAIN sched.items : /\ sched.items[i].st = "active"
                                       /\ \A j \in 1..(i - 1) : sched.items[j].st = "done"}

With(i, it) == sched' = [sched EXCEPT !.items[i] = it]
Moved(i) ==
  LET it == sched.items[i] IN
  sched' = [sched EXCEPT !.tog = 1 - @,
              !.items[i] = [it EXCEPT !.left = it.left - 1, !.st = IF it.left = 1 THEN "done" ELSE @]]

\* What the packet adds to the data of the command in progress: the stick's
\* packets count when they are those of this command, in order.
Number == Packets - stick.left + 1
Received ==
  IF sched.for = "data" /\ cmd.pc = "data" /\ sched.tag = cmd.tag
  THEN cmd' = [cmd EXCEPT !.fresh = IF stick.tag = cmd.tag /\ Number = cmd.fresh + 1 THEN @ + 1
                                    ELSE Packets + 1]
  ELSE UNCHANGED cmd

\* The stick does what it is told in a control transfer.
Obey(pc) ==
  stick' = CASE pc = "reset" -> [stick EXCEPT !.ph = "cbw", !.left = 0]
             [] pc = "clearIn" -> [stick EXCEPT !.in = 0, !.haltIn = FALSE]
             [] pc = "clearOut" -> [stick EXCEPT !.out = 0, !.haltOut = FALSE]
             [] OTHER -> stick

ControlPacket(i) ==
  /\ sched.for \in Control \cup {"other"}
  /\ \/ Moved(i) /\ (IF i = 1 THEN Obey(sched.for) ELSE UNCHANGED stick) /\ UNCHANGED left
     \/ \E st \in Bad : With(i, [sched.items[i] EXCEPT !.st = st]) /\ Disturb /\ UNCHANGED stick
  /\ UNCHANGED cmd

\* A command the stick refuses: it halts its data endpoint and has a status.
Accept(fn) ==
  \/ /\ stick' = [stick EXCEPT !.out = 1 - @, !.tag = sched.tag, !.write = Writing(fn), !.good = TRUE, !.all = TRUE,
                    !.ph = IF fn = "ready" THEN "csw" ELSE "data",
                    !.left = IF fn = "ready" THEN 0 ELSE Packets]
     /\ UNCHANGED left
  \/ /\ Disturb
     /\ stick' = [stick EXCEPT !.out = 1 - @, !.tag = sched.tag, !.write = Writing(fn), !.good = FALSE,
                    !.ph = "csw", !.left = 0, !.haltIn = (fn = "read"), !.haltOut = (fn = "write")]

\* A packet with the other toggle is a repetition: it is acknowledged and
\* dropped.
OutPacket(i) ==
  /\ sched.for \in Bulk /\ ~Incoming(sched.for, sched.fn)
  /\ IF stick.haltOut THEN With(i, [sched.items[i] EXCEPT !.st = "stall"]) /\ UNCHANGED <<stick, left, cmd>>
     ELSE IF sched.tog # stick.out THEN Moved(i) /\ UNCHANGED <<stick, left, cmd>>
     ELSE \/ /\ stick.ph = "cbw" /\ sched.for = "cbw"
             /\ Moved(i) /\ Accept(sched.fn) /\ UNCHANGED cmd
          \/ /\ stick.ph = "data" /\ stick.write /\ sched.for = "data"
             /\ Moved(i) /\ Received
             /\ stick' = [stick EXCEPT !.out = 1 - @, !.left = @ - 1,
                            !.ph = IF stick.left = 1 THEN "csw" ELSE @]
             /\ UNCHANGED left
          \/ /\ (stick.ph = "cbw") # (sched.for = "cbw") \/ stick.ph = "csw"
             /\ Disturb /\ stick' = [stick EXCEPT !.haltOut = TRUE, !.haltIn = TRUE]
             /\ With(i, [sched.items[i] EXCEPT !.st = "stall"]) /\ UNCHANGED cmd

\* The stick's packet: of the data, or the status of its command.
Has == stick.ph = "csw" \/ (stick.ph = "data" /\ ~stick.write)
Sent ==
  IF stick.ph = "csw" THEN [stick EXCEPT !.in = 1 - @, !.ph = "cbw"]
  ELSE [stick EXCEPT !.in = 1 - @, !.left = @ - 1, !.ph = IF stick.left = 1 THEN "csw" ELSE @]

\* The stick has less data than was asked for: an empty packet says so.
Shortened(i) ==
  /\ stick.ph = "data" /\ Disturb
  /\ stick' = [stick EXCEPT !.in = 1 - @, !.left = 0, !.ph = "csw", !.all = FALSE]
  /\ sched' = [sched EXCEPT !.tog = 1 - @, !.items[i].st = "short"]
  /\ UNCHANGED cmd

InPacket(i) ==
  /\ sched.for \in Bulk /\ Incoming(sched.for, sched.fn)
  /\ LET it == sched.items[i] IN
     IF stick.haltIn THEN With(i, [it EXCEPT !.st = "stall"]) /\ UNCHANGED <<stick, left, cmd>>
     ELSE /\ Has
          /\ IF stick.in # sched.tog
             THEN stick' = Sent /\ UNCHANGED <<sched, left, cmd>>
             ELSE IF sched.for = "csw" /\ stick.ph = "data"          \* babble
             THEN With(i, [it EXCEPT !.st = "error"]) /\ UNCHANGED <<stick, left, cmd>>
             ELSE \/ Shortened(i)
                  \/ /\ \/ stick' = Sent /\ UNCHANGED left
                        \/ stick' = stick /\ Disturb          \* its acknowledgement is lost
                     /\ IF stick.ph = "data" THEN Moved(i) /\ Received
                        ELSE IF sched.for = "csw"
                        THEN Moved(i) /\ cmd' = [cmd EXCEPT !.csw = stick.tag]
                        ELSE /\ sched' = [sched EXCEPT !.tog = 1 - @,
                                            !.items[i] = [it EXCEPT !.left = @ - 1, !.st = "short"]]
                             /\ UNCHANGED cmd

\* A packet that fails for good.
LostPacket(i) ==
  /\ sched.for \in Bulk /\ Disturb
  /\ With(i, [sched.items[i] EXCEPT !.st = "error"]) /\ UNCHANGED <<stick, cmd>>

Exchange ==
  /\ on
  /\ \E i \in Current : ControlPacket(i) \/ OutPacket(i) \/ InPacket(i) \/ LostPacket(i)
  /\ UNCHANGED <<hc, on, ep, other, last, untrue>>

\* Nothing can move: the stick has nothing to say, or expects nothing.
Blocked ==
  \/ ~on
  \/ \E i \in DOMAIN sched.items : Stopping(sched.items[i])
  \/ /\ sched.for \in Bulk /\ Current # {}
     /\ IF Incoming(sched.for, sched.fn) THEN ~stick.haltIn /\ ~Has
        ELSE /\ ~stick.haltOut /\ sched.tog = stick.out
             /\ ~(stick.ph = "cbw" /\ sched.for = "cbw")
             /\ ~(stick.ph = "data" /\ stick.write /\ sched.for = "data")
-----------------------------------------------------------------------------
(***************************************************************************)
(* Transfers.                                                              *)
(***************************************************************************)
Build(pc, todo, toggle) ==
  /\ sched' = [for |-> pc, fn |-> cmd.fn, tag |-> cmd.tag, tog |-> toggle, items |-> Items(pc, todo)]
  /\ on' = TRUE

\* ep->toggle, as the transfer of a phase starts with it.
Toggle(pc) == IF pc \in Control THEN 0 ELSE IF Incoming(pc, cmd.fn) THEN ep.in ELSE ep.out

\* The items of cmd's transfer as it built them, and as it finds them.
Wanted == Items(cmd.pc, Packets - cmd.done)
Sees(i) == IF i \in DOMAIN sched.items THEN sched.items[i] ELSE [n |-> 0, left |-> 0, st |-> "done"]

\* A control transfer on EHCI looks at the queue head, which stands for all
\* of the schedule; the others look at each of their items.
Finished ==
  IF hc = "ehci" /\ cmd.pc \in Control
  THEN (\E i \in DOMAIN sched.items : sched.items[i].st \in Bad) \/ Last(sched.items).st = "done"
  ELSE LET S == {Sees(i).st : i \in DOMAIN Wanted} IN
       S \cap Bad # {} \/ "active" \notin S \/ ("short" \in S /\ Incoming(cmd.pc, cmd.fn))

\* How a transfer ended, what it moved, and the toggle after it.
Failure == [status |-> "error", moved |-> 0, toggle |-> Toggle(cmd.pc)]

\* The first item that is not done, if any; the packets of the items up to
\* it, as ehciDataTransfer counts them: an item without data as one.
FirstOpen == Min({i \in DOMAIN Wanted : Sees(i).st # "done"} \cup {Len(Wanted) + 1})
SumTo(k) == FoldFunction(LAMBDA a, b : a + b, 0, [i \in 1..(k - 1) |-> Wanted[i].n])

\* Mutant: the toggle follows the items, not the packets.
EhciResultByItems ==
  LET k == FirstOpen
      ended == k <= Len(Wanted) /\ Sees(k).st # "active"
      moved == IF ended THEN Wanted[k].n - Sees(k).left ELSE 0
      items == (k - 1) + (IF ended THEN 1 ELSE 0)
  IN [status |-> IF ended /\ Sees(k).st \in Bad THEN "error" ELSE "complete",
      moved |-> SumTo(k) + moved, toggle |-> (Toggle(cmd.pc) + items) % 2]

EhciResult ==
  LET k == FirstOpen
      ended == k <= Len(Wanted) /\ Sees(k).st # "active"
      moved == IF ended THEN Wanted[k].n - Sees(k).left ELSE 0
      packets == SumTo(k) + (IF ended THEN (IF moved = 0 THEN 1 ELSE moved) ELSE 0)
  IN [status |-> IF ended /\ Sees(k).st \in Bad THEN "error" ELSE "complete",
      moved |-> SumTo(k) + moved, toggle |-> (Toggle(cmd.pc) + packets) % 2]

\* The carry bit of the endpoint descriptor is the toggle.
OhciResult ==
  [status |-> IF Sees(1).st \in Bad THEN "error" ELSE "complete",
   moved |-> Wanted[1].n - Sees(1).left, toggle |-> sched.tog]

ControlResult ==
  [Failure EXCEPT !.status = IF \E i \in DOMAIN sched.items : sched.items[i].st \in Bad
                             THEN "error" ELSE "complete"]

Result ==
  IF cmd.pc \in Control THEN ControlResult
  ELSE IF hc = "ehci" THEN EhciResult ELSE OhciResult

-----------------------------------------------------------------------------
(***************************************************************************)
(* botCommand.                                                             *)
(***************************************************************************)
Answered == cmd.csw = cmd.tag

Goto(pc) == cmd' = [cmd EXCEPT !.pc = pc, !.step = "begin"] /\ UNCHANGED <<last, untrue>>
Return(ok) ==
  /\ cmd' = [NoCommand EXCEPT !.tag = cmd.tag]
  /\ last' = IF ok THEN "good" ELSE "bad"
  /\ untrue' = IF ok /\ (stick.tag # cmd.tag \/ (cmd.fn # "ready" /\ cmd.fresh # Packets))
               THEN IF cmd.mixed THEN "mixed" ELSE "alone" ELSE untrue

SetToggle(r) ==
  ep' = IF cmd.pc \in Control THEN ep
        ELSE IF Incoming(cmd.pc, cmd.fn) THEN [ep EXCEPT !.in = r.toggle] ELSE [ep EXCEPT !.out = r.toggle]

Recover == Goto("reset")

DataEnded(r) ==
  LET done == cmd.done + r.moved
      more == hc = "ohci" /\ r.moved = Wanted[1].n /\ done < Packets /\ Sees(1).st = "done" IN
  IF r.status # "complete" THEN Recover
  ELSE /\ cmd' = [cmd EXCEPT !.pc = IF more THEN "data" ELSE "csw", !.step = "begin",
                    !.done = done, !.short = ~more /\ done < Packets]
       /\ UNCHANGED <<last, untrue>>

BotEnded(r) ==
  LET whole == r.status = "complete" /\ r.moved = 1 IN
  CASE cmd.pc = "cbw" -> IF whole THEN Goto(IF cmd.fn = "ready" THEN "csw" ELSE "data") ELSE Recover
    [] cmd.pc = "data" -> DataEnded(r)
    [] cmd.pc = "csw" -> IF whole /\ Answered THEN Return(stick.good /\ stick.all /\ ~cmd.short) ELSE Recover

\* USB_ClearHalt.  Mutant: it leaves the toggle.
ClearHaltKeepsToggle(e) == UNCHANGED ep

ClearHalt(e) == ep' = [ep EXCEPT ![e] = 0]

RecoveryEnded(r) ==
  IF r.status # "complete" THEN Return(FALSE) /\ UNCHANGED ep
  ELSE CASE cmd.pc = "reset" -> Goto("clearIn") /\ UNCHANGED ep
         [] cmd.pc = "clearIn" -> Goto("clearOut") /\ ClearHalt("in")
         [] cmd.pc = "clearOut" -> Return(FALSE) /\ ClearHalt("out")

Ended(r) ==
  IF cmd.pc \in Control THEN RecoveryEnded(r) ELSE BotEnded(r) /\ SetToggle(r)

botCommand ==
  /\ cmd.fn = "none" /\ other = "none"
  /\ \E fn \in {"ready", "read", "write"} :
       cmd' = [NoCommand EXCEPT !.fn = fn, !.tag = (cmd.tag % Tags) + 1]
  /\ UNCHANGED <<hc, sched, on, ep, stick, other, last, untrue, left>>

Running == cmd.fn # "none" /\ other = "none"

Begin ==
  /\ Running /\ cmd.step = "begin"
  /\ Build(cmd.pc, Packets - cmd.done, Toggle(cmd.pc))
  /\ cmd' = [cmd EXCEPT !.step = "poll"]
  /\ UNCHANGED <<hc, ep, stick, other, last, untrue, left>>

Finish ==
  /\ Running /\ cmd.step = "poll" /\ Finished
  /\ cmd' = [cmd EXCEPT !.step = "finish"]
  /\ UNCHANGED <<hc, sched, on, ep, stick, other, last, untrue, left>>

\* The time is up; a stick that could go on is too slow.
TimedOut ==
  /\ Running /\ cmd.step = "poll" /\ ~Finished
  /\ IF Blocked THEN UNCHANGED left ELSE Disturb
  /\ cmd' = [cmd EXCEPT !.step = "cut"]
  /\ UNCHANGED <<hc, sched, on, ep, stick, other, last, untrue>>

\* The controller has stopped.  OHCI looks again at a transfer that was cut
\* off; EHCI does not.
Late == hc = "ohci" /\ Finished

Stopped ==
  /\ Running /\ cmd.step \in {"finish", "cut"}
  /\ on' = FALSE
  /\ IF cmd.step = "finish" \/ Late THEN Ended(Result) ELSE Ended([Failure EXCEPT !.status = "timeout"])
  /\ UNCHANGED <<hc, sched, stick, other, left>>

\* EHCI did not start, or does not stop.
Stuck ==
  /\ Running /\ hc = "ehci" /\ Disturb
  /\ \/ cmd.step = "poll" /\ on' = FALSE
     \/ cmd.step = "finish" /\ UNCHANGED on
  /\ Ended(Failure)
  /\ UNCHANGED <<hc, sched, stick, other>>

-----------------------------------------------------------------------------
(***************************************************************************)
(* A callback in a wait of the command.                                    *)
(***************************************************************************)
Nested ==
  /\ Running /\ Disturb
  /\ Build("other", 0, 0) /\ other' = "poll"
  /\ cmd' = [cmd EXCEPT !.mixed = TRUE]
  /\ UNCHANGED <<hc, ep, stick, last, untrue>>

NestedEnds ==
  /\ other = "poll" /\ on' = FALSE /\ other' = "none"
  /\ \/ \E i \in DOMAIN sched.items : Stopping(sched.items[i])
     \/ Last(sched.items).st = "done"
  /\ UNCHANGED <<hc, sched, ep, stick, cmd, last, untrue, left>>

Next ==
  \/ Exchange \/ botCommand \/ Begin \/ Finish \/ TimedOut \/ Stopped \/ Stuck
  \/ Nested \/ NestedEnds

Spec == Init /\ [][Next]_vars
FairSpec == Spec /\ WF_vars(Next)

-----------------------------------------------------------------------------
(***************************************************************************)
(* Properties.                                                             *)
(***************************************************************************)
\* Every variable has its type, and no item or phase has more packets than
\* the command.
TypeOK ==
  /\ hc \in {"ehci", "ohci"} /\ on \in BOOLEAN /\ ep \in [in : 0..1, out : 0..1]
  /\ sched.for \in Bulk \cup Control \cup {"none", "other"} /\ sched.tog \in 0..1
  /\ \A i \in DOMAIN sched.items :
       sched.items[i].n \in 1..Packets /\ sched.items[i].left \in 0..sched.items[i].n
  /\ stick.ph \in Bulk /\ stick.left \in 0..Packets /\ {stick.in, stick.out} \subseteq 0..1
  /\ cmd.pc \in Bulk \cup Control /\ cmd.step \in {"begin", "poll", "finish", "cut"}
  /\ cmd.tag \in 1..Tags /\ cmd.done \in 0..Packets
  /\ other \in {"none", "poll"} /\ last \in {"good", "bad"} /\ untrue \in {"no", "mixed", "alone"}
  /\ left \in 0..Disturbances

\* botCommand returns 0 and the full length only when the stick has done this
\* very command and each packet of its data was handed over once and in
\* order, whatever was lost, cut off or repeated on the way, and whatever a
\* callback's transfer left behind before the command.
TruthfulCommands == untrue # "alone"

\* A command in progress, and the ones before it.
BulkKept == TypeOK /\ TruthfulCommands

\* "Let the HC drain the ED it may still be walking before the shared
\* schedule is reused" (usb_hcd.c): a transfer made in the wait of another
\* costs it nothing of its data either.
SharedSchedule == untrue = "no"

\* Once nothing goes wrong any more, a command succeeds again: the recovery
\* brings the phases and the toggles of both sides together, even after one
\* that failed half way.
StickRecovers == []<>(last = "good")
=============================================================================

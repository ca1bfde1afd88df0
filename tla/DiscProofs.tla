----------------------------- MODULE DiscProofs -----------------------------
(***************************************************************************)
(* The disc drive for any number of calls that interrupt each other: a     *)
(* read that nothing interrupted reports success only for data it has got, *)
(* what is registered can be read once the poller has seen the cover, and  *)
(* a program that is started is left alone.                                *)
(***************************************************************************)
EXTENDS Disc, SequenceTheorems, TLAPS

(* Front drops the last element.                                            *)
LEMMA FrontElements ==
  ASSUME NEW S, NEW s \in Seq(S), s # <<>>
  PROVE  /\ Front(s) \in Seq(S) /\ Len(Front(s)) = Len(s) - 1
         /\ \A j \in 1..(Len(s) - 1) : Front(s)[j] = s[j]
<1>1. PICK n \in Nat : n = Len(s) - 1
  BY EmptySeq, LenProperties
<1>2. Front(s) = SubSeq(s, 1, n) /\ \A j \in 1..n : s[j] \in S
  BY <1>1, ElementOfSeq DEF Front
<1>3. Front(s) \in Seq(S) /\ Len(Front(s)) = IF 1 <= n THEN n - 1 + 1 ELSE 0
  BY <1>2, SubSeqProperties
<1>4. Len(Front(s)) = n
  BY <1>3
<1>5. \A j \in 1..n : j \in 1..(n - 1 + 1) /\ s[1 + j - 1] = s[j]
  OBVIOUS
<1>6. \A j \in 1..n : Front(s)[j] = s[j]
  BY <1>2, <1>5, SubSeqProperties
<1>7. QED
  BY <1>1, <1>3, <1>4, <1>6

-----------------------------------------------------------------------------
Pcs == Commands \cup {"unwedge", "reset", "register", "queue"}
Frame == [fn : {"init", "poller", "read"}, pc : Pcs,
          wait : BOOLEAN, out : {"none", "good", "bad"}, clob : BOOLEAN,
          open : BOOLEAN, id : Results \cup Statuses \cup {"none"}, media : Media]

\* What diInit and the poller do before a device is registered; the part
\* of it that is about a disc in the closed drive; a poller that was called
\* because the cover is open.
Bringing == {"unwedge", "reset", "waitstatus", "inquiry", "status", "unlock", "readid",
             "idstatus", "v0", "v16", "size", "patch"}
Probing == {"unlock", "readid", "idstatus", "v0", "v16", "size", "register", "patch"}
Opened(f) == f.fn = "poller" /\ f.open = TRUE

(***************************************************************************)
(* The inductive invariant.  What each call is about; diInit is below all  *)
(* others, and there is one poller, which remembers the cover.             *)
(***************************************************************************)
Shaped ==
  \A i \in DOMAIN stack :
    /\ stack[i].fn = "read" <=> stack[i].pc = "read"
    /\ stack[i].fn = "init" => i = 1 /\ (polling = TRUE <=> stack[i].pc = "status2")
    /\ stack[i].fn = "poller" =>
         /\ polling = TRUE /\ stack[i].open = lastDICVR
         /\ stack[i].open = TRUE => stack[i].pc = "status"
         /\ stack[i].pc \notin {"unwedge", "inquiry", "queue", "status2"}
    /\ stack[i].wait = TRUE => stack[i].pc \in Commands
    /\ stack[i].wait = FALSE => stack[i].out = "none" /\ stack[i].clob = FALSE
    /\ \A j \in DOMAIN stack : stack[i].fn = "poller" /\ stack[j].fn = "poller" => i = j

\* A disc is looked at only while none is registered, and nothing
\* interrupts that, for there is nothing to be read.
Slot ==
  /\ bdevRegistered = TRUE => bdev = TRUE
  /\ bdev = TRUE /\ bdevRegistered = FALSE => \E i \in DOMAIN stack : stack[i].pc = "register"
  /\ lastDICVR = TRUE /\ bdev = TRUE => \E i \in DOMAIN stack : stack[i].fn = "poller"
  /\ polling = FALSE /\ bdev = TRUE => \E i \in DOMAIN stack : stack[i].fn = "init"
  /\ \A i \in DOMAIN stack :
       /\ stack[i].pc \in Bringing /\ ~Opened(stack[i])
            => i = Len(stack) /\ bdev = FALSE /\ stack[i].clob = FALSE
       /\ stack[i].pc = "register" => bdev = TRUE /\ bdevRegistered = FALSE
       /\ stack[i].pc \in Probing => lastDICVR = FALSE

\* The drive works for a call that has not got an answer, and any other
\* call that waits has lost its registers to that one.
Wired ==
  /\ engine.busy = FALSE => engine.by = 0
  /\ engine.by # 0 =>
       /\ engine.by \in DOMAIN stack
       /\ stack[engine.by].wait = TRUE /\ stack[engine.by].out = "none"
       /\ \A i \in DOMAIN stack : i # engine.by /\ stack[i].wait = TRUE => stack[i].clob = TRUE

\* LENGTH tells a call that kept its registers whether it got its data.
Told ==
  \A i \in DOMAIN stack :
    stack[i].wait = TRUE /\ stack[i].clob = FALSE /\ stack[i].pc \in Dma
      => residual = TRUE \/ stack[i].out = "good"

\* The disc that is registered, or that a probe has read from, can be read,
\* if the drive is closed and was not opened in the meantime.
Still == lastDICVR = FALSE /\ lid = FALSE /\ missed = FALSE
Fit ==
  /\ bdevRegistered = TRUE /\ Still => Readable
  /\ \A i \in DOMAIN stack :
       \/ stack[i].pc \in {"size", "register"}
       \/ stack[i].pc \in {"v0", "v16"} /\ stack[i].out = "good"
       => (Still => Readable)

\* A drive that never got ready has nothing that could write to memory.
Quiet == ~(engine.busy = TRUE /\ engine.dma = TRUE)
Starting ==
  /\ state # "notready"
  /\ state = "nohardware" => stack = <<>> /\ bdev = FALSE /\ polling = FALSE /\ Quiet
  /\ \A i \in DOMAIN stack : stack[i].fn = "init" /\ stack[i].pc = "waitstatus" => Quiet

Going == Shaped /\ Slot /\ Wired /\ Told /\ Fit /\ Starting

DiscInv ==
  /\ TypeOK /\ ~lied /\ HandoverQuiet
  /\ halted = "no" => Going
  /\ halted # "no" => bdevRegistered = FALSE

(***************************************************************************)
(* The stack, one element at a time, and the types.                        *)
(***************************************************************************)
LEMMA StackIs ==
  ASSUME NEW st \in Seq(Frame)
  PROVE  /\ Len(st) \in Nat /\ DOMAIN st = 1..Len(st)
         /\ \A i \in DOMAIN st : st[i] \in Frame
  BY LenProperties, ElementOfSeq

LEMMA TopIs ==
  ASSUME NEW st \in Seq(Frame), st # <<>>
  PROVE  /\ Len(st) \in Nat /\ Len(st) >= 1 /\ DOMAIN st = 1..Len(st) /\ Len(st) \in DOMAIN st
         /\ Last(st) = st[Len(st)] /\ st[Len(st)] \in Frame
  BY EmptySeq, LenProperties, ElementOfSeq DEF Last

LEMMA PutTop ==
  ASSUME NEW st \in Seq(Frame), st # <<>>, NEW e \in Frame
  PROVE  /\ [st EXCEPT ![Len(st)] = e] \in Seq(Frame)
         /\ Len([st EXCEPT ![Len(st)] = e]) = Len(st)
         /\ DOMAIN [st EXCEPT ![Len(st)] = e] = DOMAIN st
         /\ [st EXCEPT ![Len(st)] = e][Len(st)] = e
         /\ \A i \in DOMAIN st : i # Len(st) => [st EXCEPT ![Len(st)] = e][i] = st[i]
<1>1. Len(st) \in 1..Len(st) /\ DOMAIN st = 1..Len(st)
  BY TopIs
<1>2. QED
  BY <1>1, ExceptSeq

LEMMA PopTop ==
  ASSUME NEW st \in Seq(Frame), st # <<>>
  PROVE  /\ Front(st) \in Seq(Frame) /\ Len(Front(st)) = Len(st) - 1
         /\ DOMAIN Front(st) = 1..(Len(st) - 1)
         /\ \A i \in DOMAIN Front(st) : i \in DOMAIN st /\ i # Len(st) /\ Front(st)[i] = st[i]
         /\ \A i \in DOMAIN st : i # Len(st) => i \in DOMAIN Front(st)
<1>1. /\ Front(st) \in Seq(Frame) /\ Len(Front(st)) = Len(st) - 1
      /\ \A i \in 1..(Len(st) - 1) : Front(st)[i] = st[i]
  BY FrontElements
<1>2. Len(st) \in Nat /\ Len(st) >= 1 /\ DOMAIN st = 1..Len(st)
  BY TopIs
<1>3. DOMAIN Front(st) = 1..(Len(st) - 1)
  BY <1>1, LenProperties
<1>4. QED
  BY <1>1, <1>2, <1>3

LEMMA PushTop ==
  ASSUME NEW st \in Seq(Frame), NEW e \in Frame
  PROVE  /\ Append(st, e) \in Seq(Frame) /\ Len(Append(st, e)) = Len(st) + 1
         /\ DOMAIN Append(st, e) = 1..(Len(st) + 1)
         /\ Append(st, e)[Len(st) + 1] = e
         /\ \A i \in DOMAIN st : Append(st, e)[i] = st[i]
         /\ \A i \in DOMAIN Append(st, e) : i \in DOMAIN st \/ i = Len(st) + 1
<1>1. /\ Append(st, e) \in Seq(Frame) /\ Len(Append(st, e)) = Len(st) + 1
      /\ \A i \in 1..Len(st) : Append(st, e)[i] = st[i]
      /\ Append(st, e)[Len(st) + 1] = e
  BY AppendProperties
<1>2. QED
  BY <1>1, LenProperties

LEMMA Types ==
  ASSUME TypeOK
  PROVE  /\ stack \in Seq(Frame) /\ Len(stack) <= MaxNesting
         /\ console \in {"gamecube", "wii"} /\ lid \in BOOLEAN /\ disc \in Discs
         /\ engine \in [busy : BOOLEAN, dma : BOOLEAN, by : 0..MaxNesting]
         /\ sr \in BOOLEAN /\ residual \in BOOLEAN /\ immbuf \in Statuses
         /\ bdev \in BOOLEAN /\ bdevRegistered \in BOOLEAN
         /\ lastDICVR \in BOOLEAN /\ polling \in BOOLEAN /\ lied \in BOOLEAN /\ missed \in BOOLEAN
         /\ state \in {"cleanable", "nohardware", "ready", "notready"}
         /\ halted \in {"no", "handover", "panic"}
  BY DEF TypeOK, Frame, Pcs

\* The types are kept, variable by variable.
FlagsTyped ==
  /\ patchedDrive \in BOOLEAN /\ driveKnown \in BOOLEAN /\ mediaValidated \in BOOLEAN
  /\ usingWiiDVDRRead \in BOOLEAN /\ patchedGCNMedia \in BOOLEAN /\ irqOn \in BOOLEAN
  /\ flaky \in BOOLEAN
WireTyped ==
  /\ engine \in [busy : BOOLEAN, dma : BOOLEAN, by : 0..MaxNesting]
  /\ sr \in BOOLEAN /\ residual \in BOOLEAN /\ immbuf \in Statuses
DriverTyped ==
  /\ console \in {"gamecube", "wii"} /\ lid \in BOOLEAN /\ disc \in Discs
  /\ bdev \in BOOLEAN /\ bdevRegistered \in BOOLEAN
  /\ lastDICVR \in BOOLEAN /\ polling \in BOOLEAN /\ lied \in BOOLEAN /\ missed \in BOOLEAN
  /\ state \in {"cleanable", "nohardware", "ready", "notready"}
  /\ halted \in {"no", "handover", "panic"}
StackTyped == stack \in Seq(Frame) /\ Len(stack) <= MaxNesting

LEMMA TypesAre == TypeOK <=> FlagsTyped /\ WireTyped /\ DriverTyped /\ StackTyped
  BY DEF TypeOK, FlagsTyped, WireTyped, DriverTyped, StackTyped, Frame, Pcs

LEMMA TypesAreNext == TypeOK' <=> FlagsTyped' /\ WireTyped' /\ DriverTyped' /\ StackTyped'
  BY DEF TypeOK, FlagsTyped, WireTyped, DriverTyped, StackTyped, Frame, Pcs

LEMMA CallIs ==
  ASSUME NEW fn \in {"init", "poller", "read"}, NEW pc \in Pcs
  PROVE  /\ Call(fn, pc) \in Frame
         /\ Call(fn, pc).fn = fn /\ Call(fn, pc).pc = pc /\ Call(fn, pc).wait = FALSE
         /\ Call(fn, pc).out = "none" /\ Call(fn, pc).clob = FALSE /\ Call(fn, pc).open = FALSE
  BY DEF Call, Frame, Media

LEMMA PollerCallIs ==
  ASSUME NEW l \in BOOLEAN
  PROVE  \E e \in Frame :
           /\ e = [Call("poller", "status") EXCEPT !.open = l]
           /\ e.fn = "poller" /\ e.pc = "status" /\ e.wait = FALSE
           /\ e.out = "none" /\ e.clob = FALSE /\ e.open = l
<1> DEFINE c == Call("poller", "status")
           e == [c EXCEPT !.open = l]
<1>1. c \in Frame /\ c.fn = "poller" /\ c.pc = "status" /\ c.wait = FALSE
      /\ c.out = "none" /\ c.clob = FALSE
  BY CallIs DEF Pcs, Commands
<1> HIDE DEF c
<1>2. e \in Frame /\ e.fn = "poller" /\ e.pc = "status" /\ e.wait = FALSE
      /\ e.out = "none" /\ e.clob = FALSE /\ e.open = l
  BY <1>1 DEF Frame
<1> USE DEF c
<1>3. e = [Call("poller", "status") EXCEPT !.open = l]
  OBVIOUS
<1> HIDE DEF c, e
<1>4. QED
  BY <1>2, <1>3

(***************************************************************************)
(* What a step makes of the running call.                                  *)
(***************************************************************************)
Fresh(e, pc) ==
  /\ e.fn = Top.fn /\ e.pc = pc /\ e.wait = FALSE /\ e.out = "none" /\ e.clob = FALSE
  /\ e.fn = "poller" => e.open = Top.open
SetTo(pc) ==
  \E e \in Frame : Fresh(e, pc) /\ stack' = [stack EXCEPT ![Len(stack)] = e]

LEMMA BeforeIs ==
  ASSUME NEW f \in Frame, NEW pc \in Pcs
  PROVE  /\ Before(f, pc) \in Frame
         /\ Before(f, pc).fn = f.fn /\ Before(f, pc).pc = pc /\ Before(f, pc).wait = FALSE
         /\ Before(f, pc).out = "none" /\ Before(f, pc).clob = FALSE
         /\ Before(f, pc).open = f.open
  BY DEF Before, Frame

LEMMA GotoIs ==
  ASSUME stack \in Seq(Frame), stack # <<>>, NEW pc \in Pcs, Goto(pc)
  PROVE  SetTo(pc)
<1>1. Top \in Frame
  BY TopIs DEF Top
<1> DEFINE e == Before(Top, pc)
<1>2. e \in Frame /\ e.fn = Top.fn /\ e.pc = pc /\ e.wait = FALSE /\ e.out = "none"
      /\ e.clob = FALSE /\ e.open = Top.open
  BY <1>1, BeforeIs
<1>3. stack' = [stack EXCEPT ![Len(stack)] = e]
  BY DEF Goto, Set
<1> HIDE DEF e
<1>4. QED
  BY <1>2, <1>3 DEF SetTo, Fresh

LEMMA SetIs ==
  ASSUME stack \in Seq(Frame), stack # <<>>, NEW pc \in Pcs, NEW m \in Media,
         NEW id \in Results \cup Statuses \cup {"none"},
         \/ Set([Before(Top, pc) EXCEPT !.media = m, !.id = id])
         \/ Set([Before(Top, pc) EXCEPT !.id = id])
  PROVE  SetTo(pc)
<1>1. Top \in Frame
  BY TopIs DEF Top
<1> DEFINE b == Before(Top, pc)
           e == [b EXCEPT !.media = m, !.id = id]
           d == [b EXCEPT !.id = id]
<1>2. b \in Frame /\ b.fn = Top.fn /\ b.pc = pc /\ b.wait = FALSE /\ b.out = "none"
      /\ b.clob = FALSE /\ b.open = Top.open
  BY <1>1, BeforeIs
<1>3. \/ stack' = [stack EXCEPT ![Len(stack)] = e]
      \/ stack' = [stack EXCEPT ![Len(stack)] = d]
  BY DEF Set
<1> HIDE DEF b
<1>4. e \in Frame /\ e.fn = Top.fn /\ e.pc = pc /\ e.wait = FALSE /\ e.out = "none"
      /\ e.clob = FALSE /\ e.open = Top.open
  BY <1>2 DEF Frame
<1>5. d \in Frame /\ d.fn = Top.fn /\ d.pc = pc /\ d.wait = FALSE /\ d.out = "none"
      /\ d.clob = FALSE /\ d.open = Top.open
  BY <1>2 DEF Frame
<1> HIDE DEF e, d
<1>6. QED
  BY <1>3, <1>4, <1>5 DEF SetTo, Fresh

LEMMA BeginIs ==
  ASSUME stack \in Seq(Frame), stack # <<>>, BeginReadID
  PROVE  SetTo("readid") /\ mediaValidated' = FALSE
<1>1. "readid" \in Pcs /\ "unknown" \in Media
      /\ "none" \in Results \cup Statuses \cup {"none"}
  BY DEF Pcs, Commands, Dma, Media
<1>2. Set([Before(Top, "readid") EXCEPT !.media = "unknown", !.id = "none"])
      /\ mediaValidated' = FALSE
  BY DEF BeginReadID
<1>3. SetTo("readid")
  BY <1>1, <1>2, SetIs
<1>4. QED
  BY <1>2, <1>3

LEMMA ProbeIs ==
  ASSUME TypeOK, stack # <<>>, ProbeNewMedia
  PROVE  /\ SetTo("unlock") \/ SetTo("readid")
         /\ mediaValidated' \in BOOLEAN
         /\ UNCHANGED <<usingWiiDVDRRead, patchedGCNMedia>>
<1>1. stack \in Seq(Frame) /\ mediaValidated \in BOOLEAN
  BY Types, TypesAre DEF FlagsTyped
<1>2. "unlock" \in Pcs
  BY DEF Pcs, Commands
<1>3. CASE console = "gamecube"
  <2>1. Goto("unlock") /\ UNCHANGED flags
    BY <1>3 DEF ProbeNewMedia
  <2>2. SetTo("unlock")
    BY <1>1, <1>2, <2>1, GotoIs
  <2>3. QED
    BY <1>1, <2>1, <2>2 DEF flags
<1>4. CASE console # "gamecube"
  <2>1. BeginReadID /\ UNCHANGED <<usingWiiDVDRRead, patchedGCNMedia>>
    BY <1>4 DEF ProbeNewMedia
  <2>2. QED
    BY <1>1, <2>1, BeginIs
<1>5. QED
  BY <1>3, <1>4

\* The end of a probe: diInit goes on, the poller returns.
Ended ==
  /\ Top.fn = "init" => SetTo("queue")
  /\ Top.fn # "init" => stack' = Front(stack)

LEMMA EndProbeIs ==
  ASSUME stack \in Seq(Frame), stack # <<>>, EndProbe
  PROVE  Ended
<1>1. CASE Top.fn = "init"
  <2> DEFINE e == Call("init", "queue")
  <2>1. e \in Frame /\ e.fn = "init" /\ e.pc = "queue" /\ e.wait = FALSE /\ e.out = "none"
        /\ e.clob = FALSE
    BY CallIs DEF Pcs
  <2>2. stack' = [stack EXCEPT ![Len(stack)] = e]
    BY <1>1 DEF EndProbe, Set
  <2> HIDE DEF e
  <2>3. QED
    BY <1>1, <2>1, <2>2 DEF Ended, SetTo, Fresh
<1>2. CASE Top.fn # "init"
  BY <1>2 DEF EndProbe, Return, Ended
<1>3. QED
  BY <1>1, <1>2

\* Where a probe goes on after it has read the identification.
Choice == SetTo("v0") \/ SetTo("readid") \/ SetTo("patch") \/ Ended

LEMMA TryPatchIs ==
  ASSUME stack \in Seq(Frame), stack # <<>>, NEW status, TryPatch(status)
  PROVE  Choice
<1>1. EndProbe \/ Goto("patch")
  BY DEF TryPatch
<1>2. "patch" \in Pcs
  BY DEF Pcs, Commands
<1>3. EndProbe => Ended
  BY EndProbeIs
<1>4. Goto("patch") => SetTo("patch")
  BY <1>2, GotoIs
<1>5. QED
  BY <1>1, <1>3, <1>4 DEF Choice

LEMMA DispatchIs ==
  ASSUME TypeOK, stack # <<>>, NEW media \in Media, NEW status, Dispatch(media, status)
  PROVE  /\ Choice
         /\ mediaValidated' \in BOOLEAN /\ usingWiiDVDRRead' \in BOOLEAN
         /\ patchedGCNMedia' \in BOOLEAN
<1>1. /\ stack \in Seq(Frame) /\ mediaValidated \in BOOLEAN /\ usingWiiDVDRRead \in BOOLEAN
      /\ patchedGCNMedia \in BOOLEAN
  BY Types, TypesAre DEF FlagsTyped
<1>2. CASE /\ media \in {"original", "rejected"}
           /\ Set([Before(Top, "v0") EXCEPT !.media = media, !.id = "none"])
           /\ usingWiiDVDRRead' = (media = "rejected")
           /\ UNCHANGED <<mediaValidated, patchedGCNMedia>>
  <2>1. "v0" \in Pcs /\ "none" \in Results \cup Statuses \cup {"none"}
    BY DEF Pcs, Commands, Dma
  <2>2. SetTo("v0")
    BY <1>1, <1>2, <2>1, SetIs
  <2>3. QED
    BY <1>1, <1>2, <2>2 DEF Choice
<1>3. CASE /\ media = "empty"
           /\ EndProbe
           /\ usingWiiDVDRRead' = FALSE /\ patchedGCNMedia' = FALSE /\ UNCHANGED mediaValidated
  BY <1>1, <1>3, EndProbeIs DEF Choice
<1>4. CASE /\ media = "unknown" /\ status = "changed"
           /\ BeginReadID /\ UNCHANGED <<usingWiiDVDRRead, patchedGCNMedia>>
  BY <1>1, <1>4, BeginIs DEF Choice
<1>5. CASE /\ media = "unknown"
           /\ TryPatch(status)
           /\ usingWiiDVDRRead' = FALSE /\ UNCHANGED <<mediaValidated, patchedGCNMedia>>
  BY <1>1, <1>5, TryPatchIs
<1>6. QED
  BY <1>2, <1>3, <1>4, <1>5 DEF Dispatch

(***************************************************************************)
(* The initial state.                                                      *)
(***************************************************************************)
LEMMA InitDisc == Init => DiscInv
<1> SUFFICES ASSUME Init PROVE DiscInv
  OBVIOUS
<1> DEFINE e == Call("init", "unwedge")
<1>1. e \in Frame /\ e.fn = "init" /\ e.pc = "unwedge" /\ e.wait = FALSE
      /\ e.out = "none" /\ e.clob = FALSE
  BY CallIs, ZenonT(60) DEF Pcs
<1>2. stack = <<e>>
  BY DEF Init
<1> HIDE DEF e
<1>3. stack \in Seq(Frame) /\ Len(stack) = 1 /\ DOMAIN stack = {1} /\ stack[1] = e
  BY <1>1, <1>2
<1>4. TypeOK
  <2>1. StackTyped
    BY <1>3, DiscAssumption DEF StackTyped
  <2>2. FlagsTyped
    BY DEF Init, FlagsTyped
  <2>3. DriverTyped
    BY DEF Init, DriverTyped
  <2>4. WireTyped
    <3>1. 0 \in 0..MaxNesting
      BY DiscAssumption
    <3>2. engine = [busy |-> FALSE, dma |-> FALSE, by |-> 0]
          \/ engine = [busy |-> TRUE, dma |-> TRUE, by |-> 0]
      BY DEF Init, Idle
    <3>3. engine \in [busy : BOOLEAN, dma : BOOLEAN, by : 0..MaxNesting]
      <4> DEFINE N == 0..MaxNesting
      <4>1. 0 \in N
        BY <3>1
      <4> HIDE DEF N
      <4>2. \A b, d \in BOOLEAN : [busy |-> b, dma |-> d, by |-> 0] \in
              [busy : BOOLEAN, dma : BOOLEAN, by : N]
        BY <4>1
      <4>3. TRUE \in BOOLEAN /\ FALSE \in BOOLEAN
        OBVIOUS
      <4>4. engine \in [busy : BOOLEAN, dma : BOOLEAN, by : N]
        BY <3>2, <4>2, <4>3, Zenon
      <4>5. QED
        BY <4>4 DEF N
    <3>4. QED
      BY <3>3 DEF Init, WireTyped, Statuses
  <2>5. QED
    BY <2>1, <2>2, <2>3, <2>4, TypesAre
<1>5. Shaped
  BY <1>1, <1>3 DEF Shaped, Init
<1>6. Slot
  BY <1>1, <1>3 DEF Slot, Init
<1>7. Wired
  BY <1>1, <1>3 DEF Wired, Init, Idle
<1>8. Told /\ Fit /\ Starting
  BY <1>1, <1>3 DEF Told, Fit, Starting, Init
<1>9. QED
  BY <1>4, <1>5, <1>6, <1>7, <1>8 DEF DiscInv, Going, HandoverQuiet, Init

(***************************************************************************)
(* The running call.                                                       *)
(***************************************************************************)


LEMMA RunningIs ==
  ASSUME DiscInv, Running
  PROVE  /\ Going /\ TypeOK /\ halted = "no" /\ stack \in Seq(Frame) /\ stack # <<>>
         /\ Top = stack[Len(stack)] /\ Top \in Frame
         /\ Len(stack) \in Nat /\ Len(stack) >= 1 /\ DOMAIN stack = 1..Len(stack)
         /\ Len(stack) \in DOMAIN stack
<1>1. halted = "no" /\ stack # <<>>
  BY DEF Running
<1>2. TypeOK /\ Going
  BY <1>1 DEF DiscInv
<1>3. stack \in Seq(Frame)
  BY <1>2, Types
<1>4. QED
  BY <1>1, <1>2, <1>3, TopIs DEF Top

\* The command engine after a step of a call that does not wait any more.
LetGo ==
  /\ engine' \in [busy : BOOLEAN, dma : BOOLEAN, by : 0..MaxNesting]
  /\ engine'.by # Len(stack) /\ engine'.by \in {0, engine.by}
  /\ engine'.busy = FALSE => engine'.by = 0
  /\ Quiet => Quiet'
  /\ residual' = residual

LEMMA ReturnsIs ==
  ASSUME DiscInv, NEW pc \in Commands, NEW r \in Results, Returns(pc, r)
  PROVE  /\ Running /\ Top.pc = pc /\ LetGo /\ WireTyped'
         /\ flaky' \in BOOLEAN
         /\ UNCHANGED <<lid, disc, console, halted, missed>>
         /\ r = "ok" /\ pc \in Dma /\ Top.clob = FALSE => Top.out = "good"
<1>1. Running /\ Top.pc = pc /\ immbuf' = "other"
      /\ UNCHANGED <<residual, lid, disc, console, halted, missed>>
  BY DEF Returns
<1>2. /\ TypeOK /\ Going /\ Top = stack[Len(stack)] /\ Len(stack) \in DOMAIN stack
      /\ Top \in Frame /\ Len(stack) \in Nat /\ Len(stack) >= 1
  BY <1>1, RunningIs
<1>3. /\ engine \in [busy : BOOLEAN, dma : BOOLEAN, by : 0..MaxNesting]
      /\ sr \in BOOLEAN /\ residual \in BOOLEAN /\ flaky \in BOOLEAN
  BY <1>2, Types, TypesAre DEF FlagsTyped
<1>4. immbuf' \in Statuses /\ residual' \in BOOLEAN
  BY <1>1, <1>3 DEF Statuses
<1>5. CASE /\ Top.wait /\ ~engine.busy /\ r = Result(pc \in Dma)
           /\ sr' = FALSE /\ UNCHANGED <<engine, flaky>>
  <2>1. engine.by = 0
    BY <1>2, <1>3, <1>5 DEF Going, Wired
  <2>2. LetGo
    BY <1>1, <1>2, <1>3, <1>5, <2>1 DEF LetGo, Quiet
  <2>3. r = "ok" /\ pc \in Dma => ~residual
    BY <1>5 DEF Result
  <2>4. r = "ok" /\ pc \in Dma /\ Top.clob = FALSE => Top.out = "good"
    BY <1>1, <1>2, <1>5, <2>3 DEF Going, Told
  <2>5. WireTyped' /\ flaky' \in BOOLEAN
    BY <1>3, <1>4, <1>5 DEF WireTyped
  <2>6. QED
    BY <1>1, <2>2, <2>4, <2>5
<1>6. CASE /\ engine.busy /\ r = "etimedout"
           /\ engine' = IF engine.by = Len(stack) THEN [engine EXCEPT !.by = 0] ELSE engine
           /\ flaky' = TRUE /\ UNCHANGED sr
  <2>1. /\ engine' \in [busy : BOOLEAN, dma : BOOLEAN, by : 0..MaxNesting]
        /\ engine'.by # Len(stack) /\ engine'.by \in {0, engine.by}
        /\ engine'.busy = engine.busy /\ engine'.dma = engine.dma
    <3>1. 0 \in 0..MaxNesting
      BY DiscAssumption
    <3>2. CASE engine.by = Len(stack)
      <4>1. engine' = [engine EXCEPT !.by = 0]
        BY <1>6, <3>2
      <4>2. Len(stack) # 0
        BY <1>2
      <4>3. QED
        BY <1>3, <3>1, <4>1, <4>2
    <3>3. CASE engine.by # Len(stack)
      BY <1>3, <1>6, <3>3
    <3>4. QED
      BY <3>2, <3>3
  <2>2. LetGo
    BY <1>1, <1>6, <2>1 DEF LetGo, Quiet
  <2>3. WireTyped' /\ flaky' \in BOOLEAN
    BY <1>3, <1>4, <1>6, <2>1 DEF WireTyped
  <2>4. QED
    BY <1>1, <1>6, <2>2, <2>3
<1>7. QED
  BY <1>5, <1>6 DEF Returns

(***************************************************************************)
(* While a disc is brought up nothing is registered, and every other call  *)
(* waits for the end of it.                                                *)
(***************************************************************************)
LEMMA BringIs ==
  ASSUME DiscInv, Running, Top.pc \in Bringing, ~Opened(Top)
  PROVE  /\ bdev = FALSE /\ bdevRegistered = FALSE /\ Top.clob = FALSE
         /\ Top.fn \in {"init", "poller"}
         /\ Top.fn = "init" => Len(stack) = 1 /\ polling = FALSE
         /\ Top.fn = "poller" => lastDICVR = FALSE /\ polling = TRUE
                                 /\ Top.pc \notin {"unwedge", "inquiry"}
         /\ \A i \in DOMAIN stack : i # Len(stack) =>
              stack[i].pc \notin Bringing \cup {"register"}
         /\ \A i \in DOMAIN stack : Top.fn = "poller" /\ i # Len(stack) =>
              stack[i].fn # "poller"
<1>1. /\ Going /\ TypeOK /\ stack \in Seq(Frame) /\ Top = stack[Len(stack)] /\ Top \in Frame
      /\ Len(stack) \in DOMAIN stack /\ DOMAIN stack = 1..Len(stack)
  BY RunningIs
<1>2. bdev = FALSE /\ Top.clob = FALSE
  BY <1>1 DEF Going, Slot
<1>3. bdevRegistered = FALSE
  BY <1>1, <1>2, Types DEF Going, Slot
<1>4. Top.fn # "read"
  BY <1>1 DEF Going, Shaped, Bringing
<1>5. Top.fn \in {"init", "poller"}
  BY <1>1, <1>4 DEF Frame
<1>6. Top.fn = "init" => Len(stack) = 1 /\ polling = FALSE
  BY <1>1, Types DEF Going, Shaped, Bringing
<1>7. Top.fn = "poller" => lastDICVR = FALSE /\ polling = TRUE /\ Top.pc \notin {"unwedge", "inquiry"}
  BY <1>1, Types DEF Going, Shaped, Opened
<1>8. \A i \in DOMAIN stack : Top.fn = "poller" /\ i # Len(stack) => stack[i].fn # "poller"
  BY <1>1 DEF Going, Shaped
<1>9. \A i \in DOMAIN stack : i # Len(stack) => Top.fn = "poller"
  BY <1>1, <1>5, <1>6
<1>10. \A i \in DOMAIN stack : i # Len(stack) => stack[i].pc \notin Bringing \cup {"register"}
  <2>1. SUFFICES ASSUME NEW i \in DOMAIN stack, i # Len(stack)
                 PROVE  stack[i].pc \notin Bringing \cup {"register"}
    OBVIOUS
  <2>2. ~Opened(stack[i])
    BY <1>8, <1>9, <2>1 DEF Opened
  <2>3. stack[i].pc \notin Bringing
    BY <1>1, <2>1, <2>2 DEF Going, Slot
  <2>4. stack[i].pc # "register"
    BY <1>1, <1>2, <2>1 DEF Going, Slot
  <2>5. QED
    BY <2>3, <2>4
<1>11. QED
  BY <1>2, <1>3, <1>5, <1>6, <1>7, <1>8, <1>10

\* It goes on to another command, or registers what it found.
LEMMA BringsOn ==
  ASSUME DiscInv, Running, Top.pc \in Bringing, ~Opened(Top),
         NEW pc \in Bringing \cup {"queue", "register"}, SetTo(pc), LetGo,
         Top.fn = "poller" => pc \notin {"unwedge", "inquiry", "queue"},
         pc = "register" => bdev' = TRUE, pc # "register" => bdev' = FALSE,
         bdevRegistered' = FALSE, polling' = polling, state' = state,
         lastDICVR' = lastDICVR \/ Top.fn = "init",
         lastDICVR' \in BOOLEAN, pc \in Probing => lastDICVR' = FALSE,
         pc \in {"size", "register"} => (Still => Readable)',
         Top.fn = "init" /\ pc = "waitstatus" => Quiet'
  PROVE  Going' /\ StackTyped'
<1> DEFINE n == Len(stack)
<1>1. /\ Going /\ TypeOK /\ stack \in Seq(Frame) /\ Top = stack[n] /\ Top \in Frame
      /\ n \in DOMAIN stack /\ DOMAIN stack = 1..n /\ stack # <<>> /\ n \in Nat /\ n >= 1
  BY RunningIs
<1>2. /\ bdev = FALSE /\ bdevRegistered = FALSE /\ Top.clob = FALSE
      /\ Top.fn \in {"init", "poller"}
      /\ Top.fn = "init" => n = 1 /\ polling = FALSE
      /\ Top.fn = "poller" => lastDICVR = FALSE /\ polling = TRUE
      /\ \A i \in DOMAIN stack : i # n => stack[i].pc \notin Bringing \cup {"register"}
      /\ \A i \in DOMAIN stack : Top.fn = "poller" /\ i # n => stack[i].fn # "poller"
  BY BringIs
<1>3. PICK e \in Frame : Fresh(e, pc) /\ stack' = [stack EXCEPT ![n] = e]
  BY DEF SetTo
<1>4. /\ stack' \in Seq(Frame) /\ Len(stack') = n /\ DOMAIN stack' = DOMAIN stack
      /\ stack'[n] = e /\ \A i \in DOMAIN stack : i # n => stack'[i] = stack[i]
  BY <1>1, <1>3, PutTop
<1>5. /\ e.fn = Top.fn /\ e.pc = pc /\ e.wait = FALSE /\ e.out = "none" /\ e.clob = FALSE
      /\ e.fn = "poller" => e.open = Top.open
  BY <1>3 DEF Fresh
<1>6. Top.fn = "poller" => Top.open = FALSE
  BY <1>1, <1>2 DEF Going, Shaped
<1> HIDE DEF n
<1>7. Shaped'
  <2>1. \A i \in DOMAIN stack : i # n => Top.fn = "poller" /\ lastDICVR' = lastDICVR
    BY <1>1, <1>2
  <2>2. ASSUME NEW i \in DOMAIN stack', i # n
        PROVE  /\ stack'[i].fn = "read" <=> stack'[i].pc = "read"
               /\ stack'[i].fn = "init" => i = 1 /\ (polling' = TRUE <=> stack'[i].pc = "status2")
               /\ stack'[i].fn # "poller"
               /\ stack'[i].wait = TRUE => stack'[i].pc \in Commands
               /\ stack'[i].wait = FALSE => stack'[i].out = "none" /\ stack'[i].clob = FALSE
    BY <1>1, <1>2, <1>4, <2>1, <2>2 DEF Going, Shaped
  <2>3. /\ e.fn # "read" /\ e.pc # "read" /\ e.pc # "status2"
        /\ e.fn = "init" => n = 1 /\ polling' # TRUE
    BY <1>2, <1>5 DEF Bringing
  <2>4. e.fn = "poller" =>
          /\ polling' = TRUE /\ e.open = FALSE /\ e.open = lastDICVR'
          /\ e.pc \notin {"unwedge", "inquiry", "queue", "status2"}
    BY <1>2, <1>5, <1>6, <2>3
  <2>5. QED
    BY <1>1, <1>4, <1>5, <2>2, <2>3, <2>4 DEF Shaped
<1>8. Slot'
  <2>1. \A i \in DOMAIN stack' : i # n => stack'[i].pc \notin Bringing \cup {"register"}
    BY <1>2, <1>4
  <2>2. \A i \in DOMAIN stack' :
          /\ stack'[i].pc \in Bringing => i = Len(stack') /\ bdev' = FALSE /\ stack'[i].clob = FALSE
          /\ stack'[i].pc = "register" => bdev' = TRUE /\ bdevRegistered' = FALSE
          /\ stack'[i].pc \in Probing => lastDICVR' = FALSE
    BY <1>4, <1>5, <2>1 DEF Bringing, Probing
  <2>3. bdev' = TRUE => \E i \in DOMAIN stack' : stack'[i].pc = "register"
    BY <1>1, <1>4, <1>5
  <2>4. lastDICVR' = TRUE /\ bdev' = TRUE => FALSE
    BY DEF Probing
  <2>5. polling' = FALSE => \E i \in DOMAIN stack' : stack'[i].fn = "init"
    BY <1>1, <1>2, <1>4, <1>5
  <2>6. QED
    BY <2>2, <2>3, <2>4, <2>5 DEF Slot
<1>9. Wired'
  <2>1. engine'.by # n /\ (engine'.by = 0 \/ engine'.by = engine.by) /\ (engine'.busy = FALSE => engine'.by = 0)
    BY DEF LetGo, n
  <2>2. QED
    BY <1>1, <1>4, <1>5, <2>1 DEF Going, Wired
<1>10. Told'
  <2>1. residual' = residual
    BY DEF LetGo
  <2>2. QED
    BY <1>1, <1>4, <1>5, <2>1 DEF Going, Told
<1>11. Fit'
  <2>1. \A i \in DOMAIN stack' : i # n => stack'[i].pc \notin Bringing \cup {"register"}
    BY <1>2, <1>4
  <2>2. ASSUME NEW i \in DOMAIN stack',
               \/ stack'[i].pc \in {"size", "register"}
               \/ stack'[i].pc \in {"v0", "v16"} /\ stack'[i].out = "good"
        PROVE  (Still => Readable)'
    BY <1>4, <1>5, <2>1, <2>2 DEF Bringing
  <2>3. QED
    BY <2>2 DEF Fit
<1>12. Starting'
  <2>1. state # "notready" /\ state # "nohardware"
    BY <1>1 DEF Going, Starting
  <2>2. \A i \in DOMAIN stack' : i # n => stack'[i].pc # "waitstatus"
    BY <1>2, <1>4 DEF Bringing
  <2>3. \A i \in DOMAIN stack' : stack'[i].fn = "init" /\ stack'[i].pc = "waitstatus" => Quiet'
    BY <1>4, <1>5, <2>2
  <2>4. QED
    BY <2>1, <2>3 DEF Starting
<1>13. StackTyped'
  BY <1>1, <1>4, Types DEF StackTyped, n
<1>14. QED
  BY <1>7, <1>8, <1>9, <1>10, <1>11, <1>12, <1>13 DEF Going

\* It ends without a device.
LEMMA BringsEnd ==
  ASSUME DiscInv, Running, Top.pc \in Bringing, ~Opened(Top),
         stack' = Front(stack), LetGo,
         bdev' = FALSE, bdevRegistered' = FALSE, polling' = polling, lastDICVR' = lastDICVR,
         \/ state' = state
         \/ Top.fn = "init" /\ state' = "nohardware" /\ Quiet'
  PROVE  Going' /\ StackTyped'
<1> DEFINE n == Len(stack)
<1>1. /\ Going /\ TypeOK /\ stack \in Seq(Frame) /\ Top = stack[n] /\ Top \in Frame
      /\ n \in DOMAIN stack /\ DOMAIN stack = 1..n /\ stack # <<>> /\ n \in Nat /\ n >= 1
  BY RunningIs
<1>2. /\ bdev = FALSE /\ bdevRegistered = FALSE
      /\ Top.fn \in {"init", "poller"}
      /\ Top.fn = "init" => n = 1 /\ polling = FALSE
      /\ \A i \in DOMAIN stack : i # n => stack[i].pc \notin Bringing \cup {"register"}
  BY BringIs
<1>3. /\ stack' \in Seq(Frame) /\ Len(stack') = n - 1 /\ DOMAIN stack' = 1..(n - 1)
      /\ \A i \in DOMAIN stack' : i \in DOMAIN stack /\ i # n /\ stack'[i] = stack[i]
      /\ \A i \in DOMAIN stack : i # n => i \in DOMAIN stack'
  BY <1>1, PopTop
<1>4. stack' = <<>> \/ Top.fn = "poller"
  BY <1>1, <1>2, <1>3, EmptySeq
<1> HIDE DEF n
<1>5. Shaped'
  BY <1>1, <1>3 DEF Going, Shaped
<1>6. \A i \in DOMAIN stack' : stack'[i].pc \notin Bringing \cup {"register"}
  BY <1>2, <1>3
<1>7. Slot'
  <2>1. \A i \in DOMAIN stack' : stack'[i].pc \notin Probing
    BY <1>6 DEF Bringing, Probing
  <2>2. QED
    BY <1>6, <2>1 DEF Slot
<1>8. Wired'
  <2>1. engine'.by # n /\ (engine'.by = 0 \/ engine'.by = engine.by) /\ (engine'.busy = FALSE => engine'.by = 0)
    BY DEF LetGo, n
  <2>2. QED
    BY <1>1, <1>3, <2>1 DEF Going, Wired
<1>9. Told'
  <2>1. residual' = residual
    BY DEF LetGo
  <2>2. QED
    BY <1>1, <1>3, <2>1 DEF Going, Told
<1>10. Fit'
  BY <1>6 DEF Fit, Bringing
<1>11. Starting'
  <2>1. state # "notready" /\ state # "nohardware"
    BY <1>1 DEF Going, Starting
  <2>2. \A i \in DOMAIN stack' : stack'[i].pc # "waitstatus"
    BY <1>6 DEF Bringing
  <2>3. Top.fn = "init" => stack' = <<>> /\ polling' = FALSE
    BY <1>2, <1>4
  <2>4. QED
    BY <2>1, <2>2, <2>3 DEF Starting
<1>12. StackTyped'
  <2>1. MaxNesting \in Nat /\ n <= MaxNesting
    BY <1>1, Types, DiscAssumption DEF n
  <2>2. n - 1 <= MaxNesting
    BY <1>1, <2>1
  <2>3. QED
    BY <1>3, <2>2 DEF StackTyped
<1>13. QED
  BY <1>5, <1>7, <1>8, <1>9, <1>10, <1>11, <1>12 DEF Going

(***************************************************************************)
(* The steps of diInit and the poller that bring a disc up.                *)
(***************************************************************************)
LEMMA Keeps ==
  ASSUME DiscInv, halted = "no", halted' = "no", lied' = lied,
         Going', StackTyped', WireTyped', FlagsTyped', DriverTyped'
  PROVE  DiscInv'
<1>1. TypeOK'
  BY TypesAreNext
<1>2. HandoverQuiet'
  BY DEF HandoverQuiet
<1>3. ~lied'
  BY DEF DiscInv
<1>4. QED
  BY <1>1, <1>2, <1>3 DEF DiscInv

Onward ==
  /\ polling' = polling /\ bdevRegistered' = FALSE /\ lastDICVR' \in BOOLEAN
  /\ lastDICVR' = lastDICVR \/ Top.fn = "init"
  /\ \/ \E to \in Bringing \cup {"queue", "register"} :
          /\ SetTo(to) /\ state' = state
          /\ (to = "register" => bdev' = TRUE) /\ (to # "register" => bdev' = FALSE)
          /\ Top.fn = "poller" => to \notin {"unwedge", "inquiry", "queue"}
          /\ to \in Probing => lastDICVR' = FALSE
          /\ to \in {"size", "register"} => (Still' => Readable')
          /\ Top.fn = "init" /\ to = "waitstatus" => Quiet'
     \/ /\ stack' = Front(stack) /\ bdev' = FALSE /\ lastDICVR' = lastDICVR
        /\ state' = state \/ (Top.fn = "init" /\ state' = "nohardware" /\ Quiet')

LEMMA OnwardKept ==
  ASSUME DiscInv, Running, Top.pc \in Bringing, ~Opened(Top), Onward, LetGo,
         WireTyped', FlagsTyped', lied' = lied,
         UNCHANGED <<lid, disc, console, halted, missed>>
  PROVE  DiscInv'
<1>1. halted = "no" /\ TypeOK
  BY RunningIs
<1>2. Going' /\ StackTyped'
  <2>1. CASE \E to \in Bringing \cup {"queue", "register"} :
               /\ SetTo(to) /\ state' = state
               /\ (to = "register" => bdev' = TRUE) /\ (to # "register" => bdev' = FALSE)
               /\ Top.fn = "poller" => to \notin {"unwedge", "inquiry", "queue"}
               /\ to \in Probing => lastDICVR' = FALSE
               /\ to \in {"size", "register"} => (Still' => Readable')
               /\ Top.fn = "init" /\ to = "waitstatus" => Quiet'
    BY <2>1, BringsOn DEF Onward
  <2>2. CASE /\ stack' = Front(stack) /\ bdev' = FALSE /\ lastDICVR' = lastDICVR
             /\ state' = state \/ (Top.fn = "init" /\ state' = "nohardware" /\ Quiet')
    BY <2>2, BringsEnd DEF Onward
  <2>3. QED
    BY <2>1, <2>2 DEF Onward
<1>3. DriverTyped'
  <2>1. bdev' \in BOOLEAN /\ state' \in {state, "nohardware"}
    BY DEF Onward
  <2>2. polling' = polling /\ bdevRegistered' = FALSE /\ lastDICVR' \in BOOLEAN
    BY DEF Onward
  <2>3. DriverTyped
    BY <1>1, TypesAre
  <2>4. QED
    BY <2>1, <2>2, <2>3 DEF DriverTyped
<1>4. QED
  BY <1>1, <1>2, <1>3, Keeps

LEMMA CommandKept ==
  ASSUME DiscInv, NEW pc \in Commands, pc \in Bringing, NEW r \in Results, Returns(pc, r),
         ~Opened(Top), Onward, FlagsTyped', lied' = lied
  PROVE  DiscInv'
  BY ReturnsIs, OnwardKept

\* A probe that goes on to a command, or that ends.
LEMMA GoesOn ==
  ASSUME DiscInv, Running, Top.pc \in Bringing, ~Opened(Top),
         NEW to \in Bringing \ {"waitstatus", "size", "unwedge", "inquiry"}, SetTo(to),
         UNCHANGED <<bdev, polling, state>>,
         bdevRegistered' = FALSE, lastDICVR' = FALSE,
         lastDICVR' = lastDICVR \/ Top.fn = "init"
  PROVE  Onward
<1>1. bdev = FALSE
  BY BringIs
<1>2. to # "register" /\ to \notin {"waitstatus", "size", "queue", "unwedge", "inquiry"}
  BY DEF Bringing
<1>3. QED
  BY <1>1, <1>2 DEF Onward

LEMMA EndsIs ==
  ASSUME DiscInv, Running, Top.pc \in Bringing, ~Opened(Top), Ended,
         UNCHANGED <<bdev, polling, state, lastDICVR>>, bdevRegistered' = FALSE
  PROVE  Onward
<1>1. bdev = FALSE /\ Top.fn \in {"init", "poller"}
  BY BringIs
<1>2. lastDICVR' \in BOOLEAN
  BY RunningIs, Types
<1>3. CASE Top.fn = "init"
  <2>1. SetTo("queue")
    BY <1>3 DEF Ended
  <2>2. "queue" \notin Probing
    BY DEF Probing
  <2>3. QED
    BY <1>1, <1>2, <1>3, <2>1, <2>2 DEF Onward
<1>4. CASE Top.fn = "poller"
  BY <1>1, <1>2, <1>4 DEF Onward, Ended
<1>5. QED
  BY <1>1, <1>3, <1>4

\* Where the running call is, when it is not the poller of an open cover.
LEMMA ClosedIs ==
  ASSUME DiscInv, Running, Top.pc \in Bringing \ {"status"}
  PROVE  ~Opened(Top) /\ (Top.pc \in Probing => lastDICVR = FALSE)
<1>1. Going /\ Top = stack[Len(stack)] /\ Len(stack) \in DOMAIN stack
  BY RunningIs
<1>2. ~Opened(Top)
  BY <1>1 DEF Going, Shaped, Opened
<1>3. QED
  BY <1>1, <1>2 DEF Going, Slot

LEMMA ChoiceIs ==
  ASSUME DiscInv, Running, Top.pc \in Bringing \ {"status"}, Top.pc \in Probing, Choice,
         UNCHANGED <<bdev, polling, state, lastDICVR, bdevRegistered>>
  PROVE  Onward
<1>1. ~Opened(Top) /\ lastDICVR = FALSE
  BY ClosedIs
<1>2. bdevRegistered = FALSE
  BY <1>1, BringIs
<1>3. \A to \in {"v0", "readid", "patch"} :
        to \in Bringing \ {"waitstatus", "size", "unwedge", "inquiry"}
  BY DEF Bringing
<1>4. \A to \in {"v0", "readid", "patch"} : SetTo(to) => Onward
  BY <1>1, <1>2, <1>3, GoesOn
<1>5. Ended => Onward
  BY <1>1, <1>2, EndsIs
<1>6. QED
  BY <1>4, <1>5 DEF Choice

LEMMA Places ==
  /\ {"unlock", "readid", "idstatus", "v0", "v16", "size", "patch"} \subseteq Probing
  /\ {"unlock", "readid", "idstatus", "v0", "v16", "size", "patch", "waitstatus", "inquiry"}
       \subseteq (Bringing \ {"status"}) \cap Commands
  /\ "status" \in Commands /\ Bringing \subseteq Pcs /\ Commands \subseteq Pcs
  BY DEF Probing, Bringing, Commands, Dma, Pcs

LEMMA UnlockKept == ASSUME DiscInv, Unlock PROVE DiscInv'
<1>1. PICK r \in Results :
        /\ Returns("unlock", r)
        /\ IF r = "ok" THEN BeginReadID ELSE (EndProbe /\ UNCHANGED mediaValidated)
        /\ UNCHANGED <<usingWiiDVDRRead, patchedGCNMedia, blocks, patchedDrive, driveKnown,
                       lastDICVR, polling, irqOn, state, lied>>
  BY DEF Unlock
<1>2. Running /\ Top.pc = "unlock" /\ flaky' \in BOOLEAN
  BY <1>1, ReturnsIs, Places
<1>3. stack \in Seq(Frame) /\ stack # <<>> /\ FlagsTyped
  BY <1>2, RunningIs, TypesAre
<1>4. Choice /\ mediaValidated' \in BOOLEAN
  <2>1. CASE r = "ok"
    BY <1>1, <1>3, <2>1, BeginIs DEF Choice
  <2>2. CASE r # "ok"
    BY <1>1, <1>3, <2>2, EndProbeIs DEF Choice, FlagsTyped
  <2>3. QED
    BY <2>1, <2>2
<1>5. Onward /\ ~Opened(Top)
  BY <1>1, <1>2, <1>4, ChoiceIs, ClosedIs, Places DEF blocks
<1>6. FlagsTyped'
  BY <1>1, <1>2, <1>3, <1>4 DEF FlagsTyped
<1>7. QED
  BY <1>1, <1>5, <1>6, CommandKept, Places

LEMMA ReadIDKept == ASSUME DiscInv, ReadID PROVE DiscInv'
<1>1. PICK r \in Results :
        /\ Returns("readid", r)
        /\ Set([Before(Top, "idstatus") EXCEPT !.id = r])
        /\ UNCHANGED <<flags, blocks, patchedDrive, driveKnown, lastDICVR, polling, irqOn, state,
                       lied>>
  BY DEF ReadID
<1>2. Running /\ Top.pc = "readid" /\ flaky' \in BOOLEAN
  BY <1>1, ReturnsIs, Places
<1>3. stack \in Seq(Frame) /\ stack # <<>> /\ FlagsTyped
  BY <1>2, RunningIs, TypesAre
<1>4. ~Opened(Top) /\ lastDICVR = FALSE
  BY <1>2, ClosedIs, Places
<1>5. SetTo("idstatus")
  <2>1. "empty" \in Media /\ r \in Results \cup Statuses \cup {"none"} /\ "idstatus" \in Pcs
    BY Places DEF Media
  <2>2. QED
    BY <1>1, <1>3, <2>1, SetIs
<1>6. Onward
  <2>1. bdevRegistered = FALSE
    BY <1>2, <1>4, BringIs, Places
  <2>2. "idstatus" \in Bringing \ {"waitstatus", "size", "unwedge", "inquiry"}
    BY DEF Bringing
  <2>3. QED
    BY <1>1, <1>2, <1>4, <1>5, <2>1, <2>2, GoesOn, Places DEF blocks
<1>7. FlagsTyped'
  BY <1>1, <1>2, <1>3 DEF FlagsTyped, flags
<1>8. QED
  BY <1>1, <1>4, <1>6, <1>7, CommandKept, Places

LEMMA IDStatusKept == ASSUME DiscInv, IDStatus PROVE DiscInv'
<1>1. PICK r \in Results :
        /\ Returns("idstatus", r)
        /\ IF console = "gamecube" /\ patchedGCNMedia /\ Classify(Top.id, ReadStatus(r)) # "original"
           THEN /\ Set([Before(Top, "v0") EXCEPT !.media = Classify(Top.id, ReadStatus(r)),
                                                 !.id = ReadStatus(r)])
                /\ UNCHANGED flags
           ELSE Dispatch(Classify(Top.id, ReadStatus(r)), ReadStatus(r))
        /\ UNCHANGED <<blocks, patchedDrive, driveKnown, lastDICVR, polling, irqOn, state, lied>>
  BY DEF IDStatus
<1>2. Running /\ Top.pc = "idstatus" /\ flaky' \in BOOLEAN
  BY <1>1, ReturnsIs, Places
<1>3. TypeOK /\ stack \in Seq(Frame) /\ stack # <<>> /\ FlagsTyped /\ immbuf \in Statuses
  BY <1>2, RunningIs, TypesAre, Types
<1> DEFINE status == ReadStatus(r)
           media == Classify(Top.id, status)
<1>4. status \in Statuses /\ media \in Media
  BY <1>3 DEF ReadStatus, Classify, Media, Statuses
<1>5. Choice /\ mediaValidated' \in BOOLEAN /\ usingWiiDVDRRead' \in BOOLEAN
      /\ patchedGCNMedia' \in BOOLEAN
  <2>1. \/ Set([Before(Top, "v0") EXCEPT !.media = media, !.id = status]) /\ UNCHANGED flags
        \/ Dispatch(media, status)
    BY <1>1
  <2> HIDE DEF media, status
  <2>2. CASE Set([Before(Top, "v0") EXCEPT !.media = media, !.id = status]) /\ UNCHANGED flags
    <3>1. "v0" \in Pcs /\ status \in Results \cup Statuses \cup {"none"}
      BY <1>4, Places
    <3>2. SetTo("v0")
      BY <1>3, <1>4, <2>2, <3>1, SetIs
    <3>3. QED
      BY <1>3, <2>2, <3>2 DEF Choice, FlagsTyped, flags
  <2>3. CASE Dispatch(media, status)
    BY <1>3, <1>4, <2>3, DispatchIs
  <2>4. QED
    BY <2>1, <2>2, <2>3
<1>6. Onward /\ ~Opened(Top)
  BY <1>1, <1>2, <1>5, ChoiceIs, ClosedIs, Places DEF blocks
<1>7. FlagsTyped'
  BY <1>1, <1>2, <1>3, <1>5 DEF FlagsTyped
<1>8. QED
  BY <1>1, <1>6, <1>7, CommandKept, Places

\* A disc that was read from is the one that is in the drive, and the size
\* of it is asked next.
LEMMA ValidatedIs ==
  ASSUME DiscInv, NEW pc \in {"v0", "v16"}, Returns(pc, "ok"), Validated,
         UNCHANGED <<patchedDrive, lastDICVR, polling, state>>
  PROVE  Onward /\ mediaValidated' \in BOOLEAN /\ UNCHANGED <<usingWiiDVDRRead, patchedGCNMedia>>
<1>1. pc \in Commands /\ pc \in Dma /\ pc \in Bringing \ {"status"} /\ pc \in Probing
      /\ "ok" \in Results
  BY Places DEF Dma, Results
<1>2. /\ Running /\ Top.pc = pc /\ UNCHANGED <<lid, disc, console, halted, missed>>
      /\ Top.clob = FALSE => Top.out = "good"
  BY <1>1, ReturnsIs
<1>3. ~Opened(Top) /\ lastDICVR = FALSE
  BY <1>1, <1>2, ClosedIs
<1>4. bdev = FALSE /\ bdevRegistered = FALSE /\ Top.clob = FALSE
  BY <1>1, <1>2, <1>3, BringIs
<1>5. /\ Going /\ stack \in Seq(Frame) /\ stack # <<>> /\ Top = stack[Len(stack)]
      /\ Len(stack) \in DOMAIN stack
  BY <1>2, RunningIs
<1>6. Still => Readable
  BY <1>2, <1>4, <1>5 DEF Going, Fit
<1>7. /\ Set([Before(Top, "size") EXCEPT !.media = "unknown", !.id = "none"])
      /\ mediaValidated' = TRUE /\ bdev' = FALSE /\ bdevRegistered' = FALSE
      /\ UNCHANGED <<usingWiiDVDRRead, patchedGCNMedia>>
  BY <1>4 DEF Validated
<1>8. Still' => Readable'
  BY <1>2, <1>6, <1>7 DEF Still, Readable
<1>9. SetTo("size")
  <2>1. "size" \in Pcs /\ "unknown" \in Media /\ "none" \in Results \cup Statuses \cup {"none"}
    BY Places DEF Media
  <2>2. QED
    BY <1>5, <1>7, <2>1, SetIs
<1>10. "size" \in Bringing /\ "size" \notin {"unwedge", "inquiry", "queue", "waitstatus", "register"}
  BY DEF Bringing
<1>11. Onward
  BY <1>3, <1>7, <1>8, <1>9, <1>10 DEF Onward
<1>12. QED
  BY <1>7, <1>11

LEMMA Validate0Kept == ASSUME DiscInv, Validate0 PROVE DiscInv'
<1>1. PICK r \in Results : \E interesting \in BOOLEAN :
        /\ Returns("v0", r)
        /\ IF r = "ok" /\ interesting
           THEN Validated
           ELSE Goto("v16") /\ UNCHANGED <<flags, blocks>>
        /\ UNCHANGED <<patchedDrive, driveKnown, lastDICVR, polling, irqOn, state, lied>>
  BY DEF Validate0
<1>2. /\ Returns("v0", r)
      /\ (r = "ok" /\ Validated) \/ (Goto("v16") /\ UNCHANGED <<flags, blocks>>)
      /\ UNCHANGED <<patchedDrive, driveKnown, lastDICVR, polling, irqOn, state, lied>>
  BY <1>1
<1>3. Running /\ Top.pc = "v0" /\ flaky' \in BOOLEAN
  BY <1>1, ReturnsIs, Places
<1>4. stack \in Seq(Frame) /\ stack # <<>> /\ FlagsTyped
  BY <1>3, RunningIs, TypesAre
<1>5. ~Opened(Top) /\ lastDICVR = FALSE
  BY <1>3, ClosedIs, Places
<1>6. Onward /\ mediaValidated' \in BOOLEAN /\ UNCHANGED <<usingWiiDVDRRead, patchedGCNMedia>>
  <2>1. CASE r = "ok" /\ Validated
    BY <1>2, <2>1, ValidatedIs
  <2>2. CASE Goto("v16") /\ UNCHANGED <<flags, blocks>>
    <3>1. SetTo("v16")
      BY <1>4, <2>2, GotoIs, Places
    <3>2. bdevRegistered = FALSE
      BY <1>3, <1>5, BringIs, Places
    <3>3. "v16" \in Bringing \ {"waitstatus", "size", "unwedge", "inquiry"}
      BY DEF Bringing
    <3>4. Onward
      BY <1>2, <1>3, <1>5, <2>2, <3>1, <3>2, <3>3, GoesOn, Places DEF blocks
    <3>5. QED
      BY <1>4, <2>2, <3>4 DEF flags, FlagsTyped
  <2>3. QED
    BY <1>2, <2>1, <2>2
<1>7. FlagsTyped'
  BY <1>2, <1>3, <1>4, <1>6 DEF FlagsTyped
<1>8. QED
  BY <1>2, <1>5, <1>6, <1>7, CommandKept, Places

LEMMA Validate16Kept == ASSUME DiscInv, Validate16 PROVE DiscInv'
<1>1. PICK r \in Results :
        /\ Returns("v16", r)
        /\ \/ r = "ok" /\ Validated
           \/ /\ r # "ok" \/ Top.out # "good"
              /\ IF Top.media \in {"original", "rejected"}
                 THEN EndProbe /\ mediaValidated' = FALSE
                      /\ UNCHANGED <<usingWiiDVDRRead, patchedGCNMedia>>
                 ELSE Dispatch(Top.media, Top.id)
              /\ UNCHANGED blocks
        /\ UNCHANGED <<patchedDrive, driveKnown, lastDICVR, polling, irqOn, state, lied>>
  BY DEF Validate16
<1>2. Running /\ Top.pc = "v16" /\ flaky' \in BOOLEAN
  BY <1>1, ReturnsIs, Places
<1>3. TypeOK /\ stack \in Seq(Frame) /\ stack # <<>> /\ FlagsTyped /\ Top.media \in Media
  BY <1>2, RunningIs, TypesAre DEF Frame
<1>4. ~Opened(Top) /\ lastDICVR = FALSE
  BY <1>2, ClosedIs, Places
<1>5. /\ Onward /\ mediaValidated' \in BOOLEAN /\ usingWiiDVDRRead' \in BOOLEAN
      /\ patchedGCNMedia' \in BOOLEAN
  <2>1. CASE r = "ok" /\ Validated
    BY <1>1, <1>3, <2>1, ValidatedIs DEF FlagsTyped
  <2>2. CASE /\ EndProbe /\ mediaValidated' = FALSE
             /\ UNCHANGED <<usingWiiDVDRRead, patchedGCNMedia>> /\ UNCHANGED blocks
    <3>1. Choice
      BY <1>3, <2>2, EndProbeIs DEF Choice
    <3>2. Onward
      BY <1>1, <1>2, <2>2, <3>1, ChoiceIs, Places DEF blocks
    <3>3. QED
      BY <1>3, <2>2, <3>2 DEF FlagsTyped
  <2>3. CASE Dispatch(Top.media, Top.id) /\ UNCHANGED blocks
    <3>1. /\ Choice /\ mediaValidated' \in BOOLEAN /\ usingWiiDVDRRead' \in BOOLEAN
          /\ patchedGCNMedia' \in BOOLEAN
      BY <1>3, <2>3, DispatchIs
    <3>2. Onward
      BY <1>1, <1>2, <2>3, <3>1, ChoiceIs, Places DEF blocks
    <3>3. QED
      BY <3>1, <3>2
  <2>4. QED
    BY <1>1, <2>1, <2>2, <2>3
<1>6. FlagsTyped'
  BY <1>1, <1>2, <1>3, <1>5 DEF FlagsTyped
<1>7. QED
  BY <1>1, <1>4, <1>5, <1>6, CommandKept, Places

LEMMA ReadDiscSizeKept == ASSUME DiscInv, ReadDiscSize PROVE DiscInv'
<1>1. PICK r \in Results :
        /\ Returns("size", r)
        /\ IF r = "ok" \/ console = "gamecube"
           THEN Goto("register") /\ bdev' = TRUE
           ELSE EndProbe /\ UNCHANGED bdev
        /\ UNCHANGED <<flags, bdevRegistered, patchedDrive, driveKnown, lastDICVR, polling, irqOn,
                       state, lied>>
  BY DEF ReadDiscSize
<1>2. /\ Running /\ Top.pc = "size" /\ flaky' \in BOOLEAN
      /\ UNCHANGED <<lid, disc, console, halted, missed>>
  BY <1>1, ReturnsIs, Places
<1>3. /\ Going /\ stack \in Seq(Frame) /\ stack # <<>> /\ FlagsTyped /\ Top = stack[Len(stack)]
      /\ Len(stack) \in DOMAIN stack
  BY <1>2, RunningIs, TypesAre
<1>4. ~Opened(Top) /\ lastDICVR = FALSE
  BY <1>2, ClosedIs, Places
<1>5. bdevRegistered = FALSE
  BY <1>2, <1>4, BringIs, Places
<1>6. Onward
  <2>1. CASE Goto("register") /\ bdev' = TRUE
    <3>1. SetTo("register")
      BY <1>3, <2>1, GotoIs DEF Pcs
    <3>2. Still => Readable
      BY <1>2, <1>3 DEF Going, Fit
    <3>3. UNCHANGED <<usingWiiDVDRRead, patchedDrive, lastDICVR>>
      BY <1>1 DEF flags
    <3>4. Still' => Readable'
      BY <1>2, <3>2, <3>3 DEF Still, Readable
    <3>5. /\ polling' = polling /\ bdevRegistered' = FALSE /\ lastDICVR' = FALSE
          /\ lastDICVR' = lastDICVR /\ state' = state /\ bdev' = TRUE
      BY <1>1, <1>4, <1>5, <2>1
    <3>6. /\ "register" \in Bringing \cup {"queue", "register"}
          /\ "register" \notin {"unwedge", "inquiry", "queue"} /\ "register" # "waitstatus"
      OBVIOUS
    <3>7. \E to \in Bringing \cup {"queue", "register"} :
            /\ SetTo(to) /\ state' = state
            /\ (to = "register" => bdev' = TRUE) /\ (to # "register" => bdev' = FALSE)
            /\ Top.fn = "poller" => to \notin {"unwedge", "inquiry", "queue"}
            /\ to \in Probing => lastDICVR' = FALSE
            /\ to \in {"size", "register"} => (Still' => Readable')
            /\ Top.fn = "init" /\ to = "waitstatus" => Quiet'
      BY <3>1, <3>4, <3>5, <3>6, Zenon
    <3>8. QED
      BY <3>5, <3>7 DEF Onward
  <2>2. CASE EndProbe /\ UNCHANGED bdev
    <3>1. Ended
      BY <1>3, <2>2, EndProbeIs
    <3>2. QED
      BY <1>1, <1>2, <1>4, <1>5, <2>2, <3>1, EndsIs, Places
  <2>3. QED
    BY <1>1, <2>1, <2>2
<1>7. FlagsTyped'
  BY <1>1, <1>2, <1>3 DEF FlagsTyped, flags
<1>8. QED
  BY <1>1, <1>4, <1>6, <1>7, CommandKept, Places

LEMMA ApplyPatchesKept == ASSUME DiscInv, ApplyPatches PROVE DiscInv'
<1>1. PICK r \in Results :
        /\ Returns("patch", r)
        /\ IF r = "ok"
           THEN /\ patchedGCNMedia' = TRUE /\ patchedDrive' = TRUE
                /\ Goto("unlock")
           ELSE /\ EndProbe
                /\ patchedDrive' = FALSE /\ UNCHANGED patchedGCNMedia
        /\ UNCHANGED <<mediaValidated, usingWiiDVDRRead, blocks, driveKnown, lastDICVR, polling,
                       irqOn, state, lied>>
  BY DEF ApplyPatches
<1>2. Running /\ Top.pc = "patch" /\ flaky' \in BOOLEAN
  BY <1>1, ReturnsIs, Places
<1>3. stack \in Seq(Frame) /\ stack # <<>> /\ FlagsTyped
  BY <1>2, RunningIs, TypesAre
<1>4. ~Opened(Top) /\ lastDICVR = FALSE
  BY <1>2, ClosedIs, Places
<1>5. bdevRegistered = FALSE
  BY <1>2, <1>4, BringIs, Places
<1>6. Onward /\ patchedGCNMedia' \in BOOLEAN /\ patchedDrive' \in BOOLEAN
  <2>1. CASE patchedGCNMedia' = TRUE /\ patchedDrive' = TRUE /\ Goto("unlock")
    <3>1. SetTo("unlock")
      BY <1>3, <2>1, GotoIs, Places
    <3>2. "unlock" \in Bringing \ {"waitstatus", "size", "unwedge", "inquiry"}
      BY DEF Bringing
    <3>3. QED
      BY <1>1, <1>2, <1>4, <1>5, <2>1, <3>1, <3>2, GoesOn, Places DEF blocks
  <2>2. CASE EndProbe /\ patchedDrive' = FALSE /\ UNCHANGED patchedGCNMedia
    <3>1. Ended
      BY <1>3, <2>2, EndProbeIs
    <3>2. Onward
      BY <1>1, <1>2, <1>4, <1>5, <3>1, EndsIs, Places DEF blocks
    <3>3. QED
      BY <1>3, <2>2, <3>2 DEF FlagsTyped
  <2>3. QED
    BY <1>1, <2>1, <2>2
<1>7. FlagsTyped'
  BY <1>1, <1>2, <1>3, <1>6 DEF FlagsTyped
<1>8. QED
  BY <1>1, <1>4, <1>6, <1>7, CommandKept, Places

LEMMA ProbeGoes ==
  ASSUME DiscInv, Running, Top.pc \in Bringing, ~Opened(Top), ProbeNewMedia,
         UNCHANGED <<bdev, polling, state, bdevRegistered>>, lastDICVR' = FALSE,
         lastDICVR' = lastDICVR \/ Top.fn = "init"
  PROVE  Onward /\ mediaValidated' \in BOOLEAN /\ UNCHANGED <<usingWiiDVDRRead, patchedGCNMedia>>
<1>1. TypeOK /\ stack # <<>> /\ bdevRegistered = FALSE
  BY RunningIs, BringIs
<1>2. /\ SetTo("unlock") \/ SetTo("readid")
      /\ mediaValidated' \in BOOLEAN /\ UNCHANGED <<usingWiiDVDRRead, patchedGCNMedia>>
  BY <1>1, ProbeIs
<1>3. \A to \in {"unlock", "readid"} : to \in Bringing \ {"waitstatus", "size", "unwedge", "inquiry"}
  BY DEF Bringing
<1>4. \A to \in {"unlock", "readid"} : SetTo(to) => Onward
  BY <1>1, <1>3, GoesOn
<1>5. QED
  BY <1>2, <1>4

LEMMA IdleLetsGo ==
  ASSUME DiscInv, Running, engine' = Idle, residual' = residual
  PROVE  LetGo /\ Quiet'
<1>1. Len(stack) # 0 /\ 0 \in 0..MaxNesting
  BY RunningIs, DiscAssumption
<1>2. /\ engine'.by = 0 /\ engine'.busy = FALSE /\ engine'.dma = FALSE
      /\ engine' \in [busy : BOOLEAN, dma : BOOLEAN, by : 0..MaxNesting]
  <2> DEFINE N == 0..MaxNesting
  <2>1. 0 \in N
    BY <1>1
  <2> HIDE DEF N
  <2>2. engine' \in [busy : BOOLEAN, dma : BOOLEAN, by : N]
    BY <2>1 DEF Idle
  <2>3. engine' \in [busy : BOOLEAN, dma : BOOLEAN, by : 0..MaxNesting]
    BY <2>2 DEF N
  <2>4. QED
    BY <2>3 DEF Idle
<1>3. QED
  BY <1>1, <1>2 DEF LetGo, Quiet

LEMMA Panics ==
  ASSUME DiscInv, halted' = "panic", lied' = lied, bdevRegistered' = FALSE,
         StackTyped', WireTyped', FlagsTyped', DriverTyped'
  PROVE  DiscInv'
<1>1. TypeOK'
  BY TypesAreNext
<1>2. HandoverQuiet'
  BY DEF HandoverQuiet
<1>3. ~lied'
  BY DEF DiscInv
<1>4. QED
  BY <1>1, <1>2, <1>3 DEF DiscInv

LEMMA SetToTyped ==
  ASSUME TypeOK, stack # <<>>, NEW pc, SetTo(pc)
  PROVE  StackTyped'
<1>1. stack \in Seq(Frame) /\ Len(stack) <= MaxNesting
  BY Types
<1>2. PICK e \in Frame : stack' = [stack EXCEPT ![Len(stack)] = e]
  BY DEF SetTo
<1>3. stack' \in Seq(Frame) /\ Len(stack') = Len(stack)
  BY <1>1, <1>2, PutTop
<1>4. QED
  BY <1>1, <1>3 DEF StackTyped

LEMMA InitUnwedgeKept == ASSUME DiscInv, InitUnwedge PROVE DiscInv'
<1>1. /\ Running /\ Top.pc = "unwedge" /\ diUnwedge("no") /\ Goto("reset")
      /\ UNCHANGED <<hardware, sr, residual, flags, blocks, console, driveKnown, lastDICVR,
                     polling, irqOn, state, lied, missed, flaky>>
  BY DEF InitUnwedge
<1>2. UNCHANGED <<lid, disc, patchedDrive, immbuf, bdev, bdevRegistered,
                  mediaValidated, usingWiiDVDRRead, patchedGCNMedia>>
  BY <1>1 DEF hardware, blocks, flags
<1>3. /\ TypeOK /\ stack \in Seq(Frame) /\ stack # <<>> /\ halted = "no"
      /\ FlagsTyped /\ WireTyped /\ DriverTyped
  BY <1>1, RunningIs, TypesAre
<1>4. "unwedge" \in Bringing \ {"status"} /\ "reset" \in Bringing /\ "reset" \in Pcs
      /\ "reset" \notin Probing \cup {"waitstatus", "size", "register", "unwedge", "inquiry", "queue"}
  BY DEF Bringing, Pcs, Probing
<1>5. ~Opened(Top)
  BY <1>1, <1>4, ClosedIs
<1>6. SetTo("reset") /\ bdev = FALSE /\ bdevRegistered = FALSE
  BY <1>1, <1>3, <1>4, <1>5, GotoIs, BringIs
<1>7. Onward
  BY <1>1, <1>2, <1>3, <1>4, <1>6 DEF Onward, DriverTyped
<1>8. FlagsTyped'
  BY <1>1, <1>2, <1>3 DEF FlagsTyped
<1>9. CASE engine' = Idle /\ halted' = "no"
  <2>1. LetGo
    BY <1>1, <1>9, IdleLetsGo
  <2>2. WireTyped'
    BY <1>1, <1>2, <1>3, <2>1 DEF LetGo, WireTyped
  <2>3. QED
    BY <1>1, <1>2, <1>3, <1>4, <1>5, <1>7, <1>8, <1>9, <2>1, <2>2, OnwardKept
<1>10. CASE engine.busy /\ engine' = engine /\ halted' = "panic"
  <2>1. WireTyped'
    BY <1>1, <1>2, <1>3, <1>10 DEF WireTyped
  <2>2. DriverTyped'
    BY <1>1, <1>2, <1>3, <1>10 DEF DriverTyped
  <2>3. StackTyped'
    BY <1>3, <1>6, SetToTyped
  <2>4. QED
    BY <1>1, <1>2, <1>6, <1>8, <1>10, <2>1, <2>2, <2>3, Panics
<1>11. QED
  BY <1>1, <1>9, <1>10 DEF diUnwedge

LEMMA ResetKept == ASSUME DiscInv, Reset PROVE DiscInv'
<1>1. /\ Running /\ Top.pc = "reset" /\ engine' = Idle /\ sr' = FALSE /\ patchedDrive' = FALSE
      /\ \/ Goto("waitstatus") /\ UNCHANGED flaky
         \/ Top.fn = "init" /\ Return /\ flaky' = TRUE
      /\ UNCHANGED <<lid, disc, immbuf, residual, flags, blocks, control>>
  BY DEF Reset
<1>2. UNCHANGED <<lid, disc, immbuf, bdev, bdevRegistered, mediaValidated, usingWiiDVDRRead,
                  patchedGCNMedia, console, driveKnown, lastDICVR, polling, irqOn, state, halted,
                  lied, missed>>
  BY <1>1 DEF blocks, flags, control
<1>3. TypeOK /\ stack \in Seq(Frame) /\ stack # <<>> /\ FlagsTyped /\ WireTyped /\ DriverTyped
  BY <1>1, RunningIs, TypesAre
<1>4. /\ "reset" \in Bringing \ {"status"} /\ "waitstatus" \in Bringing /\ "waitstatus" \in Pcs
      /\ "waitstatus" \notin Probing \cup {"size", "register", "unwedge", "inquiry", "queue"}
  BY Places DEF Bringing, Probing
<1>5. ~Opened(Top)
  BY <1>1, <1>4, ClosedIs
<1>6. bdev = FALSE /\ bdevRegistered = FALSE
  BY <1>1, <1>4, <1>5, BringIs
<1>7. LetGo /\ Quiet'
  BY <1>1, IdleLetsGo
<1>8. Onward
  <2>1. CASE Goto("waitstatus")
    <3>1. SetTo("waitstatus")
      BY <1>3, <1>4, <2>1, GotoIs
    <3>2. QED
      BY <1>2, <1>3, <1>4, <1>6, <1>7, <3>1 DEF Onward, DriverTyped
  <2>2. CASE Return
    BY <1>2, <1>3, <1>6, <2>2 DEF Onward, Return, DriverTyped
  <2>3. QED
    BY <1>1, <2>1, <2>2
<1>9. FlagsTyped'
  BY <1>1, <1>2, <1>3 DEF FlagsTyped
<1>10. WireTyped'
  BY <1>1, <1>2, <1>3, <1>7 DEF LetGo, WireTyped
<1>11. QED
  BY <1>1, <1>2, <1>4, <1>5, <1>7, <1>8, <1>9, <1>10, OnwardKept

LEMMA WaitForStatusKept == ASSUME DiscInv, WaitForStatus PROVE DiscInv'
<1>1. PICK r \in Results :
        /\ Returns("waitstatus", r)
        /\ \/ /\ r = "ok" /\ UNCHANGED state
              /\ IF Top.fn = "init" THEN Goto("inquiry") /\ UNCHANGED flags ELSE ProbeNewMedia
           \/ r # "ok" /\ Goto("waitstatus") /\ UNCHANGED <<flags, state>>
           \/ /\ r # "ok" /\ Return /\ UNCHANGED flags
              /\ state' = IF Top.fn = "init" THEN "nohardware" ELSE state
        /\ UNCHANGED <<blocks, patchedDrive, driveKnown, lastDICVR, polling, irqOn, lied>>
  BY DEF WaitForStatus
<1>2. Running /\ Top.pc = "waitstatus" /\ flaky' \in BOOLEAN /\ LetGo
  BY <1>1, ReturnsIs, Places
<1>3. /\ TypeOK /\ Going /\ stack \in Seq(Frame) /\ stack # <<>> /\ FlagsTyped /\ DriverTyped
      /\ Top = stack[Len(stack)] /\ Len(stack) \in DOMAIN stack
  BY <1>2, RunningIs, TypesAre
<1>4. ~Opened(Top)
  BY <1>2, ClosedIs, Places
<1>5. /\ bdev = FALSE /\ bdevRegistered = FALSE /\ Top.fn \in {"init", "poller"}
      /\ Top.fn = "poller" => lastDICVR = FALSE
  BY <1>2, <1>4, BringIs, Places
<1>6. Top.fn = "init" => Quiet'
  BY <1>2, <1>3 DEF Going, Starting, LetGo
<1>7. /\ "waitstatus" \in Bringing /\ "inquiry" \in Bringing
      /\ "waitstatus" \notin Probing \cup {"size", "register", "unwedge", "inquiry", "queue"}
      /\ "inquiry" \notin Probing \cup {"size", "register", "unwedge", "waitstatus", "queue"}
  BY DEF Bringing, Probing
<1>8. UNCHANGED <<bdev, bdevRegistered, lastDICVR, polling>> /\ lastDICVR \in BOOLEAN
  BY <1>1, <1>3 DEF blocks, DriverTyped
<1>9. Onward /\ mediaValidated' \in BOOLEAN /\ UNCHANGED <<usingWiiDVDRRead, patchedGCNMedia>>
  <2>1. CASE Top.fn = "init" /\ UNCHANGED state /\ Goto("inquiry") /\ UNCHANGED flags
    <3>1. SetTo("inquiry")
      BY <1>3, <2>1, GotoIs, Places
    <3>2. Onward
      BY <1>5, <1>7, <1>8, <2>1, <3>1 DEF Onward
    <3>3. QED
      BY <1>3, <2>1, <3>2 DEF flags, FlagsTyped
  <2>2. CASE Top.fn # "init" /\ UNCHANGED state /\ ProbeNewMedia
    BY <1>2, <1>4, <1>5, <1>7, <1>8, <2>2, ProbeGoes
  <2>3. CASE Goto("waitstatus") /\ UNCHANGED <<flags, state>>
    <3>1. SetTo("waitstatus")
      BY <1>3, <2>3, GotoIs, Places
    <3>2. Onward
      BY <1>5, <1>6, <1>7, <1>8, <2>3, <3>1 DEF Onward
    <3>3. QED
      BY <1>3, <2>3, <3>2 DEF flags, FlagsTyped
  <2>4. CASE Return /\ UNCHANGED flags /\ state' = IF Top.fn = "init" THEN "nohardware" ELSE state
    <3>1. Onward
      BY <1>5, <1>6, <1>8, <2>4 DEF Onward, Return
    <3>2. QED
      BY <1>3, <2>4, <3>1 DEF flags, FlagsTyped
  <2>5. QED
    BY <1>1, <2>1, <2>2, <2>3, <2>4
<1>10. FlagsTyped'
  BY <1>1, <1>2, <1>3, <1>9 DEF FlagsTyped
<1>11. QED
  BY <1>1, <1>4, <1>7, <1>9, <1>10, CommandKept, Places

LEMMA InquiryKept == ASSUME DiscInv, Inquiry PROVE DiscInv'
<1>1. PICK r \in Results :
        /\ Returns("inquiry", r)
        /\ Goto("status")
        /\ driveKnown' \in {FALSE, r = "ok"}
        /\ mediaValidated' = FALSE /\ usingWiiDVDRRead' = FALSE /\ patchedGCNMedia' = FALSE
        /\ irqOn' = TRUE
        /\ UNCHANGED <<blocks, patchedDrive, lastDICVR, polling, state, lied>>
  BY DEF Inquiry
<1>2. Running /\ Top.pc = "inquiry" /\ flaky' \in BOOLEAN
  BY <1>1, ReturnsIs, Places
<1>3. TypeOK /\ stack \in Seq(Frame) /\ stack # <<>> /\ FlagsTyped /\ DriverTyped
  BY <1>2, RunningIs, TypesAre
<1>4. ~Opened(Top) /\ "inquiry" \in Bringing
  BY <1>2, ClosedIs, Places
<1>5. bdev = FALSE /\ bdevRegistered = FALSE
  BY <1>2, <1>4, BringIs
<1>6. /\ "status" \in Bringing
      /\ "status" \notin Probing \cup {"size", "register", "unwedge", "inquiry", "waitstatus", "queue"}
  BY DEF Bringing, Probing
<1>7. Onward
  <2>1. SetTo("status")
    BY <1>1, <1>3, GotoIs, Places
  <2>2. UNCHANGED <<bdev, bdevRegistered, lastDICVR, polling, state>> /\ lastDICVR \in BOOLEAN
    BY <1>1, <1>3 DEF blocks, DriverTyped
  <2>3. QED
    BY <1>5, <1>6, <2>1, <2>2 DEF Onward
<1>8. FlagsTyped'
  <2>1. driveKnown' \in BOOLEAN
    BY <1>1
  <2>2. QED
    BY <1>1, <1>2, <1>3, <2>1 DEF FlagsTyped
<1>9. QED
  BY <1>1, <1>4, <1>7, <1>8, CommandKept, Places

LEMMA InitStatusKept == ASSUME DiscInv, InitStatus PROVE DiscInv'
<1>1. PICK r \in Results :
        /\ Returns("status", r) /\ Top.fn = "init"
        /\ lastDICVR' = lid
        /\ IF lid THEN Goto("queue") /\ UNCHANGED flags ELSE ProbeNewMedia
        /\ UNCHANGED <<blocks, patchedDrive, driveKnown, polling, irqOn, state, lied>>
  BY DEF InitStatus
<1>2. Running /\ Top.pc = "status" /\ flaky' \in BOOLEAN
  BY <1>1, ReturnsIs, Places
<1>3. TypeOK /\ stack \in Seq(Frame) /\ stack # <<>> /\ FlagsTyped /\ DriverTyped
  BY <1>2, RunningIs, TypesAre
<1>4. ~Opened(Top) /\ "status" \in Bringing
  BY <1>1 DEF Opened, Bringing
<1>5. bdev = FALSE /\ bdevRegistered = FALSE
  BY <1>2, <1>4, BringIs
<1>6. UNCHANGED <<bdev, bdevRegistered, polling>> /\ lid \in BOOLEAN
  BY <1>1, <1>3 DEF blocks, DriverTyped
<1>7. Onward /\ mediaValidated' \in BOOLEAN /\ UNCHANGED <<usingWiiDVDRRead, patchedGCNMedia>>
  <2>1. CASE lid /\ Goto("queue") /\ UNCHANGED flags
    <3>1. SetTo("queue")
      BY <1>3, <2>1, GotoIs DEF Pcs
    <3>2. "queue" \notin Probing
      BY DEF Probing
    <3>3. Onward
      BY <1>1, <1>5, <1>6, <3>1, <3>2 DEF Onward
    <3>4. QED
      BY <1>3, <2>1, <3>3 DEF flags, FlagsTyped
  <2>2. CASE ~lid /\ ProbeNewMedia
    <3>1. lastDICVR' = FALSE
      BY <1>1, <1>6, <2>2
    <3>2. QED
      BY <1>1, <1>2, <1>4, <1>5, <1>6, <2>2, <3>1, ProbeGoes
  <2>3. QED
    BY <1>1, <2>1, <2>2
<1>8. FlagsTyped'
  BY <1>1, <1>2, <1>3, <1>7 DEF FlagsTyped
<1>9. QED
  BY <1>1, <1>4, <1>7, <1>8, CommandKept, Places

(***************************************************************************)
(* The steps after that, the reads, and the environment.  A call that ends *)
(* or that goes on has let go of the engine; the others are as they were.  *)
(***************************************************************************)
LEMMA DriverAlike ==
  ASSUME TypeOK, UNCHANGED <<console, lid, disc, lastDICVR, lied, missed>>,
         bdev' \in BOOLEAN, bdevRegistered' \in BOOLEAN, polling' \in BOOLEAN,
         state' \in {"cleanable", "nohardware", "ready", "notready"},
         halted' \in {"no", "handover", "panic"}
  PROVE  DriverTyped'
<1>1. DriverTyped
  BY TypesAre
<1>2. QED
  BY <1>1 DEF DriverTyped

LEMMA PopTyped ==
  ASSUME TypeOK, stack # <<>>, stack' = Front(stack)
  PROVE  StackTyped'
<1>1. stack \in Seq(Frame) /\ Len(stack) <= MaxNesting /\ MaxNesting \in Nat
  BY Types, DiscAssumption
<1>2. Len(stack) \in Nat /\ stack' \in Seq(Frame) /\ Len(stack') = Len(stack) - 1
  BY <1>1, PopTop, TopIs
<1>3. QED
  BY <1>1, <1>2 DEF StackTyped

LEMMA LetsGoUnlaunched ==
  ASSUME DiscInv, Running, Top.wait = FALSE, UNCHANGED <<engine, residual>>
  PROVE  LetGo
<1>1. /\ Going /\ TypeOK /\ Top = stack[Len(stack)] /\ Len(stack) \in DOMAIN stack
      /\ Len(stack) \in Nat /\ Len(stack) >= 1
  BY RunningIs
<1>2. engine \in [busy : BOOLEAN, dma : BOOLEAN, by : 0..MaxNesting]
  BY <1>1, Types
<1>3. engine.by # Len(stack)
  BY <1>1 DEF Going, Wired
<1>4. QED
  BY <1>1, <1>2, <1>3 DEF LetGo, Going, Wired, Quiet

\* A call ends; what it was for still holds without it.
LEMMA PopKept ==
  ASSUME DiscInv, Running, stack' = Front(stack), LetGo,
         UNCHANGED <<polling, lastDICVR, lid, missed, disc, console>>,
         bdevRegistered' = FALSE \/ UNCHANGED <<bdevRegistered, usingWiiDVDRRead, patchedDrive>>,
         \A i \in DOMAIN stack : i # Len(stack) /\ stack[i].pc = "register"
           => bdev' = TRUE /\ bdevRegistered' = FALSE
              /\ UNCHANGED <<usingWiiDVDRRead, patchedDrive>>,
         \A i \in DOMAIN stack : i # Len(stack) => stack[i].pc \notin Bringing \/ Opened(stack[i]),
         bdevRegistered' = TRUE => bdev' = TRUE,
         bdev' = TRUE => bdev = TRUE,
         bdev' = TRUE /\ bdevRegistered' = FALSE => bdevRegistered = FALSE,
         bdev' = TRUE => Top.pc # "register",
         Top.fn = "poller" => lastDICVR = FALSE \/ bdev' = FALSE,
         Top.fn = "init" => polling = TRUE \/ bdev' = FALSE,
         state' # "notready", state' # "nohardware"
  PROVE  Going'
<1> DEFINE n == Len(stack)
<1>1. /\ Going /\ TypeOK /\ stack \in Seq(Frame) /\ Top = stack[n] /\ Top \in Frame
      /\ n \in DOMAIN stack /\ DOMAIN stack = 1..n /\ stack # <<>> /\ n \in Nat /\ n >= 1
  BY RunningIs
<1>2. /\ stack' \in Seq(Frame) /\ Len(stack') = n - 1 /\ DOMAIN stack' = 1..(n - 1)
      /\ \A i \in DOMAIN stack' : i \in DOMAIN stack /\ i # n /\ stack'[i] = stack[i]
      /\ \A i \in DOMAIN stack : i # n => i \in DOMAIN stack'
  BY <1>1, PopTop
<1>3. bdev \in BOOLEAN /\ bdevRegistered \in BOOLEAN /\ lastDICVR \in BOOLEAN
  BY <1>1, Types
<1> HIDE DEF n
<1>4. Shaped'
  BY <1>1, <1>2 DEF Going, Shaped
<1>5. \A i \in DOMAIN stack' : stack'[i].pc \in Bringing => Opened(stack'[i])
  BY <1>2 DEF n
<1>6. \A i \in DOMAIN stack' : stack'[i].pc \in Probing => stack'[i].pc = "register"
  <2>1. \A i \in DOMAIN stack' : Opened(stack'[i]) => stack'[i].pc = "status"
    BY <1>4 DEF Shaped, Opened
  <2>2. QED
    BY <1>5, <2>1 DEF Probing, Bringing
<1>7. Slot'
  <2>1. bdev' = TRUE /\ bdevRegistered' = FALSE => \E i \in DOMAIN stack' : stack'[i].pc = "register"
    BY <1>1, <1>2 DEF Going, Slot
  <2>2. lastDICVR' = TRUE /\ bdev' = TRUE => \E i \in DOMAIN stack' : stack'[i].fn = "poller"
    BY <1>1, <1>2 DEF Going, Slot
  <2>3. polling' = FALSE /\ bdev' = TRUE => \E i \in DOMAIN stack' : stack'[i].fn = "init"
    BY <1>1, <1>2 DEF Going, Slot
  <2>4. \A i \in DOMAIN stack' : stack'[i].pc = "register" => bdev' = TRUE /\ bdevRegistered' = FALSE
    BY <1>2 DEF n
  <2>5. \A i \in DOMAIN stack' : stack'[i].pc \in Probing => lastDICVR' = FALSE
    BY <1>1, <1>2 DEF Going, Slot
  <2>6. QED
    BY <1>5, <2>1, <2>2, <2>3, <2>4, <2>5 DEF Slot
<1>8. Wired'
  <2>1. engine'.by # n /\ (engine'.by = 0 \/ engine'.by = engine.by) /\ (engine'.busy = FALSE => engine'.by = 0)
    BY DEF LetGo, n
  <2>2. QED
    BY <1>1, <1>2, <2>1 DEF Going, Wired
<1>9. Told'
  <2>1. residual' = residual
    BY DEF LetGo
  <2>2. QED
    BY <1>1, <1>2, <2>1 DEF Going, Told
<1>10. Fit'
  <2>1. Still' <=> Still
    BY DEF Still
  <2>2. UNCHANGED <<usingWiiDVDRRead, patchedDrive>> => (Readable' <=> Readable)
    BY DEF Readable
  <2>3. bdevRegistered' = TRUE => (Still' => Readable')
    <3>1. bdevRegistered' = TRUE => bdevRegistered = TRUE /\ (Readable' <=> Readable)
      BY <2>2
    <3>2. QED
      BY <1>1, <2>1, <3>1 DEF Going, Fit
  <2>4. ASSUME NEW i \in DOMAIN stack',
               \/ stack'[i].pc \in {"size", "register"}
               \/ stack'[i].pc \in {"v0", "v16"} /\ stack'[i].out = "good"
        PROVE  Still' => Readable'
    <3>1. stack'[i].pc = "register"
      BY <1>6, <2>4 DEF Probing
    <3>2. UNCHANGED <<usingWiiDVDRRead, patchedDrive>> /\ stack[i].pc = "register" /\ i \in DOMAIN stack
      BY <1>2, <3>1 DEF n
    <3>3. QED
      BY <1>1, <2>1, <2>2, <3>2 DEF Going, Fit
  <2>5. QED
    BY <2>3, <2>4 DEF Fit
<1>11. Starting'
  <2>1. \A i \in DOMAIN stack' : stack'[i].fn = "init" => stack'[i].pc # "waitstatus"
    BY <1>5 DEF Bringing, Opened
  <2>2. QED
    BY <2>1 DEF Starting
<1>12. QED
  BY <1>4, <1>7, <1>8, <1>9, <1>10, <1>11 DEF Going

LEMMA OthersIs ==
  ASSUME DiscInv, Running
  PROVE  /\ \A i \in DOMAIN stack : i # Len(stack) => stack[i].pc \notin Bringing \/ Opened(stack[i])
         /\ \A i \in DOMAIN stack : stack[i].pc = "register" => bdev = TRUE /\ bdevRegistered = FALSE
         /\ state # "notready" /\ state # "nohardware"
  BY RunningIs DEF Going, Slot, Starting

LEMMA ReadKept == ASSUME DiscInv, diRead PROVE DiscInv'
<1>1. PICK r \in Results :
        /\ Returns("read", r)
        /\ lied' = (lied \/ (r = "ok" /\ Top.out # "good" /\ ~Top.clob))
        /\ Return
        /\ UNCHANGED <<flags, blocks, patchedDrive, driveKnown, lastDICVR, polling, irqOn, state>>
  BY DEF diRead
<1>2. "read" \in Commands /\ "read" \in Dma
  BY DEF Commands, Dma
<1>3. /\ Running /\ Top.pc = "read" /\ LetGo /\ WireTyped' /\ flaky' \in BOOLEAN
      /\ UNCHANGED <<lid, disc, console, halted, missed>>
      /\ r = "ok" /\ Top.clob = FALSE => Top.out = "good"
  BY <1>1, <1>2, ReturnsIs
<1>4. /\ Going /\ TypeOK /\ stack # <<>> /\ halted = "no" /\ FlagsTyped /\ Top \in Frame
      /\ Top = stack[Len(stack)] /\ Len(stack) \in DOMAIN stack
      /\ stack \in Seq(Frame)
  BY <1>3, RunningIs, TypesAre
<1>5. Top.clob \in BOOLEAN /\ Top.fn = "read"
  BY <1>3, <1>4 DEF Frame, Going, Shaped
<1>6. lied' = lied
  BY <1>1, <1>3, <1>4, <1>5, Types DEF DiscInv
<1>7. /\ UNCHANGED <<bdev, bdevRegistered, lastDICVR, polling, state, patchedDrive, driveKnown, irqOn,
                     mediaValidated, usingWiiDVDRRead, patchedGCNMedia>>
      /\ stack' = Front(stack)
  BY <1>1 DEF blocks, flags, Return
<1>8. Going'
  <2>1. bdevRegistered = TRUE => bdev = TRUE
    BY <1>4 DEF Going, Slot
  <2>2. QED
    BY <1>3, <1>5, <1>7, <2>1, OthersIs, PopKept
<1>9. FlagsTyped'
  BY <1>3, <1>4, <1>7 DEF FlagsTyped
<1>10. DriverTyped'
  BY <1>3, <1>4, <1>6, <1>7, Types, DriverAlike
<1>11. QED
  BY <1>3, <1>4, <1>6, <1>7, <1>8, <1>9, <1>10, PopTyped, Keeps

LEMMA ReadyKept == ASSUME DiscInv, Ready PROVE DiscInv'
<1>1. PICK r \in Results :
        /\ Returns("status2", r)
        /\ state' = "ready" /\ Return
        /\ UNCHANGED <<flags, blocks, patchedDrive, driveKnown, lastDICVR, polling, irqOn, lied>>
  BY DEF Ready
<1>2. "status2" \in Commands
  BY DEF Commands
<1>3. /\ Running /\ Top.pc = "status2" /\ LetGo /\ WireTyped' /\ flaky' \in BOOLEAN
      /\ UNCHANGED <<lid, disc, console, halted, missed>>
  BY <1>1, <1>2, ReturnsIs
<1>4. /\ Going /\ TypeOK /\ stack # <<>> /\ halted = "no" /\ FlagsTyped /\ Top \in Frame
      /\ Top = stack[Len(stack)] /\ Len(stack) \in DOMAIN stack
  BY <1>3, RunningIs, TypesAre
<1>5. Top.fn # "poller" /\ (Top.fn = "init" => polling = TRUE)
  BY <1>3, <1>4 DEF Going, Shaped
<1>6. /\ UNCHANGED <<bdev, bdevRegistered, lastDICVR, polling, patchedDrive, driveKnown, irqOn,
                     mediaValidated, usingWiiDVDRRead, patchedGCNMedia>>
      /\ stack' = Front(stack)
  BY <1>1 DEF blocks, flags, Return
<1>7. Going'
  <2>1. bdevRegistered = TRUE => bdev = TRUE
    BY <1>4 DEF Going, Slot
  <2>2. state' # "notready" /\ state' # "nohardware"
    BY <1>1
  <2>3. QED
    BY <1>3, <1>5, <1>6, <2>1, <2>2, OthersIs, PopKept
<1>8. FlagsTyped'
  BY <1>3, <1>4, <1>6 DEF FlagsTyped
<1>9. DriverTyped'
  BY <1>1, <1>3, <1>4, <1>6, Types, DriverAlike
<1>10. QED
  BY <1>1, <1>3, <1>4, <1>6, <1>7, <1>8, <1>9, PopTyped, Keeps

\* diInit goes on after a probe, and with the poller.
LEMMA InitGoes ==
  ASSUME DiscInv, Running, Top.fn = "init", NEW pc \in {"queue", "status2"}, SetTo(pc), LetGo,
         UNCHANGED <<lastDICVR, lid, missed, disc, console, usingWiiDVDRRead, patchedDrive, bdev,
                     state>>,
         polling' = (pc = "status2"), bdevRegistered' = bdev,
         bdev = TRUE /\ Still => Readable
  PROVE  Going'
<1>1. /\ Going /\ TypeOK /\ stack \in Seq(Frame) /\ Top = stack[Len(stack)] /\ Top \in Frame
      /\ Len(stack) \in DOMAIN stack /\ DOMAIN stack = 1..Len(stack) /\ stack # <<>>
  BY RunningIs
<1>2. Len(stack) = 1 /\ DOMAIN stack = {1}
  BY <1>1 DEF Going, Shaped
<1>3. PICK e \in Frame : Fresh(e, pc) /\ stack' = [stack EXCEPT ![Len(stack)] = e]
  BY DEF SetTo
<1>4. /\ stack' \in Seq(Frame) /\ DOMAIN stack' = {1} /\ stack'[1] = e
  BY <1>1, <1>2, <1>3, PutTop
<1>5. e.fn = "init" /\ e.pc = pc /\ e.wait = FALSE /\ e.out = "none" /\ e.clob = FALSE
  BY <1>3 DEF Fresh
<1>6. e.pc \notin Bringing \cup Probing \cup {"read", "waitstatus", "size", "register", "v0", "v16"}
  BY <1>5 DEF Bringing, Probing
<1>7. Shaped'
  BY <1>4, <1>5, <1>6 DEF Shaped
<1>8. Slot'
  <2>1. lastDICVR = TRUE => bdev # TRUE
    BY <1>1, <1>2 DEF Going, Slot
  <2>2. bdev \in BOOLEAN
    BY <1>1, Types
  <2>3. QED
    BY <1>4, <1>5, <1>6, <2>1, <2>2 DEF Slot
<1>9. Wired' /\ Told'
  <2>1. engine'.by # 1 /\ (engine'.by = 0 \/ engine'.by = engine.by) /\ (engine'.busy = FALSE => engine'.by = 0)
    BY <1>2 DEF LetGo
  <2>2. engine.by = 0 \/ engine.by = 1
    BY <1>1, <1>2 DEF Going, Wired
  <2>3. QED
    BY <1>4, <1>5, <2>1, <2>2 DEF Wired, Told
<1>10. Fit'
  <2>1. Still' => Still
    BY DEF Still
  <2>2. Readable => Readable'
    BY DEF Readable
  <2>3. QED
    BY <1>4, <1>6, <2>1, <2>2 DEF Fit
<1>11. Starting'
  <2>1. state # "notready" /\ state # "nohardware"
    BY OthersIs
  <2>2. QED
    BY <1>4, <1>6, <2>1 DEF Starting
<1>12. QED
  BY <1>7, <1>8, <1>9, <1>10, <1>11 DEF Going

\* A device that is known to be registered is the one a probe has read.
LEMMA KnownIs ==
  ASSUME DiscInv, halted = "no"
  PROVE  /\ bdevRegistered = TRUE /\ Still => Readable
         /\ bdevRegistered = TRUE => bdev = TRUE
         /\ bdev = TRUE /\ bdevRegistered = FALSE => \E i \in DOMAIN stack : stack[i].pc = "register"
         /\ bdev \in BOOLEAN /\ bdevRegistered \in BOOLEAN
         /\ ~lied
<1>1. Going /\ TypeOK
  BY DEF DiscInv
<1>2. bdev \in BOOLEAN /\ bdevRegistered \in BOOLEAN
  BY <1>1, Types
<1>3. QED
  BY <1>1, <1>2 DEF Going, Slot, Fit, DiscInv

LEMMA QueuePollerKept == ASSUME DiscInv, QueuePoller PROVE DiscInv'
<1>1. /\ Running /\ Top.pc = "queue" /\ polling' = TRUE /\ Goto("status2")
      /\ UNCHANGED <<hardware, engine, sr, residual, flags, blocks, console, driveKnown, lastDICVR,
                     irqOn, state, halted, lied, missed, flaky>>
  BY DEF QueuePoller
<1>2. UNCHANGED <<lid, disc, patchedDrive, immbuf, mediaValidated, usingWiiDVDRRead, patchedGCNMedia,
                  bdev, bdevRegistered>>
  BY <1>1 DEF hardware, flags, blocks
<1>3. /\ Going /\ TypeOK /\ stack \in Seq(Frame) /\ stack # <<>> /\ halted = "no"
      /\ Top = stack[Len(stack)] /\ Top \in Frame /\ Len(stack) \in DOMAIN stack
      /\ DOMAIN stack = 1..Len(stack)
      /\ FlagsTyped /\ WireTyped
  BY <1>1, RunningIs, TypesAre
<1>4. Top.fn = "init" /\ Len(stack) = 1 /\ Top.wait = FALSE
  <2>1. Top.fn \in {"init", "poller", "read"} /\ Top.wait \in BOOLEAN
    BY <1>3 DEF Frame
  <2>2. Top.fn # "poller" /\ Top.fn # "read" /\ Top.wait # TRUE
    BY <1>1, <1>3 DEF Going, Shaped, Commands, Dma
  <2>3. Top.fn = "init"
    BY <2>1, <2>2
  <2>4. Len(stack) = 1
    BY <1>3, <2>3 DEF Going, Shaped
  <2>5. QED
    BY <2>1, <2>2, <2>3, <2>4
<1>5. LetGo
  BY <1>1, <1>4, LetsGoUnlaunched
<1>6. bdevRegistered = bdev
  <2>1. \A i \in DOMAIN stack : stack[i].pc # "register"
    BY <1>1, <1>3, <1>4
  <2>2. QED
    BY <1>3, <2>1, KnownIs
<1>7. SetTo("status2")
  BY <1>1, <1>3, GotoIs DEF Pcs, Commands
<1>8. Going'
  BY <1>1, <1>2, <1>3, <1>4, <1>5, <1>6, <1>7, KnownIs, InitGoes
<1>9. FlagsTyped' /\ WireTyped'
  BY <1>1, <1>2, <1>3 DEF FlagsTyped, WireTyped
<1>10. DriverTyped'
  BY <1>1, <1>2, <1>3, Types, DriverAlike
<1>11. StackTyped'
  BY <1>3, <1>7, SetToTyped
<1>12. QED
  BY <1>1, <1>3, <1>8, <1>9, <1>10, <1>11, Keeps

LEMMA RegisteredKept == ASSUME DiscInv, Registered PROVE DiscInv'
<1> DEFINE n == Len(stack)
<1>1. /\ Running /\ Top.pc = "register" /\ bdevRegistered' = TRUE /\ EndProbe
      /\ UNCHANGED <<hardware, engine, sr, residual, flags, bdev, control, flaky>>
  BY DEF Registered
<1>2. UNCHANGED <<lid, disc, patchedDrive, immbuf, mediaValidated, usingWiiDVDRRead, patchedGCNMedia,
                  console, driveKnown, lastDICVR, polling, irqOn, state, halted, lied, missed>>
  BY <1>1 DEF hardware, flags, control
<1>3. /\ Going /\ TypeOK /\ stack \in Seq(Frame) /\ stack # <<>> /\ halted = "no"
      /\ Top = stack[n] /\ Top \in Frame /\ n \in DOMAIN stack
      /\ DOMAIN stack = 1..n /\ n \in Nat /\ n >= 1
      /\ FlagsTyped /\ WireTyped
  BY <1>1, RunningIs, TypesAre
<1>4. bdev = TRUE /\ bdevRegistered = FALSE /\ lastDICVR = FALSE /\ (Still => Readable)
  BY <1>1, <1>3 DEF Going, Slot, Fit, Probing
<1>5. Top.fn \in {"init", "poller"} /\ Top.wait = FALSE
  <2>1. Top.fn \in {"init", "poller", "read"} /\ Top.wait \in BOOLEAN
    BY <1>3 DEF Frame
  <2>2. Top.fn # "read" /\ Top.wait # TRUE
    BY <1>1, <1>3 DEF Going, Shaped, Commands, Dma
  <2>3. QED
    BY <2>1, <2>2
<1>6. LetGo
  BY <1>1, <1>5, LetsGoUnlaunched
<1>7. Ended
  BY <1>1, <1>3, EndProbeIs
<1>8. FlagsTyped' /\ WireTyped'
  BY <1>1, <1>2, <1>3 DEF FlagsTyped, WireTyped
<1>9. DriverTyped'
  BY <1>1, <1>2, <1>3, Types, DriverAlike
<1>10. Going' /\ StackTyped'
  <2>1. CASE Top.fn = "init"
    <3>1. SetTo("queue") /\ polling = FALSE
      BY <1>1, <1>3, <1>7, <2>1, Types DEF Ended, Going, Shaped
    <3>2. StackTyped'
      BY <1>3, <3>1, SetToTyped
    <3>3. polling' = ("queue" = "status2")
      BY <1>2, <3>1
    <3>4. Going'
      BY <1>1, <1>2, <1>4, <1>6, <2>1, <3>1, <3>3, InitGoes
    <3>5. QED
      BY <3>2, <3>4
  <2>2. CASE Top.fn = "poller"
    <3>1. stack' = Front(stack) /\ polling = TRUE
      BY <1>3, <1>7, <2>2 DEF Ended, Going, Shaped
    <3>2. StackTyped'
      BY <1>3, <3>1, PopTyped
    <3>3. /\ Len(stack') = n - 1 /\ DOMAIN stack' = 1..(n - 1)
          /\ \A i \in DOMAIN stack' : i \in DOMAIN stack /\ i # n /\ stack'[i] = stack[i]
          /\ \A i \in DOMAIN stack : i # n => i \in DOMAIN stack'
      BY <1>3, <3>1, PopTop
    <3>4. \A i \in DOMAIN stack' : stack'[i].fn # "poller"
      BY <1>3, <2>2, <3>3 DEF Going, Shaped
    <3>5. \A i \in DOMAIN stack' : stack'[i].pc \in {"read", "status2"}
      <4>1. ASSUME NEW i \in DOMAIN stack', stack'[i].fn = "read" PROVE stack'[i].pc = "read"
        BY <1>3, <3>3, <4>1 DEF Going, Shaped
      <4>2. ASSUME NEW i \in DOMAIN stack', stack'[i].fn = "init" PROVE stack'[i].pc = "status2"
        BY <1>3, <3>1, <3>3, <4>2 DEF Going, Shaped
      <4>3. \A i \in DOMAIN stack' : stack'[i].fn \in {"init", "poller", "read"}
        BY <1>3, <3>3, StackIs DEF Frame
      <4>4. QED
        BY <3>4, <4>1, <4>2, <4>3
    <3>6. \A i \in DOMAIN stack' : stack'[i].pc \notin
            Bringing \cup Probing \cup {"waitstatus", "size", "register", "v0", "v16"}
      BY <3>5 DEF Bringing, Probing
    <3> HIDE DEF n
    <3>7. Shaped'
      BY <1>2, <1>3, <3>3 DEF Going, Shaped
    <3>8. Slot'
      BY <1>1, <1>2, <1>4, <3>1, <3>6 DEF Slot
    <3>9. Wired' /\ Told'
      <4>1. engine'.by # n /\ (engine'.by = 0 \/ engine'.by = engine.by)
            /\ (engine'.busy = FALSE => engine'.by = 0) /\ residual' = residual
        BY <1>6 DEF LetGo, n
      <4>2. QED
        BY <1>3, <3>3, <4>1 DEF Going, Wired, Told
    <3>10. Fit'
      <4>1. Still' => Readable'
        BY <1>2, <1>4 DEF Still, Readable
      <4>2. QED
        BY <4>1 DEF Fit
    <3>11. Starting'
      BY <1>1, <1>2, <3>6, OthersIs DEF Starting
    <3>12. QED
      BY <3>2, <3>7, <3>8, <3>9, <3>10, <3>11 DEF Going
  <2>3. QED
    BY <1>5, <2>1, <2>2
<1>11. QED
  BY <1>1, <1>2, <1>3, <1>8, <1>9, <1>10, Keeps

LEMMA CoverStatusKept == ASSUME DiscInv, CoverStatus PROVE DiscInv'
<1>1. PICK r \in Results :
        /\ Returns("status", r) /\ Top.fn = "poller"
        /\ \/ Top.open /\ Unregister /\ Forget /\ Return
           \/ /\ ~Top.open /\ console = "gamecube" /\ ProbeNewMedia /\ UNCHANGED blocks
           \/ /\ ~Top.open /\ console = "wii" /\ Goto("reset") /\ UNCHANGED <<flags, blocks>>
        /\ UNCHANGED <<patchedDrive, driveKnown, lastDICVR, polling, irqOn, state, lied>>
  BY DEF CoverStatus
<1>2. /\ Running /\ Top.pc = "status" /\ flaky' \in BOOLEAN /\ LetGo /\ WireTyped'
      /\ UNCHANGED <<lid, disc, console, halted, missed>>
  BY <1>1, ReturnsIs, Places
<1>3. /\ Going /\ TypeOK /\ stack \in Seq(Frame) /\ stack # <<>> /\ halted = "no"
      /\ Top = stack[Len(stack)] /\ Top \in Frame /\ Len(stack) \in DOMAIN stack
      /\ DOMAIN stack = 1..Len(stack)
      /\ FlagsTyped
  BY <1>2, RunningIs, TypesAre
<1>4. polling = TRUE /\ Top.open = lastDICVR /\ Top.open \in BOOLEAN
  BY <1>1, <1>3 DEF Going, Shaped, Frame
<1>5. CASE Top.open /\ Unregister /\ Forget /\ Return
  <2>1. \A i \in DOMAIN stack : stack[i].pc # "register"
    <3>1. lastDICVR = TRUE
      BY <1>4, <1>5
    <3>2. QED
      BY <1>3, <3>1 DEF Going, Slot, Probing
  <2>2. bdev' = FALSE /\ bdevRegistered' = FALSE /\ stack' = Front(stack)
    BY <1>3, <1>5, <2>1, KnownIs DEF Unregister, Return
  <2>3. Going'
    BY <1>1, <1>2, <2>1, <2>2, OthersIs, PopKept
  <2>4. FlagsTyped'
    BY <1>1, <1>2, <1>3, <1>5 DEF FlagsTyped, Forget
  <2>5. DriverTyped'
    BY <1>1, <1>2, <1>3, <2>2, Types, DriverAlike
  <2>6. QED
    BY <1>1, <1>2, <1>3, <2>2, <2>3, <2>4, <2>5, PopTyped, Keeps
<1>6. CASE ~Top.open /\ UNCHANGED blocks
           /\ (ProbeNewMedia \/ (Goto("reset") /\ UNCHANGED flags))
  <2>1. ~Opened(Top) /\ lastDICVR = FALSE /\ "status" \in Bringing
    BY <1>4, <1>6 DEF Opened, Bringing
  <2>2. UNCHANGED <<bdev, bdevRegistered>> /\ bdevRegistered = FALSE
    BY <1>2, <1>6, <2>1, BringIs DEF blocks
  <2>3. Onward /\ mediaValidated' \in BOOLEAN /\ UNCHANGED <<usingWiiDVDRRead, patchedGCNMedia>>
    <3>1. CASE ProbeNewMedia
      BY <1>1, <1>2, <2>1, <2>2, <3>1, ProbeGoes
    <3>2. CASE Goto("reset") /\ UNCHANGED flags
      <4>1. SetTo("reset")
        BY <1>3, <3>2, GotoIs DEF Pcs
      <4>2. "reset" \in Bringing \ {"waitstatus", "size", "unwedge", "inquiry"}
        BY DEF Bringing
      <4>3. Onward
        BY <1>1, <1>2, <2>1, <2>2, <4>1, <4>2, GoesOn
      <4>4. QED
        BY <1>3, <3>2, <4>3 DEF flags, FlagsTyped
    <3>3. QED
      BY <1>6, <3>1, <3>2
  <2>4. FlagsTyped'
    BY <1>1, <1>2, <1>3, <2>3 DEF FlagsTyped
  <2>5. QED
    BY <1>1, <2>1, <2>3, <2>4, CommandKept, Places
<1>7. QED
  BY <1>1, <1>5, <1>6

(***************************************************************************)
(* The launch of a command, and what the drive makes of it.  The calls     *)
(* stay where they are: only their waits and their answers change.         *)
(***************************************************************************)
Alike ==
  /\ stack' \in Seq(Frame) /\ Len(stack') = Len(stack) /\ DOMAIN stack' = DOMAIN stack
  /\ \A i \in DOMAIN stack :
       stack'[i].fn = stack[i].fn /\ stack'[i].pc = stack[i].pc /\ stack'[i].open = stack[i].open

LEMMA AlikeKept ==
  ASSUME DiscInv, halted = "no", Alike,
         UNCHANGED <<bdev, bdevRegistered, polling, lastDICVR, state>>,
         \A i \in DOMAIN stack :
           /\ stack'[i].wait = TRUE => stack'[i].pc \in Commands
           /\ stack'[i].wait = FALSE => stack'[i].out = "none" /\ stack'[i].clob = FALSE
           /\ i = Len(stack) => stack'[i].clob = stack[i].clob,
         state = "nohardware" => Quiet',
         Wired', Told', Fit', \A i \in DOMAIN stack : stack[i].fn = "init"
                                /\ stack[i].pc = "waitstatus" => Quiet'
  PROVE  Going' /\ StackTyped'
<1>1. Going /\ TypeOK
  BY DEF DiscInv
<1>2. StackTyped'
  BY <1>1, Types DEF Alike, StackTyped
<1>3. Shaped'
  BY <1>1 DEF Going, Shaped, Alike
<1>4. Slot'
  <2>1. \A i \in DOMAIN stack' : Opened(stack'[i]) <=> Opened(stack[i])
    BY DEF Alike, Opened
  <2>2. \A i \in DOMAIN stack' :
          /\ stack'[i].pc \in Bringing /\ ~Opened(stack'[i])
               => i = Len(stack') /\ bdev' = FALSE /\ stack'[i].clob = FALSE
          /\ stack'[i].pc = "register" => bdev' = TRUE /\ bdevRegistered' = FALSE
          /\ stack'[i].pc \in Probing => lastDICVR' = FALSE
    BY <1>1, <2>1 DEF Going, Slot, Alike
  <2>3. /\ bdevRegistered' = TRUE => bdev' = TRUE
        /\ bdev' = TRUE /\ bdevRegistered' = FALSE => \E i \in DOMAIN stack' : stack'[i].pc = "register"
        /\ lastDICVR' = TRUE /\ bdev' = TRUE => \E i \in DOMAIN stack' : stack'[i].fn = "poller"
        /\ polling' = FALSE /\ bdev' = TRUE => \E i \in DOMAIN stack' : stack'[i].fn = "init"
    BY <1>1 DEF Going, Slot, Alike
  <2>4. QED
    BY <2>2, <2>3 DEF Slot
<1>5. Starting'
  <2>1. stack = <<>> => stack' = <<>>
    BY EmptySeq DEF Alike
  <2>2. \A i \in DOMAIN stack' : stack'[i].fn = "init" /\ stack'[i].pc = "waitstatus" => Quiet'
    BY DEF Alike
  <2>3. state' = "nohardware" => stack = <<>> /\ bdev = FALSE /\ polling = FALSE
    BY <1>1 DEF Going, Starting
  <2>4. QED
    BY <1>1, <2>1, <2>2, <2>3 DEF Going, Starting
<1>6. QED
  BY <1>2, <1>3, <1>4, <1>5 DEF Going

LEMMA LaunchKept == ASSUME DiscInv, Launch PROVE DiscInv'
<1> DEFINE n == Len(stack)
<1>1. /\ Running /\ Top.pc \in Commands /\ ~Top.wait /\ ~engine.busy
      /\ engine' = [busy |-> TRUE, dma |-> Top.pc \in Dma, by |-> n]
      /\ sr' = FALSE /\ residual' = (Top.pc \in Dma)
      /\ stack' = [i \in DOMAIN stack |->
                     IF i = n THEN [stack[i] EXCEPT !.wait = TRUE]
                     ELSE [stack[i] EXCEPT !.clob = stack[i].wait]]
      /\ UNCHANGED <<hardware, flags, blocks, control, flaky>>
  BY DEF Launch
<1>2. UNCHANGED <<lid, disc, patchedDrive, immbuf, mediaValidated, usingWiiDVDRRead, patchedGCNMedia,
                  bdev, bdevRegistered, console, driveKnown, lastDICVR, polling, irqOn, state,
                  halted, lied, missed, flaky>>
  BY <1>1 DEF hardware, flags, blocks, control
<1>3. /\ Going /\ TypeOK /\ stack \in Seq(Frame) /\ stack # <<>> /\ halted = "no"
      /\ Top = stack[n] /\ Top \in Frame /\ n \in DOMAIN stack
      /\ DOMAIN stack = 1..n /\ n \in Nat /\ n >= 1
      /\ FlagsTyped /\ WireTyped /\ n <= MaxNesting
  BY <1>1, RunningIs, TypesAre DEF StackTyped
<1>4. \A i \in DOMAIN stack : stack[i] \in Frame
  BY <1>3, StackIs
<1> DEFINE d == Top.pc \in Dma
<1>5. /\ d \in BOOLEAN /\ (d = TRUE <=> Top.pc \in Dma)
      /\ engine' = [busy |-> TRUE, dma |-> d, by |-> n] /\ residual' = d
  BY <1>1
<1> HIDE DEF n, d
<1>6. \A i \in DOMAIN stack :
        /\ stack'[i] \in Frame
        /\ stack'[i].fn = stack[i].fn /\ stack'[i].pc = stack[i].pc /\ stack'[i].open = stack[i].open
        /\ stack'[i].out = stack[i].out
        /\ i = n => stack'[i].wait = TRUE /\ stack'[i].clob = stack[i].clob
        /\ i # n => stack'[i].wait = stack[i].wait /\ stack'[i].clob = stack[i].wait
  <2>1. SUFFICES ASSUME NEW i \in DOMAIN stack
        PROVE /\ stack'[i] \in Frame
              /\ stack'[i].fn = stack[i].fn /\ stack'[i].pc = stack[i].pc
              /\ stack'[i].open = stack[i].open /\ stack'[i].out = stack[i].out
              /\ i = n => stack'[i].wait = TRUE /\ stack'[i].clob = stack[i].clob
              /\ i # n => stack'[i].wait = stack[i].wait /\ stack'[i].clob = stack[i].wait
    OBVIOUS
  <2>2. stack'[i] = IF i = n THEN [stack[i] EXCEPT !.wait = TRUE]
                    ELSE [stack[i] EXCEPT !.clob = stack[i].wait]
    BY <1>1, <2>1
  <2>3. stack[i] \in Frame
    BY <1>4, <2>1
  <2>4. CASE i = n
    <3>1. stack'[i] = [stack[i] EXCEPT !.wait = TRUE]
      BY <2>2, <2>4
    <3>2. QED
      BY <2>3, <2>4, <3>1 DEF Frame
  <2>5. CASE i # n
    <3>1. stack'[i] = [stack[i] EXCEPT !.clob = stack[i].wait]
      BY <2>2, <2>5
    <3>2. QED
      BY <2>3, <2>5, <3>1 DEF Frame
  <2>6. QED
    BY <2>4, <2>5
<1>7. Alike
  <2>1. DOMAIN stack' = 1..n /\ stack' \in [1..n -> Frame]
    BY <1>1, <1>3, <1>6
  <2>2. stack' \in Seq(Frame)
    BY <1>3, <2>1, SeqDef
  <2>3. Len(stack') = n
    BY <1>3, <2>1, <2>2, LenProperties
  <2>4. QED
    BY <1>3, <1>6, <2>1, <2>2, <2>3 DEF Alike, n
<1>8. Top.out = "none"
  BY <1>1, <1>3 DEF Going, Shaped, Frame
<1>9. Wired'
  <2>1. engine'.busy = TRUE /\ engine'.by = n
    BY <1>1
  <2>2. n \in DOMAIN stack' /\ DOMAIN stack' = DOMAIN stack
    BY <1>3, <1>7 DEF Alike
  <2>3. \A i \in DOMAIN stack' : i # n /\ stack'[i].wait = TRUE => stack'[i].clob = TRUE
    BY <1>6, <2>2
  <2>4. stack'[n].wait = TRUE /\ stack'[n].out = "none"
    BY <1>3, <1>6, <1>8
  <2>5. QED
    BY <2>1, <2>2, <2>3, <2>4 DEF Wired
<1>10. Told'
  <2>1. ASSUME NEW i \in DOMAIN stack', stack'[i].wait = TRUE, stack'[i].clob = FALSE,
               stack'[i].pc \in Dma
        PROVE  residual' = TRUE
    <3>1. i \in DOMAIN stack
      BY <1>7 DEF Alike
    <3>2. i = n
      BY <1>6, <2>1, <3>1
    <3>3. QED
      BY <1>3, <1>5, <1>6, <2>1, <3>2
  <2>2. QED
    BY <2>1 DEF Told
<1>11. Fit'
  <2>1. (Still' <=> Still) /\ (Readable' <=> Readable)
    BY <1>2 DEF Still, Readable
  <2>2. QED
    BY <1>2, <1>3, <1>6, <1>7, <2>1 DEF Going, Fit, Alike
<1>12. \A i \in DOMAIN stack : stack[i].fn = "init" /\ stack[i].pc = "waitstatus" => Quiet'
  <2>1. \A i \in DOMAIN stack : stack[i].fn = "init" /\ stack[i].pc = "waitstatus" => i = n
    BY <1>3 DEF Going, Slot, Bringing, Opened, n
  <2>2. Top.pc = "waitstatus" => engine'.dma = FALSE
    BY <1>5 DEF Dma
  <2>3. QED
    BY <1>3, <2>1, <2>2 DEF Quiet
<1>13. \A i \in DOMAIN stack :
         /\ stack'[i].wait = TRUE => stack'[i].pc \in Commands
         /\ stack'[i].wait = FALSE => stack'[i].out = "none" /\ stack'[i].clob = FALSE
         /\ i = Len(stack) => stack'[i].clob = stack[i].clob
  BY <1>1, <1>3, <1>6 DEF Going, Shaped, n
<1>14. Going' /\ StackTyped'
  <2>1. state # "nohardware"
    BY <1>1, OthersIs
  <2>2. QED
    BY <1>2, <1>3, <1>7, <1>9, <1>10, <1>11, <1>12, <1>13, <2>1, AlikeKept
<1>15. FlagsTyped' /\ WireTyped'
  <2>1. engine' \in [busy : BOOLEAN, dma : BOOLEAN, by : 0..MaxNesting]
    BY <1>3, <1>5
  <2>2. QED
    BY <1>1, <1>2, <1>3, <1>5, <2>1 DEF FlagsTyped, WireTyped
<1>16. DriverTyped'
  BY <1>2, <1>3, Types, DriverAlike
<1>17. QED
  BY <1>2, <1>3, <1>14, <1>15, <1>16, Keeps

LEMMA DriveDoneKept == ASSUME DiscInv, DriveDone PROVE DiscInv'
<1> DEFINE k == engine.by
<1>1. /\ engine.busy /\ halted = "no" /\ engine' = Idle
      /\ UNCHANGED <<lid, disc, patchedDrive, flags, blocks, control>>
  BY DEF DriveDone
<1>2. UNCHANGED <<mediaValidated, usingWiiDVDRRead, patchedGCNMedia, bdev, bdevRegistered, console,
                  driveKnown, lastDICVR, polling, irqOn, state, halted, lied, missed>>
  BY <1>1 DEF flags, blocks, control
<1>3. /\ Going /\ TypeOK /\ stack \in Seq(Frame) /\ FlagsTyped /\ WireTyped /\ StackTyped
      /\ residual \in BOOLEAN
  BY <1>1, TypesAre, Types DEF DiscInv
<1>4. engine'.busy = FALSE /\ engine'.by = 0 /\ Quiet'
      /\ engine' \in [busy : BOOLEAN, dma : BOOLEAN, by : 0..MaxNesting]
  <2> DEFINE N == 0..MaxNesting
  <2>1. 0 \in N
    BY DiscAssumption
  <2> HIDE DEF N
  <2>2. engine' \in [busy : BOOLEAN, dma : BOOLEAN, by : N]
    BY <1>1, <2>1 DEF Idle
  <2>3. engine'.busy = FALSE /\ engine'.by = 0
    BY <1>1 DEF Idle
  <2>4. Quiet'
    BY <2>3 DEF Quiet
  <2>5. QED
    BY <2>2, <2>3, <2>4 DEF N
<1>5. DriverTyped'
  BY <1>1, <1>2, <1>3, Types, DriverAlike
<1>6. Wired'
  BY <1>4 DEF Wired
<1>7. (Still' <=> Still) /\ (Readable' <=> Readable)
  BY <1>1, <1>2 DEF Still, Readable
<1>8. CASE k = 0
  <2>1. sr' \in BOOLEAN /\ UNCHANGED <<residual, immbuf, stack, flaky>>
    BY <1>8 DEF DriveDone
  <2>2. Alike
    BY <1>3, <2>1 DEF Alike
  <2>3. Told' /\ Fit'
    BY <1>2, <1>3, <1>7, <2>1 DEF Going, Told, Fit
  <2>4. \A i \in DOMAIN stack :
          /\ stack'[i].wait = TRUE => stack'[i].pc \in Commands
          /\ stack'[i].wait = FALSE => stack'[i].out = "none" /\ stack'[i].clob = FALSE
          /\ i = Len(stack) => stack'[i].clob = stack[i].clob
    BY <1>3, <2>1 DEF Going, Shaped
  <2>5. Going' /\ StackTyped'
    BY <1>1, <1>2, <1>4, <1>6, <2>2, <2>3, <2>4, AlikeKept
  <2>6. FlagsTyped' /\ WireTyped'
    BY <1>1, <1>2, <1>3, <1>4, <2>1 DEF FlagsTyped, WireTyped
  <2>7. QED
    BY <1>1, <1>2, <1>5, <2>5, <2>6, Keeps
<1>9. CASE k # 0
  <2> DEFINE f == stack[k]
  <2>1. PICK good \in BOOLEAN :
          /\ good => Succeeds(f.pc)
          /\ sr' = ~good
          /\ residual' = (residual /\ ~good)
          /\ immbuf' \in IF good /\ f.pc = "idstatus" THEN {Status, "changed"} ELSE {immbuf}
          /\ flaky' = (flaky \/ (~good /\ Succeeds(f.pc)) \/ immbuf' = "changed")
          /\ stack' = [stack EXCEPT ![k].out = IF good THEN "good" ELSE "bad"]
    BY <1>9 DEF DriveDone
  <2>2. /\ k \in DOMAIN stack /\ f.wait = TRUE /\ f.out = "none"
        /\ \A i \in DOMAIN stack : i # k /\ stack[i].wait = TRUE => stack[i].clob = TRUE
    BY <1>3, <1>9 DEF Going, Wired
  <2>3. f \in Frame
    BY <1>3, <2>2, StackIs
  <2> DEFINE w == IF good THEN "good" ELSE "bad"
             e == [f EXCEPT !.out = w]
  <2>4. w \in {"good", "bad"} /\ (good <=> w = "good")
    OBVIOUS
  <2>5. stack' = [stack EXCEPT ![k] = e]
    BY <2>1, <2>2
  <2> HIDE DEF w, f, k
  <2>6. /\ e \in Frame /\ e.fn = f.fn /\ e.pc = f.pc /\ e.open = f.open /\ e.wait = f.wait
        /\ e.clob = f.clob /\ e.out = w
    BY <2>3, <2>4 DEF Frame
  <2> HIDE DEF e
  <2>7. /\ stack' \in Seq(Frame) /\ Len(stack') = Len(stack) /\ DOMAIN stack' = DOMAIN stack
        /\ stack'[k] = e /\ \A i \in DOMAIN stack : i # k => stack'[i] = stack[i]
    <3>1. DOMAIN stack = 1..Len(stack)
      BY <1>3, StackIs
    <3>2. QED
      BY <1>3, <2>2, <2>5, <2>6, <3>1, ExceptSeq
  <2>8. Alike
    BY <2>6, <2>7 DEF Alike, f
  <2>9. Told'
    <3>1. ASSUME NEW i \in DOMAIN stack, stack'[i].wait = TRUE, stack'[i].clob = FALSE,
                 stack'[i].pc \in Dma
          PROVE  residual' = TRUE \/ stack'[i].out = "good"
      <4>1. i = k
        BY <2>2, <2>7, <3>1
      <4>2. residual = TRUE
        BY <1>3, <2>2, <2>6, <2>7, <3>1, <4>1 DEF Going, Told, f
      <4>3. residual' = TRUE \/ good
        BY <2>1, <4>2
      <4>4. QED
        BY <2>4, <2>6, <2>7, <4>1, <4>3
    <3>2. QED
      BY <2>7, <3>1 DEF Told
  <2>10. Fit'
    <3>1. good /\ f.pc \in {"v0", "v16"} => Readable
      BY <2>1 DEF Succeeds
    <3>2. ASSUME NEW i \in DOMAIN stack,
                 \/ stack'[i].pc \in {"size", "register"}
                 \/ stack'[i].pc \in {"v0", "v16"} /\ stack'[i].out = "good"
          PROVE  Still => Readable
      <4>1. CASE i # k
        BY <1>3, <2>7, <3>2, <4>1 DEF Going, Fit
      <4>2. CASE i = k
        <5>1. e.pc = f.pc /\ (e.out = "good" => good)
          BY <2>4, <2>6
        <5>2. f.pc \in {"size", "register"} => (Still => Readable)
          BY <1>3, <2>2 DEF Going, Fit, f
        <5>3. QED
          BY <2>7, <3>1, <3>2, <4>2, <5>1, <5>2
      <4>3. QED
        BY <4>1, <4>2
    <3>3. bdevRegistered' = TRUE /\ Still => Readable
      BY <1>2, <1>3 DEF Going, Fit
    <3>4. QED
      BY <1>7, <2>7, <3>2, <3>3 DEF Fit
  <2>11. \A i \in DOMAIN stack :
           /\ stack'[i].wait = TRUE => stack'[i].pc \in Commands
           /\ stack'[i].wait = FALSE => stack'[i].out = "none" /\ stack'[i].clob = FALSE
           /\ i = Len(stack) => stack'[i].clob = stack[i].clob
    <3>1. ASSUME NEW i \in DOMAIN stack, i # k
          PROVE  /\ stack'[i].wait = TRUE => stack'[i].pc \in Commands
                 /\ stack'[i].wait = FALSE => stack'[i].out = "none" /\ stack'[i].clob = FALSE
                 /\ i = Len(stack) => stack'[i].clob = stack[i].clob
      BY <1>3, <2>7, <3>1 DEF Going, Shaped
    <3>2. f.pc \in Commands
      BY <1>3, <2>2 DEF Going, Shaped, f
    <3>3. e.wait = TRUE /\ e.pc \in Commands /\ e.clob = stack[k].clob
      BY <2>2, <2>6, <3>2 DEF f
    <3>4. QED
      BY <2>7, <3>1, <3>3
  <2>12. Going' /\ StackTyped'
    BY <1>1, <1>2, <1>4, <1>6, <2>8, <2>9, <2>10, <2>11, AlikeKept
  <2>13. FlagsTyped' /\ WireTyped'
    <3>1. Status \in Statuses
      BY DEF Status, Statuses
    <3>2. immbuf' \in Statuses
      BY <1>3, <2>1, <3>1 DEF WireTyped, Statuses
    <3>3. residual' \in BOOLEAN /\ sr' \in BOOLEAN
      BY <1>3, <2>1
    <3>4. flaky' \in BOOLEAN
      BY <1>3, <2>1 DEF FlagsTyped
    <3>5. QED
      BY <1>1, <1>2, <1>3, <1>4, <3>2, <3>3, <3>4 DEF FlagsTyped, WireTyped
  <2>14. QED
    BY <1>1, <1>2, <1>5, <2>12, <2>13, Keeps
<1>10. QED
  BY <1>8, <1>9

LEMMA MoveCoverKept == ASSUME DiscInv, MoveCover PROVE DiscInv'
<1>1. /\ halted = "no" /\ lid' = ~lid /\ disc' \in IF lid THEN Discs ELSE {disc}
      /\ missed' = (missed \/ lid' = lastDICVR)
      /\ UNCHANGED <<patchedDrive, immbuf, engine, sr, residual, flags, blocks, console, driveKnown,
                     lastDICVR, polling, irqOn, state, halted, lied, stack, flaky>>
  BY DEF MoveCover
<1>2. UNCHANGED <<mediaValidated, usingWiiDVDRRead, patchedGCNMedia, bdev, bdevRegistered>>
  BY <1>1 DEF flags, blocks
<1>3. /\ Going /\ TypeOK /\ FlagsTyped /\ WireTyped /\ DriverTyped /\ StackTyped
  BY <1>1, TypesAre DEF DiscInv
<1>4. ~Still'
  <2>1. lid' \in BOOLEAN /\ lastDICVR \in BOOLEAN /\ missed \in BOOLEAN
    BY <1>1, <1>3 DEF DriverTyped
  <2>2. lid' = lastDICVR => missed' = TRUE
    BY <1>1, <2>1
  <2>3. QED
    BY <1>1, <2>1, <2>2 DEF Still
<1>5. Fit'
  BY <1>4 DEF Fit
<1>6. Shaped' /\ Slot' /\ Wired' /\ Told' /\ Starting'
  <2>1. Shaped'
    BY <1>1, <1>3 DEF Going, Shaped
  <2>2. Slot'
    BY <1>1, <1>2, <1>3 DEF Going, Slot
  <2>3. Wired' /\ Told'
    BY <1>1, <1>3 DEF Going, Wired, Told
  <2>4. Starting'
    BY <1>1, <1>2, <1>3 DEF Going, Starting, Quiet
  <2>5. QED
    BY <2>1, <2>2, <2>3, <2>4
<1>7. FlagsTyped' /\ WireTyped' /\ StackTyped'
  BY <1>1, <1>2, <1>3 DEF FlagsTyped, WireTyped, StackTyped
<1>8. DriverTyped'
  <2>1. lid' \in BOOLEAN /\ disc' \in Discs /\ missed' \in BOOLEAN
    BY <1>1, <1>3 DEF DriverTyped
  <2>2. QED
    BY <1>1, <1>2, <1>3, <2>1 DEF DriverTyped
<1>9. QED
  BY <1>1, <1>5, <1>6, <1>7, <1>8, Keeps DEF Going

LEMMA IRQKept == ASSUME DiscInv, diIRQHandler PROVE DiscInv'
<1>1. /\ halted = "no" /\ sr' = FALSE
      /\ UNCHANGED <<hardware, engine, residual, flags, blocks, control, stack, flaky>>
  BY DEF diIRQHandler
<1>2. UNCHANGED <<lid, disc, patchedDrive, immbuf, mediaValidated, usingWiiDVDRRead, patchedGCNMedia,
                  bdev, bdevRegistered, console, driveKnown, lastDICVR, polling, irqOn, state,
                  halted, lied, missed>>
  BY <1>1 DEF hardware, flags, blocks, control
<1>3. /\ Going /\ TypeOK /\ FlagsTyped /\ WireTyped /\ DriverTyped /\ StackTyped
  BY <1>1, TypesAre DEF DiscInv
<1>4. Shaped'
  BY <1>1, <1>2, <1>3 DEF Going, Shaped
<1>5. Slot'
  BY <1>1, <1>2, <1>3 DEF Going, Slot
<1>6. Wired' /\ Told'
  BY <1>1, <1>3 DEF Going, Wired, Told
<1>7. Fit'
  BY <1>1, <1>2, <1>3 DEF Going, Fit, Still, Readable
<1>8. Starting'
  BY <1>1, <1>2, <1>3 DEF Going, Starting, Quiet
<1>9. FlagsTyped' /\ WireTyped' /\ StackTyped'
  BY <1>1, <1>2, <1>3 DEF FlagsTyped, WireTyped, StackTyped
<1>10. DriverTyped'
  BY <1>2, <1>3 DEF DriverTyped
<1>11. QED
  BY <1>1, <1>2, <1>4, <1>5, <1>6, <1>7, <1>8, <1>9, <1>10, Keeps DEF Going

(***************************************************************************)
(* Calls that interrupt the others.                                        *)
(***************************************************************************)
\* What every call that begins leaves of the others.
LEMMA PushIs ==
  ASSUME TypeOK, Len(stack) < MaxNesting, NEW e \in Frame, stack' = Append(stack, e)
  PROVE  /\ StackTyped' /\ DOMAIN stack' = 1..(Len(stack) + 1) /\ DOMAIN stack = 1..Len(stack)
         /\ Len(stack) \in Nat /\ Len(stack') = Len(stack) + 1
         /\ stack'[Len(stack) + 1] = e
         /\ \A i \in DOMAIN stack : i \in DOMAIN stack' /\ stack'[i] = stack[i] /\ i # Len(stack) + 1
         /\ \A i \in DOMAIN stack' : i \in DOMAIN stack \/ i = Len(stack) + 1
<1>1. stack \in Seq(Frame)
  BY Types
<1>2. Len(stack) \in Nat /\ DOMAIN stack = 1..Len(stack)
  BY <1>1, StackIs
<1>3. /\ stack' \in Seq(Frame) /\ Len(stack') = Len(stack) + 1
      /\ DOMAIN stack' = 1..(Len(stack) + 1)
      /\ stack'[Len(stack) + 1] = e
      /\ \A i \in DOMAIN stack : stack'[i] = stack[i]
      /\ \A i \in DOMAIN stack' : i \in DOMAIN stack \/ i = Len(stack) + 1
  BY <1>1, PushTop
<1>4. Len(stack') <= MaxNesting
  BY <1>2, <1>3, DiscAssumption
<1>5. QED
  BY <1>2, <1>3, <1>4 DEF StackTyped

LEMMA StartReadKept == ASSUME DiscInv, StartRead PROVE DiscInv'
<1> DEFINE e == Call("read", "read")
           n == Len(stack) + 1
<1>1. /\ bdev /\ halted = "no" /\ Len(stack) < MaxNesting /\ stack' = Append(stack, e)
      /\ UNCHANGED <<hardware, engine, sr, residual, flags, blocks, control, flaky>>
  BY DEF StartRead
<1>2. UNCHANGED <<lid, disc, patchedDrive, immbuf, mediaValidated, usingWiiDVDRRead, patchedGCNMedia,
                  bdev, bdevRegistered, console, driveKnown, lastDICVR, polling, irqOn, state,
                  halted, lied, missed>>
  BY <1>1 DEF hardware, flags, blocks, control
<1>3. /\ Going /\ TypeOK /\ FlagsTyped /\ WireTyped /\ DriverTyped
  BY <1>1, TypesAre DEF DiscInv
<1>4. /\ e \in Frame /\ e.fn = "read" /\ e.pc = "read" /\ e.wait = FALSE
      /\ e.out = "none" /\ e.clob = FALSE
  BY CallIs DEF Pcs, Commands, Dma
<1> HIDE DEF e
<1>5. /\ StackTyped' /\ DOMAIN stack' = 1..n /\ stack'[n] = e
      /\ \A i \in DOMAIN stack : i \in DOMAIN stack' /\ stack'[i] = stack[i] /\ i # n
      /\ \A i \in DOMAIN stack' : i \in DOMAIN stack \/ i = n
  BY <1>1, <1>3, <1>4, PushIs
<1> HIDE DEF n
<1>6. \A i \in DOMAIN stack : stack[i].pc \notin Bringing \/ Opened(stack[i])
  BY <1>1, <1>3 DEF Going, Slot
<1>7. e.pc \notin Bringing \cup Probing \cup {"register", "size", "v0", "v16", "waitstatus"}
  BY <1>4 DEF Bringing, Probing
<1>8. Shaped'
  <2>1. e.pc # "status2" /\ e.fn # "poller" /\ e.fn # "init"
    BY <1>4
  <2>2. QED
    BY <1>2, <1>3, <1>4, <1>5, <2>1 DEF Going, Shaped
<1>9. Slot'
  <2>1. \A i \in DOMAIN stack' :
          /\ stack'[i].pc \in Bringing => Opened(stack'[i])
          /\ stack'[i].pc = "register" => bdev' = TRUE /\ bdevRegistered' = FALSE
          /\ stack'[i].pc \in Probing => lastDICVR' = FALSE
    BY <1>2, <1>3, <1>5, <1>6, <1>7 DEF Going, Slot
  <2>2. /\ bdevRegistered' = TRUE => bdev' = TRUE
        /\ bdev' = TRUE /\ bdevRegistered' = FALSE => \E i \in DOMAIN stack' : stack'[i].pc = "register"
        /\ lastDICVR' = TRUE /\ bdev' = TRUE => \E i \in DOMAIN stack' : stack'[i].fn = "poller"
        /\ polling' = FALSE /\ bdev' = TRUE => \E i \in DOMAIN stack' : stack'[i].fn = "init"
    BY <1>2, <1>3, <1>5 DEF Going, Slot
  <2>3. QED
    BY <2>1, <2>2 DEF Slot
<1>10. Wired'
  BY <1>1, <1>3, <1>4, <1>5 DEF Going, Wired
<1>11. Told'
  BY <1>1, <1>3, <1>4, <1>5 DEF Going, Told
<1>12. Fit'
  <2>1. (Still' <=> Still) /\ (Readable' <=> Readable)
    BY <1>2 DEF Still, Readable
  <2>2. QED
    BY <1>2, <1>3, <1>5, <1>7, <2>1 DEF Going, Fit
<1>13. Starting'
  <2>1. state # "notready" /\ state # "nohardware"
    BY <1>1, <1>3 DEF Going, Starting
  <2>2. \A i \in DOMAIN stack' : stack'[i].fn = "init" => stack'[i].pc # "waitstatus"
    BY <1>4, <1>5, <1>6 DEF Bringing, Opened
  <2>3. QED
    BY <1>2, <2>1, <2>2 DEF Starting
<1>14. FlagsTyped' /\ WireTyped'
  BY <1>1, <1>2, <1>3 DEF FlagsTyped, WireTyped
<1>15. DriverTyped'
  BY <1>2, <1>3 DEF DriverTyped
<1>16. QED
  BY <1>1, <1>2, <1>5, <1>8, <1>9, <1>10, <1>11, <1>12, <1>13, <1>14, <1>15, Keeps DEF Going

LEMMA CoverPollerKept == ASSUME DiscInv, diCoverPoller PROVE DiscInv'
<1> DEFINE n == Len(stack) + 1
<1>1. /\ polling /\ halted = "no" /\ Len(stack) < MaxNesting
      /\ \A i \in DOMAIN stack : stack[i].fn # "poller"
      /\ lid # lastDICVR
      /\ lastDICVR' = lid /\ missed' = FALSE /\ flaky' = FALSE
      /\ stack' = Append(stack, [Call("poller", "status") EXCEPT !.open = lid])
      /\ UNCHANGED <<hardware, engine, sr, residual, flags, blocks, console, driveKnown, polling,
                     irqOn, state, halted, lied>>
  BY DEF diCoverPoller
<1>2. UNCHANGED <<lid, disc, patchedDrive, immbuf, mediaValidated, usingWiiDVDRRead, patchedGCNMedia,
                  bdev, bdevRegistered>>
  BY <1>1 DEF hardware, flags, blocks
<1>3. /\ Going /\ TypeOK /\ FlagsTyped /\ WireTyped /\ DriverTyped /\ stack \in Seq(Frame)
      /\ lid \in BOOLEAN /\ lastDICVR \in BOOLEAN
  BY <1>1, TypesAre, Types DEF DiscInv
<1>4. PICK e \in Frame :
        /\ stack' = Append(stack, e)
        /\ e.fn = "poller" /\ e.pc = "status" /\ e.wait = FALSE
        /\ e.out = "none" /\ e.clob = FALSE /\ e.open = lid
  BY <1>1, <1>3, PollerCallIs
<1>5. /\ StackTyped' /\ DOMAIN stack' = 1..n /\ stack'[n] = e /\ Len(stack') = n
      /\ \A i \in DOMAIN stack : i \in DOMAIN stack' /\ stack'[i] = stack[i] /\ i # n
      /\ \A i \in DOMAIN stack' : i \in DOMAIN stack \/ i = n
      /\ n \in DOMAIN stack'
  BY <1>1, <1>3, <1>4, PushIs
<1> HIDE DEF n
<1>6. \A i \in DOMAIN stack : stack[i].pc \in {"read", "status2"}
  <2>1. \A i \in DOMAIN stack : stack[i].fn \in {"init", "read"}
    BY <1>1, <1>3, StackIs DEF Frame
  <2>2. \A i \in DOMAIN stack :
          /\ stack[i].fn = "read" => stack[i].pc = "read"
          /\ stack[i].fn = "init" => stack[i].pc = "status2"
    BY <1>1, <1>3 DEF Going, Shaped
  <2>3. QED
    BY <2>1, <2>2
<1>7. \A i \in DOMAIN stack : stack[i].pc \notin
        Bringing \cup Probing \cup {"register", "size", "v0", "v16", "waitstatus"}
  BY <1>6 DEF Bringing, Probing
<1>8. lid = FALSE => bdev # TRUE
  <2>1. lid = FALSE => lastDICVR = TRUE
    BY <1>1, <1>3
  <2>2. QED
    BY <1>1, <1>3, <2>1 DEF Going, Slot
<1>9. Shaped'
  <2>1. \A i \in DOMAIN stack : stack'[i].fn # "poller"
    BY <1>1, <1>5
  <2>2. ASSUME NEW i \in DOMAIN stack
        PROVE  /\ stack'[i].fn = "read" <=> stack'[i].pc = "read"
               /\ stack'[i].fn = "init" => i = 1 /\ (polling' = TRUE <=> stack'[i].pc = "status2")
               /\ stack'[i].wait = TRUE => stack'[i].pc \in Commands
               /\ stack'[i].wait = FALSE => stack'[i].out = "none" /\ stack'[i].clob = FALSE
    BY <1>1, <1>3, <1>5 DEF Going, Shaped
  <2>3. QED
    BY <1>1, <1>4, <1>5, <2>1, <2>2 DEF Shaped
<1>10. Slot'
  <2>1. \A i \in DOMAIN stack' : stack'[i].pc \notin Bringing \/ i = n
    BY <1>5, <1>7
  <2>2. e.pc \in Bringing /\ ~Opened(e) => bdev' = FALSE
    <3>1. ~Opened(e) => lid = FALSE
      BY <1>3, <1>4 DEF Opened
    <3>2. bdev \in BOOLEAN
      BY <1>3, Types
    <3>3. QED
      BY <1>2, <1>8, <3>1, <3>2
  <2>3. \A i \in DOMAIN stack' : stack'[i].pc \notin Probing \cup {"register"}
    <3>1. e.pc \notin Probing \cup {"register"}
      BY <1>4 DEF Probing
    <3>2. QED
      BY <1>5, <1>7, <3>1
  <2>4. /\ bdevRegistered' = TRUE => bdev' = TRUE
        /\ bdev' = TRUE /\ bdevRegistered' = FALSE => FALSE
        /\ lastDICVR' = TRUE => \E i \in DOMAIN stack' : stack'[i].fn = "poller"
        /\ polling' = FALSE => FALSE
    BY <1>1, <1>2, <1>3, <1>4, <1>5, <1>7 DEF Going, Slot
  <2>5. QED
    BY <1>4, <1>5, <2>1, <2>2, <2>3, <2>4 DEF Slot
<1>11. Wired'
  BY <1>1, <1>3, <1>4, <1>5 DEF Going, Wired
<1>12. Told'
  BY <1>1, <1>3, <1>4, <1>5 DEF Going, Told
<1>13. Fit'
  <2>1. Still' => bdev # TRUE
    BY <1>1, <1>2, <1>8 DEF Still
  <2>2. bdevRegistered' = TRUE => bdev = TRUE
    BY <1>2, <1>3 DEF Going, Slot
  <2>3. \A i \in DOMAIN stack' : stack'[i].pc \notin {"size", "register", "v0", "v16"}
    BY <1>4, <1>5, <1>7
  <2>4. QED
    BY <2>1, <2>2, <2>3 DEF Fit
<1>14. Starting'
  <2>1. state # "notready" /\ state # "nohardware"
    BY <1>1, <1>3 DEF Going, Starting
  <2>2. \A i \in DOMAIN stack' : stack'[i].pc # "waitstatus"
    BY <1>4, <1>5, <1>7
  <2>3. QED
    BY <1>1, <2>1, <2>2 DEF Starting
<1>15. FlagsTyped' /\ WireTyped'
  BY <1>1, <1>2, <1>3 DEF FlagsTyped, WireTyped
<1>16. DriverTyped'
  BY <1>1, <1>2, <1>3 DEF DriverTyped
<1>17. QED
  BY <1>1, <1>5, <1>9, <1>10, <1>11, <1>12, <1>13, <1>14, <1>15, <1>16, Keeps DEF Going

(***************************************************************************)
(* The boot.                                                               *)
(***************************************************************************)
LEMMA HandoverKept == ASSUME DiscInv, Handover PROVE DiscInv'
<1>1. /\ halted = "no" /\ \A i \in DOMAIN stack : stack[i].pc # "register"
      /\ UNCHANGED <<hardware, residual, console, driveKnown, lastDICVR, lied, missed, stack, flaky>>
  BY DEF Handover
<1>2. UNCHANGED <<lid, disc, patchedDrive, immbuf>>
  BY <1>1 DEF hardware
<1>3. /\ Going /\ TypeOK /\ FlagsTyped /\ WireTyped /\ DriverTyped /\ StackTyped /\ ~lied
  BY <1>1, TypesAre DEF DiscInv
<1>4. (bdev = TRUE => bdevRegistered = TRUE) /\ bdev \in BOOLEAN /\ bdevRegistered \in BOOLEAN
      /\ (bdevRegistered = TRUE => bdev = TRUE)
  BY <1>1, KnownIs
<1>5. StackTyped' /\ ~lied'
  BY <1>1, <1>3 DEF StackTyped
<1>6. CASE state \in {"ready", "cleanable"}
  <2>1. /\ state' = "notready" /\ polling' = FALSE /\ irqOn' = FALSE /\ sr' = FALSE
        /\ Unregister /\ Forget /\ diUnwedge("handover")
    BY <1>6 DEF Handover
  <2>2. bdev' = FALSE /\ bdevRegistered' = FALSE
    BY <1>4, <2>1 DEF Unregister
  <2>3. /\ engine' \in [busy : BOOLEAN, dma : BOOLEAN, by : 0..MaxNesting]
        /\ halted' \in {"handover", "panic"}
        /\ halted' = "handover" => engine'.busy = FALSE
    <3> DEFINE N == 0..MaxNesting
    <3>1. 0 \in N /\ engine \in [busy : BOOLEAN, dma : BOOLEAN, by : N]
      BY <1>3, DiscAssumption DEF WireTyped
    <3> HIDE DEF N
    <3>2. Idle \in [busy : BOOLEAN, dma : BOOLEAN, by : N] /\ Idle.busy = FALSE
      BY <3>1 DEF Idle
    <3>3. /\ engine' \in [busy : BOOLEAN, dma : BOOLEAN, by : N]
          /\ halted' \in {"handover", "panic"}
          /\ halted' = "handover" => engine'.busy = FALSE
      BY <2>1, <3>1, <3>2 DEF diUnwedge
    <3>4. QED
      BY <3>3 DEF N
  <2>4. HandoverQuiet'
    BY <2>1, <2>2, <2>3 DEF HandoverQuiet
  <2>5. FlagsTyped' /\ WireTyped'
    BY <1>1, <1>2, <1>3, <2>1, <2>3 DEF FlagsTyped, WireTyped, Forget
  <2>6. DriverTyped'
    BY <1>1, <1>2, <1>3, <2>1, <2>2, <2>3 DEF DriverTyped
  <2>7. TypeOK'
    BY <1>5, <2>5, <2>6, TypesAreNext
  <2>8. QED
    BY <1>5, <2>2, <2>3, <2>4, <2>7 DEF DiscInv
<1>7. CASE state \notin {"ready", "cleanable"}
  <2>1. /\ halted' = "handover"
        /\ UNCHANGED <<state, polling, irqOn, sr, blocks, flags, engine>>
    BY <1>7 DEF Handover
  <2>2. UNCHANGED <<bdev, bdevRegistered, mediaValidated, usingWiiDVDRRead, patchedGCNMedia>>
    BY <2>1 DEF blocks, flags
  <2>3. state = "nohardware"
    BY <1>3, <1>7 DEF DriverTyped, Going, Starting
  <2>4. bdev = FALSE /\ polling = FALSE /\ Quiet
    BY <1>3, <2>3 DEF Going, Starting
  <2>5. HandoverQuiet' /\ bdevRegistered' = FALSE
    <3>1. ~(engine'.busy /\ engine'.dma)
      BY <1>3, <2>1, <2>4 DEF Quiet, WireTyped
    <3>2. QED
      BY <1>4, <2>1, <2>2, <2>4, <3>1 DEF HandoverQuiet
  <2>6. FlagsTyped' /\ WireTyped'
    BY <1>1, <1>2, <1>3, <2>1, <2>2 DEF FlagsTyped, WireTyped
  <2>7. DriverTyped'
    BY <1>1, <1>2, <1>3, <2>1, <2>2 DEF DriverTyped
  <2>8. TypeOK'
    BY <1>5, <2>6, <2>7, TypesAreNext
  <2>9. QED
    BY <1>5, <2>1, <2>5, <2>8 DEF DiscInv
<1>8. QED
  BY <1>6, <1>7

(***************************************************************************)
(* The theorems.                                                           *)
(***************************************************************************)
LEMMA StepKept == DiscInv /\ [Next]_vars => DiscInv'
<1> SUFFICES ASSUME DiscInv, [Next]_vars PROVE DiscInv'
  OBVIOUS
<1>1. CASE UNCHANGED vars
  <2>1. UNCHANGED <<console, lid, disc, engine, sr, residual, immbuf, patchedDrive, driveKnown, bdev,
                    bdevRegistered, mediaValidated, usingWiiDVDRRead, patchedGCNMedia, lastDICVR,
                    polling, irqOn, state, stack, halted, lied, missed, flaky>>
    BY <1>1 DEF vars, hardware, flags, blocks, control
  <2>2. TypeOK' <=> TypeOK
    BY <2>1 DEF TypeOK
  <2>3. HandoverQuiet' <=> HandoverQuiet
    BY <2>1 DEF HandoverQuiet
  <2>4. (Shaped' <=> Shaped) /\ (Slot' <=> Slot) /\ (Wired' <=> Wired) /\ (Told' <=> Told)
    BY <2>1 DEF Shaped, Slot, Wired, Told
  <2>5. (Fit' <=> Fit) /\ (Starting' <=> Starting)
    BY <2>1 DEF Fit, Still, Readable, Starting, Quiet
  <2>6. QED
    BY <2>1, <2>2, <2>3, <2>4, <2>5 DEF DiscInv, Going
<1>2. CASE Launch
  BY <1>2, LaunchKept
<1>3. CASE InitUnwedge
  BY <1>3, InitUnwedgeKept
<1>4. CASE Reset
  BY <1>4, ResetKept
<1>5. CASE WaitForStatus
  BY <1>5, WaitForStatusKept
<1>6. CASE Inquiry
  BY <1>6, InquiryKept
<1>7. CASE InitStatus
  BY <1>7, InitStatusKept
<1>8. CASE QueuePoller
  BY <1>8, QueuePollerKept
<1>9. CASE Ready
  BY <1>9, ReadyKept
<1>10. CASE CoverStatus
  BY <1>10, CoverStatusKept
<1>11. CASE Unlock
  BY <1>11, UnlockKept
<1>12. CASE ReadID
  BY <1>12, ReadIDKept
<1>13. CASE IDStatus
  BY <1>13, IDStatusKept
<1>14. CASE Validate0
  BY <1>14, Validate0Kept
<1>15. CASE Validate16
  BY <1>15, Validate16Kept
<1>16. CASE ReadDiscSize
  BY <1>16, ReadDiscSizeKept
<1>17. CASE Registered
  BY <1>17, RegisteredKept
<1>18. CASE ApplyPatches
  BY <1>18, ApplyPatchesKept
<1>19. CASE diRead
  BY <1>19, ReadKept
<1>20. CASE MoveCover
  BY <1>20, MoveCoverKept
<1>21. CASE DriveDone
  BY <1>21, DriveDoneKept
<1>22. CASE diIRQHandler
  BY <1>22, IRQKept
<1>23. CASE diCoverPoller
  BY <1>23, CoverPollerKept
<1>24. CASE StartRead
  BY <1>24, StartReadKept
<1>25. CASE Handover
  BY <1>25, HandoverKept
<1>26. QED
  BY <1>1, <1>2, <1>3, <1>4, <1>5, <1>6, <1>7, <1>8, <1>9, <1>10, <1>11, <1>12, <1>13, <1>14,
     <1>15, <1>16, <1>17, <1>18, <1>19, <1>20, <1>21, <1>22, <1>23, <1>24, <1>25 DEF Next, Step

\* The calls of drivers/di.c that are in progress at once, and what each
\* believes of the drive, keep the invariant above, whatever is interrupted.
THEOREM DriveIsFollowed == Spec => []DiscInv
<1>1. Init => DiscInv
  BY InitDisc
<1>2. DiscInv /\ [Next]_vars => DiscInv'
  BY StepKept
<1>3. QED
  BY <1>1, <1>2, PTL DEF Spec

\* diRead (di.c) never returns success without its data, although the
\* interrupt handler may have taken the error from SR before it looked,
\* as long as no other command was launched inside it.
THEOREM ReadsAreTruthful == Spec => []TruthfulReads
<1>1. DiscInv => TruthfulReads
  BY DEF DiscInv, TruthfulReads
<1>2. QED
  BY <1>1, DriveIsFollowed, PTL

\* diCleanup (di.c) leaves no transfer that writes to memory, no device and
\* no poller to a program that is started, wherever in a probe, a read or
\* the start of the driver the boot comes.
THEOREM StartedInPeace == Spec => []HandoverQuiet
<1>1. DiscInv => HandoverQuiet
  BY DEF DiscInv
<1>2. QED
  BY <1>1, DriveIsFollowed, PTL

\* What diProbeNewMedia (di.c) has registered is a disc that is there and
\* that diRead reads with the right command, whatever was in the drive
\* before, once the poller has seen the cover.
THEOREM DiscsAreReadable == Spec => []DiscKept
<1>1. DiscInv => DiscKept
  <2> SUFFICES ASSUME DiscInv PROVE DiscKept
    OBVIOUS
  <2>1. TypeOK
    BY DEF DiscInv
  <2>2. ASSUME bdevRegistered, Settled PROVE Readable
    <3>1. halted = "no" /\ Going /\ bdevRegistered = TRUE
      BY <2>1, <2>2, Types DEF DiscInv
    <3>2. bdev = TRUE
      BY <3>1 DEF Going, Slot
    <3>3. lastDICVR # TRUE
      BY <2>2, <3>1, <3>2 DEF Settled, Going, Slot
    <3>4. Still
      BY <2>1, <2>2, <3>3, Types DEF Settled, Still
    <3>5. QED
      BY <3>1, <3>4 DEF Going, Fit
  <2>3. QED
    BY <2>1, <2>2 DEF DiscKept, RegisteredReadable
<1>2. QED
  BY <1>1, DriveIsFollowed, PTL
=============================================================================

---------------------------- MODULE SdCardsProofs ----------------------------
(***************************************************************************)
(* The SD card slot for any number of calls that interrupt each other: no  *)
(* command is reported as done that the card has not done, none that it    *)
(* has done is waited for in vain; and, as long as the clock gets stable,  *)
(* card and host agree; and, on a Wii whose cards have a size, nothing is  *)
(* left registered.                                                        *)
(***************************************************************************)
EXTENDS SdCards, SequenceTheorems, TLAPS

(* Front drops the last element.                                            *)
LEMMA FrontElements ==
  ASSUME NEW S, NEW s \in Seq(S), s # <<>>
  PROVE  /\ Front(s) \in Seq(S) /\ Len(Front(s)) = Len(s) - 1
         /\ \A j \in 1..(Len(s) - 1) : Front(s)[j] = s[j]
<1>1. PICK n \in Nat : n = Len(s) - 1
  BY EmptySeq, LenProperties
<1>2. Front(s) = SubSeq(s, 1, n) /\ \A j \in 1..n : s[j] \in S
  BY <1>1, ElementOfSeq DEF Front
<1>3. Front(s) \in Seq(S) /\ Len(Front(s)) = IF 1 <= n THEN n - 1 + 1 ELSE 0
  BY <1>2, SubSeqProperties
<1>4. Len(Front(s)) = n
  BY <1>3
<1>5. \A j \in 1..n : j \in 1..(n - 1 + 1) /\ s[1 + j - 1] = s[j]
  OBVIOUS
<1>6. \A j \in 1..n : Front(s)[j] = s[j]
  BY <1>2, <1>5, SubSeqProperties
<1>7. QED
  BY <1>1, <1>3, <1>4, <1>6

-----------------------------------------------------------------------------
Frame == [fn : {"init", "check", "read"},
          pc : Commands \cup {"look", "reset", "register", "registered", "watch",
                              "gone", "unregister"},
          ph : {"start", "window", "wait"}, complete : {"none", "ok", "bad"},
          end : {"none", "good", "bad"}, sd : BOOLEAN]

\* A call is submitted from its time in the list to its return; what
\* mmc_init does before the device is registered; what it does after the
\* card has an address.
Submitted(f) == f.ph # "start"
Bringing == {"look", "reset", "register"} \cup (Commands \ {"read"})
After == {"setwidth", "status", "hscheck", "hsset", "prove", "register"}

(***************************************************************************)
(* The inductive invariant.  What each call is about, and that only reads  *)
(* and one check interrupt others.                                         *)
(***************************************************************************)
Shaped ==
  \A i \in DOMAIN stack :
    /\ stack[i].fn = "read" <=> stack[i].pc = "read"
    /\ stack[i].fn = "init" => i = 1 /\ ~polling /\ stack[i].pc \notin {"gone", "unregister"}
    /\ stack[i].fn = "check" => polling /\ stack[i].pc # "watch"
    /\ stack[i].pc \notin Commands => stack[i].ph = "start"
    /\ stack[i].ph = "start" => stack[i].complete = "none" /\ stack[i].end = "none"
    /\ stack[i].ph = "wait" => i = Len(stack)
    /\ \A j \in DOMAIN stack : stack[i].fn = "check" /\ stack[j].fn = "check" => i = j

\* A card is brought up only while none is registered, and nothing
\* interrupts that, for there is nothing to be read.
Slot ==
  /\ \A i \in DOMAIN stack :
       /\ stack[i].pc \in Bringing => i = Len(stack) /\ ~bdev /\ ~sdmmcRegistered
       /\ stack[i].pc \in {"registered", "unregister"} => ~sdmmcRegistered
       /\ stack[i].pc = "gone" => sdmmcRegistered
  /\ bdev /\ ~sdmmcRegistered
       => \E i \in DOMAIN stack : stack[i].pc \in {"registered", "unregister"}

\* The list holds the calls that wait for an answer, in the order of their
\* nesting, and nothing that was answered is above one of them.
InList ==
  /\ \A k \in DOMAIN list : Submitted(stack[list[k]]) /\ stack[list[k]].complete = "none"
  /\ \A j, k \in DOMAIN list : j < k => list[j] < list[k]
  /\ \A i \in DOMAIN stack : stack[i].complete # "none" => \A k \in DOMAIN list : list[k] > i

\* The command on the wire is the first of the list, or it was answered
\* already: then, or if it was put there over another one, the card that
\* it was meant for is gone.
Wired ==
  /\ wire.by = 0 => wire.await = "none"
  /\ wire.by # 0 =>
       /\ wire.by \in DOMAIN stack /\ Submitted(stack[wire.by])
       /\ wire.await # "none" /\ (wire.await = "data" => stack[wire.by].pc \in Data)
       /\ stack[wire.by].end # "good"
       /\ stack[wire.by].complete = "none" => list # <<>> /\ Head(list) = wire.by
       /\ stack[wire.by].complete # "none" \/ "ERR" \in pend \cup latch => ~card.known \/ ~bdev
       /\ \A k \in DOMAIN list : list[k] >= wire.by
  /\ \A i \in DOMAIN stack :
       /\ /\ stack[i].pc \in Bringing \ {"look", "reset", "appcmd"}
          /\ stack[i].ph = "start"
          => wire.by = 0 /\ list = <<>>
       /\ stack[i].end = "good" => wire.by = 0 \/ wire.by > i

\* Call n is the last one that has commands.
Owner(st, n) ==
  \/ n = Len(st)
  \/ /\ n = Len(st) - 1
     /\ st[Len(st)].fn = "check" /\ st[Len(st)].pc \in {"look", "reset", "gone", "unregister"}

\* Without a registered device, a call that the card may still answer is
\* the last one.
Orphans ==
  ~bdev => \A i \in DOMAIN stack :
    /\ Submitted(stack[i]) /\ stack[i].end = "none"
    /\ stack[i].complete = "none" \/ wire.by = i
    => Owner(stack, i)

\* The bits that say that the command of f is done.
Ends == {"CC", "TC"}
Says(bits, f) == "TC" \in bits \/ ("CC" \in bits /\ f.pc \notin Data)

\* They are about the first call of the list, or about nobody any more.
Evidence ==
  /\ list # <<>> =>
       /\ Says(pend \cup latch, stack[Head(list)]) => stack[Head(list)].end = "good"
       /\ Says(latch, stack[Head(list)]) =>
            pend \cap Ends = {} /\ ("CRM" \in pend => ~card.known)
       /\ /\ ~Says(latch, stack[Head(list)])
          /\ latch \cap {"ERR", "CRM"} # {} /\ pend \cap Ends # {}
          => Len(list) = 1 /\ ~bdev /\ Owner(stack, Head(list))
  /\ list = <<>> /\ (pend \cup latch) \cap Ends # {} =>
       /\ ~bdev
       /\ \E n \in DOMAIN stack :
            Owner(stack, n) /\ Submitted(stack[n]) /\ stack[n].complete = "bad"

\* A card whose removal was not seen yet has no address, unless another
\* one got one in the meantime; that one will not be registered.
Removed ==
  "CRM" \in pend \cup latch /\ card.known =>
    /\ ~bdev
    /\ \A i \in DOMAIN stack :
         stack[i].pc \notin After /\ ~(stack[i].pc = "identify" /\ stack[i].complete = "ok")

\* A call whose command is done and that does not know is the first of the
\* list, and the bits that say so are there.
Seen ==
  \A i \in DOMAIN stack :
    stack[i].end = "good" /\ stack[i].complete = "none"
      => list # <<>> /\ Head(list) = i /\ Says(pend \cup latch, stack[i])

Going == Shaped /\ Slot /\ InList /\ Wired /\ Orphans /\ Evidence /\ Removed

SdInv == TypeOK /\ TruthfulAnswers /\ Seen /\ (halted = "no" => Going)

(***************************************************************************)
(* The stack and the list, one element at a time.                          *)
(***************************************************************************)
LEMMA TopIs ==
  ASSUME NEW st \in Seq(Frame), st # <<>>
  PROVE  /\ Len(st) \in Nat /\ Len(st) >= 1 /\ DOMAIN st = 1..Len(st) /\ Len(st) \in DOMAIN st
         /\ Last(st) = st[Len(st)] /\ st[Len(st)] \in Frame
  BY EmptySeq, LenProperties, ElementOfSeq DEF Last

LEMMA StackIs ==
  ASSUME NEW st \in Seq(Frame)
  PROVE  /\ Len(st) \in Nat /\ DOMAIN st = 1..Len(st)
         /\ \A i \in DOMAIN st : st[i] \in Frame
  BY LenProperties, ElementOfSeq

LEMMA PutTop ==
  ASSUME NEW st \in Seq(Frame), st # <<>>, NEW e \in Frame
  PROVE  /\ [st EXCEPT ![Len(st)] = e] \in Seq(Frame)
         /\ Len([st EXCEPT ![Len(st)] = e]) = Len(st)
         /\ DOMAIN [st EXCEPT ![Len(st)] = e] = DOMAIN st
         /\ [st EXCEPT ![Len(st)] = e][Len(st)] = e
         /\ \A i \in DOMAIN st : i # Len(st) => [st EXCEPT ![Len(st)] = e][i] = st[i]
<1>1. Len(st) \in 1..Len(st) /\ DOMAIN st = 1..Len(st)
  BY TopIs
<1>2. QED
  BY <1>1, ExceptSeq

LEMMA PopTop ==
  ASSUME NEW st \in Seq(Frame), st # <<>>
  PROVE  /\ Front(st) \in Seq(Frame) /\ Len(Front(st)) = Len(st) - 1
         /\ DOMAIN Front(st) = 1..(Len(st) - 1)
         /\ \A i \in DOMAIN Front(st) : i \in DOMAIN st /\ i # Len(st) /\ Front(st)[i] = st[i]
<1>1. /\ Front(st) \in Seq(Frame) /\ Len(Front(st)) = Len(st) - 1
      /\ \A i \in 1..(Len(st) - 1) : Front(st)[i] = st[i]
  BY FrontElements
<1>2. Len(st) \in Nat /\ Len(st) >= 1 /\ DOMAIN st = 1..Len(st)
  BY TopIs
<1>3. DOMAIN Front(st) = 1..(Len(st) - 1)
  BY <1>1, LenProperties
<1>4. QED
  BY <1>1, <1>2, <1>3

LEMMA PushTop ==
  ASSUME NEW st \in Seq(Frame), NEW e \in Frame
  PROVE  /\ Append(st, e) \in Seq(Frame) /\ Len(Append(st, e)) = Len(st) + 1
         /\ DOMAIN Append(st, e) = 1..(Len(st) + 1)
         /\ Append(st, e)[Len(st) + 1] = e
         /\ \A i \in DOMAIN st : Append(st, e)[i] = st[i]
<1>1. /\ Append(st, e) \in Seq(Frame) /\ Len(Append(st, e)) = Len(st) + 1
      /\ \A i \in 1..Len(st) : Append(st, e)[i] = st[i]
      /\ Append(st, e)[Len(st) + 1] = e
  BY AppendProperties
<1>2. QED
  BY <1>1, LenProperties

\* A list whose elements are all among others is a list of those.
LEMMA SeqOfElements ==
  ASSUME NEW S, NEW T, NEW s \in Seq(S), \A i \in 1..Len(s) : s[i] \in T
  PROVE  s \in Seq(T)
<1>1. Len(s) \in Nat /\ s \in [1..Len(s) -> S]
  BY LenProperties
<1>2. s \in [1..Len(s) -> T]
  BY <1>1
<1>3. QED
  BY <1>1, <1>2, SeqDef

LEMMA ListIs ==
  ASSUME NEW S, NEW l \in Seq(S), l # <<>>
  PROVE  /\ Len(l) \in Nat /\ Len(l) >= 1 /\ DOMAIN l = 1..Len(l) /\ 1 \in DOMAIN l
         /\ Head(l) = l[1] /\ Head(l) \in S
         /\ \A k \in DOMAIN l : l[k] \in S
  BY EmptySeq, LenProperties, ElementOfSeq, HeadTailProperties

(***************************************************************************)
(* The initial state, and the types.                                       *)
(***************************************************************************)
LEMMA Types ==
  ASSUME TypeOK
  PROVE  /\ stack \in Seq(Frame) /\ Len(stack) <= MaxNesting
         /\ list \in Seq(DOMAIN stack)
         /\ card \in [in : BOOLEAN, known : BOOLEAN, wide : BOOLEAN, hs : BOOLEAN]
         /\ wire \in [by : 0..MaxNesting, await : {"none", "response", "data"}]
         /\ pend \subseteq Bits /\ latch \subseteq Bits
         /\ host \in [wide : BOOLEAN, clock : {"off", "init", "default", "fast"}]
         /\ flag \in BOOLEAN /\ irqOn \in BOOLEAN /\ mmcDev \in BOOLEAN /\ bdev \in BOOLEAN
         /\ emmc \in BOOLEAN /\ sdmmcRegistered \in BOOLEAN /\ checkConnected \in BOOLEAN
         /\ polling \in BOOLEAN /\ flaky \in BOOLEAN /\ sizeless \in BOOLEAN
         /\ state \in {"ready", "nohardware", "notready"}
         /\ halted \in {"no", "handover", "left", "missing"}
  BY DEF TypeOK, Frame

LEMMA CallIs ==
  ASSUME NEW fn \in {"init", "check", "read"},
         NEW pc \in Commands \cup {"look", "reset", "register", "registered", "watch",
                                   "gone", "unregister"}
  PROVE  /\ Call(fn, pc) \in Frame
         /\ Call(fn, pc).fn = fn /\ Call(fn, pc).pc = pc /\ Call(fn, pc).ph = "start"
         /\ Call(fn, pc).complete = "none" /\ Call(fn, pc).end = "none"
         /\ ~Submitted(Call(fn, pc))
  BY DEF Call, Frame, Submitted

LEMMA InitSd == Init => SdInv
<1> SUFFICES ASSUME Init PROVE SdInv
  OBVIOUS
<1> DEFINE e == Call("init", "look")
<1>1. e \in Frame /\ e.fn = "init" /\ e.pc = "look" /\ e.ph = "start"
      /\ e.complete = "none" /\ e.end = "none"
  BY CallIs
<1>2. stack = <<e>> /\ list = <<>>
  BY DEF Init
<1>3. stack \in Seq(Frame) /\ Len(stack) = 1 /\ DOMAIN stack = {1} /\ stack[1] = e
      /\ DOMAIN list = {} /\ list \in Seq(DOMAIN stack)
  <2> HIDE DEF e
  <2>1. QED
    BY <1>1, <1>2
<1> HIDE DEF e
<1>4. TypeOK
  <2>1. card \in [in : BOOLEAN, known : BOOLEAN, wide : BOOLEAN, hs : BOOLEAN]
    <3> DEFINE C == [in : BOOLEAN, known : BOOLEAN, wide : BOOLEAN, hs : BOOLEAN]
               none == NoCard
    <3>1. none \in C
      BY DEF NoCard
    <3>2. card = none \/ card = [none EXCEPT !.in = TRUE]
      BY DEF Init
    <3> HIDE DEF none
    <3>3. [none EXCEPT !.in = TRUE] \in C
      BY <3>1
    <3>4. QED
      BY <3>1, <3>2, <3>3
  <2>2. wire \in [by : 0..MaxNesting, await : {"none", "response", "data"}]
        /\ pend \subseteq Bits /\ latch \subseteq Bits
        /\ host \in [wide : BOOLEAN, clock : {"off", "init", "default", "fast"}]
        /\ Len(stack) <= MaxNesting
    BY <1>3, SdCardsAssumption DEF Init, Idle
  <2>3. \A v \in {flag, irqOn, mmcDev, bdev, emmc, sdmmcRegistered, checkConnected, polling,
                  flaky, sizeless} : v \in BOOLEAN
    BY DEF Init
  <2>4. state \in {"ready", "nohardware", "notready"} /\ halted \in {"no", "handover", "left", "missing"}
    BY DEF Init
  <2>5. QED
    BY <1>3, <2>1, <2>2, <2>3, <2>4 DEF TypeOK, Frame
<1>5. TruthfulAnswers /\ Seen
  BY <1>1, <1>3 DEF TruthfulAnswers, Seen
<1>6. Shaped
  BY <1>1, <1>3 DEF Shaped, Init, Commands
<1>7. Slot
  BY <1>1, <1>3 DEF Slot, Init
<1>8. InList /\ Orphans
  BY <1>1, <1>3 DEF InList, Orphans, Submitted
<1>9. Wired
  BY <1>1, <1>3 DEF Wired, Init, Idle
<1>10. Evidence /\ Removed
  BY <1>2 DEF Evidence, Removed, Init
<1>11. QED
  BY <1>4, <1>5, <1>6, <1>7, <1>8, <1>9, <1>10 DEF SdInv, Going

(***************************************************************************)
(* A command returns (Returns): its call was the last one that waited, so  *)
(* that nothing is on the wire then, the list is empty, and no bit of a    *)
(* finished command is left.                                               *)
(***************************************************************************)
Settled ==
  /\ list' = <<>> /\ wire' = Idle
  /\ latch = {} /\ latch' = {} /\ pend' \subseteq pend /\ pend' \cap Ends = {}
  /\ UNCHANGED <<flag, irqOn>>
  /\ \A i \in DOMAIN stack : ~(stack[i].end = "good" /\ stack[i].complete = "none")

LEMMA AboveAll ==
  ASSUME TypeOK, InList, stack # <<>>, stack[Len(stack)].complete # "none"
  PROVE  list = <<>>
<1>1. stack \in Seq(Frame) /\ list \in Seq(DOMAIN stack)
  BY Types
<1>2. Len(stack) \in Nat /\ DOMAIN stack = 1..Len(stack) /\ Len(stack) \in DOMAIN stack
  BY <1>1, TopIs
<1>3. SUFFICES ASSUME list # <<>> PROVE FALSE
  OBVIOUS
<1>4. 1 \in DOMAIN list /\ list[1] \in DOMAIN stack
  BY <1>1, <1>3, ListIs
<1>5. list[1] > Len(stack)
  BY <1>2, <1>4 DEF InList
<1>6. QED
  BY <1>2, <1>4, <1>5

LEMMA ReturnsSettles ==
  ASSUME SdInv, NEW pc, NEW r, Returns(pc, r)
  PROVE  /\ halted = "no" /\ stack # <<>> /\ Going
         /\ stack[Len(stack)].pc = pc /\ Submitted(stack[Len(stack)])
         /\ (r = "ok" => stack[Len(stack)].complete = "ok")
         /\ Settled
<1> DEFINE n == Len(stack)
           f == stack[n]
<1>1. TypeOK /\ TruthfulAnswers /\ Seen
  BY DEF SdInv
<1>2. stack # <<>> /\ halted = "no" /\ latch = {}
  BY DEF Returns, Running
<1>3. Going
  BY <1>2 DEF SdInv
<1>4. /\ stack \in Seq(Frame) /\ list \in Seq(DOMAIN stack) /\ pend \subseteq Bits
      /\ wire \in [by : 0..MaxNesting, await : {"none", "response", "data"}]
  BY <1>1, Types
<1>5. n \in Nat /\ n >= 1 /\ DOMAIN stack = 1..n /\ n \in DOMAIN stack /\ Top = f
  BY <1>2, <1>4, TopIs DEF Top
<1> HIDE DEF n, f
<1>6. f.pc = pc /\ f.ph = "wait" /\ latch' = latch /\ UNCHANGED <<flag, irqOn>>
  BY <1>5 DEF Returns
<1>7. Submitted(f)
  BY <1>6 DEF Submitted
<1>8. f.complete # "none" => list = <<>>
  BY <1>1, <1>2, <1>3, AboveAll DEF Going, n, f
<1>9. CASE f.complete = "ok"
  <2>1. r = "ok" /\ UNCHANGED <<wire, pend, list>> /\ list = <<>>
    BY <1>5, <1>8, <1>9 DEF Returns
  <2>2. f.end = "good"
    BY <1>1, <1>5, <1>9 DEF TruthfulAnswers, f
  <2>3. wire.by = 0 \/ wire.by > n
    BY <1>3, <1>5, <2>2 DEF Going, Wired, f
  <2>4. wire.by \in DOMAIN stack \/ wire.by = 0
    BY <1>3 DEF Going, Wired
  <2>5. wire.by = 0
    BY <1>5, <2>3, <2>4
  <2>6. wire.await = "none"
    BY <1>3, <2>5 DEF Going, Wired
  <2>7. wire = Idle
    BY <1>4, <2>5, <2>6 DEF Idle
  <2>8. pend \cap Ends = {}
    <3>1. SUFFICES ASSUME pend \cap Ends # {} PROVE FALSE
      OBVIOUS
    <3>2. PICK m \in DOMAIN stack : Owner(stack, m) /\ Submitted(stack[m]) /\ stack[m].complete = "bad"
      BY <1>2, <1>3, <2>1, <3>1 DEF Going, Evidence
    <3>3. m # n
      BY <1>9, <3>2 DEF f
    <3>4. f.pc \in {"look", "reset", "gone", "unregister"}
      BY <3>2, <3>3 DEF Owner, f, n
    <3>5. f.ph = "start"
      BY <1>3, <1>5, <3>4 DEF Going, Shaped, Commands, f
    <3>6. QED
      BY <1>6, <3>5
  <2>9. \A i \in DOMAIN stack : ~(stack[i].end = "good" /\ stack[i].complete = "none")
    BY <1>1, <2>1 DEF Seen
  <2>10. QED
    BY <1>2, <1>3, <1>6, <1>7, <1>9, <2>1, <2>7, <2>8, <2>9 DEF Settled, n, f
<1>10. CASE f.complete = "bad"
  <2>1. r = "fail" /\ wire' = Idle /\ pend' = Quiet(pend) /\ list' = list /\ list = <<>>
    BY <1>5, <1>8, <1>10 DEF Returns
  <2>2. pend' \subseteq pend /\ pend' \cap Ends = {}
    BY <2>1 DEF Quiet, Ends
  <2>3. \A i \in DOMAIN stack : ~(stack[i].end = "good" /\ stack[i].complete = "none")
    BY <1>1, <2>1 DEF Seen
  <2>4. QED
    BY <1>2, <1>3, <1>6, <1>7, <2>1, <2>2, <2>3 DEF Settled, n, f
<1>11. CASE f.complete = "none"
  <2>1. r = "fail" /\ wire' = Idle /\ pend = {} /\ pend' = pend /\ list' = <<>>
    BY <1>5, <1>11 DEF Returns
  <2>2. \A i \in DOMAIN stack : ~(stack[i].end = "good" /\ stack[i].complete = "none")
    BY <1>1, <1>2, <2>1 DEF Seen, Says
  <2>3. pend' \subseteq pend /\ pend' \cap Ends = {}
    BY <2>1
  <2>4. QED
    BY <1>2, <1>3, <1>6, <1>7, <2>1, <2>2, <2>3 DEF Settled, n, f
<1>12. f.complete \in {"none", "ok", "bad"}
  BY <1>4, <1>5, StackIs DEF Frame, f
<1>13. QED
  BY <1>9, <1>10, <1>11, <1>12

LEMMA Within ==
  ASSUME NEW n \in Nat, NEW m \in Nat, m <= n
  PROVE  /\ \A i \in 1..m : i \in 1..n /\ (i = n => m = n)
         /\ \A k \in Nat : n <= k => m <= k
  OBVIOUS

\* What a return leaves of the invariant when the running call goes on to
\* its next step or ends.
LEMMA SettledKept ==
  ASSUME SdInv, Going, Settled, stack # <<>>, Submitted(stack[Len(stack)]),
         stack' \in Seq(Frame), bdev' = bdev, Len(stack') <= Len(stack),
         \A i \in DOMAIN stack' : i # Len(stack) => stack'[i] = stack[i],
         Len(stack') = Len(stack) =>
           /\ stack'[Len(stack)].ph = "start" /\ stack'[Len(stack)].complete = "none"
           /\ stack'[Len(stack)].end = "none"
  PROVE  InList' /\ Wired' /\ Orphans' /\ Evidence' /\ Seen' /\ TruthfulAnswers'
<1> DEFINE n == Len(stack)
<1>1. TypeOK /\ TruthfulAnswers
  BY DEF SdInv
<1>2. stack \in Seq(Frame)
  BY <1>1, Types
<1>3. n \in Nat /\ n >= 1 /\ DOMAIN stack = 1..n
  BY <1>2, TopIs
<1>4. Len(stack') \in Nat /\ DOMAIN stack' = 1..Len(stack')
  BY StackIs
<1>5. \A i \in DOMAIN stack' : i \in DOMAIN stack /\ (i # n => stack'[i] = stack[i])
        /\ (i = n => stack'[i].ph = "start" /\ stack'[i].complete = "none" /\ stack'[i].end = "none")
  <2>1. ASSUME NEW i \in DOMAIN stack'
        PROVE  i \in DOMAIN stack /\ (i = n => Len(stack') = n)
    BY <1>3, <1>4, Within
  <2>2. QED
    BY <2>1
<1> HIDE DEF n
<1>6. list' = <<>> /\ DOMAIN list' = {} /\ wire'.by = 0 /\ wire'.await = "none"
  BY DEF Settled, Idle
<1>7. InList'
  BY <1>6 DEF InList
<1>8. Wired'
  BY <1>6 DEF Wired
<1>9. Seen'
  BY <1>5 DEF Seen, Settled
<1>10. TruthfulAnswers'
  BY <1>1, <1>5 DEF TruthfulAnswers
<1>11. Evidence'
  <2>1. (pend' \cup latch') \cap Ends = {}
    BY DEF Settled
  <2>2. QED
    BY <1>6, <2>1 DEF Evidence
<1>12. Orphans'
  <2>1. SUFFICES ASSUME ~bdev', NEW i \in DOMAIN stack',
                        Submitted(stack'[i]), stack'[i].end = "none",
                        stack'[i].complete = "none" \/ wire'.by = i
                 PROVE  FALSE
    BY DEF Orphans
  <2>2. i # n /\ i \in DOMAIN stack /\ stack'[i] = stack[i]
    BY <1>5, <2>1 DEF Submitted
  <2>3. stack[i].complete = "none"
    BY <1>3, <1>6, <2>1, <2>2
  <2>4. Owner(stack, i)
    BY <2>1, <2>2, <2>3 DEF Going, Orphans
  <2>5. n \in DOMAIN stack /\ stack[n].pc \notin {"look", "reset", "gone", "unregister"}
    <3>1. n \in DOMAIN stack
      BY <1>3
    <3>2. QED
      BY <3>1 DEF Going, Shaped, Submitted, Commands, n
  <2>6. QED
    BY <2>2, <2>4, <2>5 DEF Owner, n
<1>13. QED
  BY <1>7, <1>8, <1>9, <1>10, <1>11, <1>12

\* The running call goes on to a step of its own kind.
LEMMA ShapedReplace ==
  ASSUME TypeOK, Shaped, stack # <<>>, NEW e \in Frame,
         stack' = [stack EXCEPT ![Len(stack)] = e], polling' = polling,
         e.fn = stack[Len(stack)].fn, e.ph = "start", e.complete = "none", e.end = "none",
         e.fn = "read" <=> e.pc = "read",
         e.fn = "init" => e.pc \notin {"gone", "unregister"},
         e.fn = "check" => e.pc # "watch"
  PROVE  Shaped'
<1> DEFINE n == Len(stack)
<1>1. stack \in Seq(Frame)
  BY Types
<1>2. n \in DOMAIN stack
  BY <1>1, TopIs
<1>3. /\ DOMAIN stack' = DOMAIN stack /\ Len(stack') = n /\ stack'[n] = e
      /\ \A i \in DOMAIN stack : i # n => stack'[i] = stack[i]
  BY <1>1, PutTop
<1> HIDE DEF n
<1>4. \A i \in DOMAIN stack : stack'[i].fn = stack[i].fn
  BY <1>3 DEF n
<1>5. ASSUME NEW i \in DOMAIN stack'
      PROVE  /\ stack'[i].fn = "read" <=> stack'[i].pc = "read"
             /\ stack'[i].fn = "init" => i = 1 /\ ~polling' /\ stack'[i].pc \notin {"gone", "unregister"}
             /\ stack'[i].fn = "check" => polling' /\ stack'[i].pc # "watch"
             /\ stack'[i].pc \notin Commands => stack'[i].ph = "start"
             /\ stack'[i].ph = "start" => stack'[i].complete = "none" /\ stack'[i].end = "none"
             /\ stack'[i].ph = "wait" => i = Len(stack')
  <2>1. CASE i = n
    BY <1>2, <1>3, <2>1 DEF Shaped, n
  <2>2. CASE i # n
    BY <1>3, <2>2 DEF Shaped, n
  <2>3. QED
    BY <2>1, <2>2
<1>6. \A i, j \in DOMAIN stack' : stack'[i].fn = "check" /\ stack'[j].fn = "check" => i = j
  BY <1>3, <1>4 DEF Shaped
<1>7. QED
  BY <1>5, <1>6 DEF Shaped

\* It returns.
LEMMA ShapedPop ==
  ASSUME TypeOK, Shaped, stack # <<>>, stack' = Front(stack),
         polling' = polling \/ (polling' /\ stack[Len(stack)].fn = "init"),
         \A i \in DOMAIN stack : i # Len(stack) => stack[i].ph # "wait"
  PROVE  Shaped'
<1> DEFINE n == Len(stack)
<1>1. stack \in Seq(Frame)
  BY Types
<1>2. n \in Nat /\ n >= 1 /\ DOMAIN stack = 1..n
  BY <1>1, TopIs
<1>3. /\ DOMAIN stack' = 1..(n - 1)
      /\ \A i \in DOMAIN stack' : i \in DOMAIN stack /\ i # n /\ stack'[i] = stack[i]
  BY <1>1, PopTop
<1>4. stack[n].fn = "init" => DOMAIN stack' = {}
  <2>1. stack[n].fn = "init" => n = 1
    BY <1>2 DEF Shaped
  <2>2. QED
    BY <1>3, <2>1
<1> HIDE DEF n
<1>5. ASSUME NEW i \in DOMAIN stack'
      PROVE  /\ stack'[i].fn = "read" <=> stack'[i].pc = "read"
             /\ stack'[i].fn = "init" => i = 1 /\ ~polling' /\ stack'[i].pc \notin {"gone", "unregister"}
             /\ stack'[i].fn = "check" => polling' /\ stack'[i].pc # "watch"
             /\ stack'[i].pc \notin Commands => stack'[i].ph = "start"
             /\ stack'[i].ph = "start" => stack'[i].complete = "none" /\ stack'[i].end = "none"
             /\ stack'[i].ph # "wait"
  BY <1>3, <1>4 DEF Shaped, n
<1>6. \A i, j \in DOMAIN stack' : stack'[i].fn = "check" /\ stack'[j].fn = "check" => i = j
  BY <1>3 DEF Shaped
<1>7. QED
  BY <1>5, <1>6 DEF Shaped

LEMMA LowerNotWaiting ==
  ASSUME Shaped
  PROVE  \A i \in DOMAIN stack : i # Len(stack) => stack[i].ph # "wait"
  BY DEF Shaped

\* What can be said of the removals a return does not change.
LEMMA RemovedKept ==
  ASSUME Removed, latch' \subseteq latch \cup pend, pend' \subseteq pend \cup latch,
         card' = card, bdev' = bdev,
         \A i \in DOMAIN stack' :
           \/ i \in DOMAIN stack /\ stack'[i] = stack[i]
           \/ stack'[i].complete = "none" /\ stack'[i].pc \notin After
           \/ /\ stack'[i].complete = "none" /\ i \in DOMAIN stack
              /\ stack[i].pc \in After \/ (stack[i].pc = "identify" /\ stack[i].complete = "ok")
  PROVE  Removed'
<1>1. SUFFICES ASSUME "CRM" \in pend' \cup latch', card'.known
               PROVE  /\ ~bdev'
                      /\ \A i \in DOMAIN stack' :
                           stack'[i].pc \notin After /\ ~(stack'[i].pc = "identify" /\ stack'[i].complete = "ok")
  BY DEF Removed
<1>2. /\ ~bdev
      /\ \A i \in DOMAIN stack :
           stack[i].pc \notin After /\ ~(stack[i].pc = "identify" /\ stack[i].complete = "ok")
  BY <1>1 DEF Removed
<1>3. QED
  BY <1>2

\* A step of mmc_init: the call goes on to the next one, or it ends, and
\* with it sdmmcInit lets the watch begin.
Brings(r) ==
  /\ \/ \E pc \in (Commands \ {"read"}) \cup {"register"}, sd \in BOOLEAN :
          /\ stack' = [stack EXCEPT ![Me] = [Call(Top.fn, pc) EXCEPT !.sd = sd]]
          /\ pc \in After => Top.pc \in After \/ (Top.pc = "identify" /\ r = "ok")
     \/ End
  /\ card' = card
  /\ UNCHANGED <<bdev, emmc, sdmmcRegistered, checkConnected, polling, halted, sizeless>>
  /\ host' \in [wide : BOOLEAN, clock : {"off", "init", "default", "fast"}]
  /\ mmcDev' \in BOOLEAN /\ flaky' \in BOOLEAN /\ sizeless' \in BOOLEAN
  /\ state' \in {"ready", "nohardware", "notready"}

LEMMA CallWith ==
  ASSUME NEW fn \in {"init", "check", "read"}, NEW sd \in BOOLEAN,
         NEW pc \in Commands \cup {"look", "reset", "register", "registered", "watch",
                                   "gone", "unregister"}
  PROVE  LET e == [Call(fn, pc) EXCEPT !.sd = sd] IN
         /\ e \in Frame /\ e.fn = fn /\ e.pc = pc /\ e.ph = "start"
         /\ e.complete = "none" /\ e.end = "none"
<1> DEFINE c == Call(fn, pc)
<1>1. /\ c \in Frame /\ c.fn = fn /\ c.pc = pc /\ c.ph = "start"
      /\ c.complete = "none" /\ c.end = "none"
  BY CallIs
<1> DEFINE e == [c EXCEPT !.sd = sd]
<1> HIDE DEF c
<1>2. /\ e \in Frame /\ e.fn = fn /\ e.pc = pc /\ e.ph = "start"
      /\ e.complete = "none" /\ e.end = "none"
  BY <1>1 DEF Frame
<1>3. QED
  BY <1>2 DEF c

LEMMA BringsKept ==
  ASSUME SdInv, NEW pc \in Commands \ {"read"}, NEW r, Returns(pc, r), Brings(r)
  PROVE  SdInv'
<1> DEFINE n == Len(stack)
           f == stack[n]
<1>1. /\ halted = "no" /\ stack # <<>> /\ Going /\ f.pc = pc /\ Submitted(f)
      /\ (r = "ok" => f.complete = "ok") /\ Settled
  BY ReturnsSettles
<1>2. TypeOK /\ Shaped /\ Slot /\ Removed
  BY <1>1 DEF SdInv, Going
<1>3. /\ stack \in Seq(Frame) /\ Len(stack) <= MaxNesting
      /\ pend \subseteq Bits /\ latch \subseteq Bits
      /\ flag \in BOOLEAN /\ irqOn \in BOOLEAN
      /\ emmc \in BOOLEAN /\ sdmmcRegistered \in BOOLEAN /\ checkConnected \in BOOLEAN
      /\ polling \in BOOLEAN /\ bdev \in BOOLEAN /\ halted \in {"no", "handover", "left", "missing"}
      /\ card \in [in : BOOLEAN, known : BOOLEAN, wide : BOOLEAN, hs : BOOLEAN]
  BY <1>2, Types
<1>4. n \in Nat /\ n >= 1 /\ DOMAIN stack = 1..n /\ n \in DOMAIN stack /\ Top = f /\ f \in Frame
  BY <1>1, <1>3, TopIs DEF Top
<1>5. f.fn \in {"init", "check"} /\ f.pc \in Bringing /\ ~bdev /\ ~sdmmcRegistered
  <2>1. f.fn # "read" /\ f.fn \in {"init", "check", "read"}
    BY <1>1, <1>2, <1>4 DEF Shaped, Frame
  <2>2. f.pc \in Bringing
    BY <1>1 DEF Bringing
  <2>3. QED
    BY <1>2, <1>4, <2>1, <2>2 DEF Slot, f
<1>6. \A i \in DOMAIN stack : i # n => stack[i].ph # "wait" /\ stack[i].pc \notin Bringing
  BY <1>2, LowerNotWaiting DEF Slot, n
<1>7. MaxNesting \in Nat
  BY SdCardsAssumption
\* What follows for both ways to go on.
<1>8. ASSUME stack' \in Seq(Frame), Len(stack') <= n, list' \in Seq(DOMAIN stack'), Shaped', Slot',
             \A i \in DOMAIN stack' : i # n => i \in DOMAIN stack /\ stack'[i] = stack[i],
             Len(stack') = n =>
               /\ stack'[n].ph = "start" /\ stack'[n].complete = "none" /\ stack'[n].end = "none"
               /\ stack'[n].pc \notin After \/ f.pc \in After
                  \/ (f.pc = "identify" /\ f.complete = "ok")
      PROVE  SdInv'
  <2>1. Len(stack') \in Nat /\ DOMAIN stack' = 1..Len(stack')
    BY <1>8, StackIs
  <2>2. \A i \in DOMAIN stack' : i = n => Len(stack') = n
    BY <1>4, <1>8, <2>1, Within
  <2>3. InList' /\ Wired' /\ Orphans' /\ Evidence' /\ Seen' /\ TruthfulAnswers'
    <3>1. bdev' = bdev
      BY DEF Brings
    <3>2. QED
      BY <1>1, <1>8, <3>1, SettledKept DEF n, f
  <2>4. Removed'
    <3>1. latch' \subseteq latch \cup pend /\ pend' \subseteq pend \cup latch
      BY <1>1 DEF Settled
    <3>2. card' = card /\ bdev' = bdev
      BY DEF Brings
    <3>3. \A i \in DOMAIN stack' :
            \/ i \in DOMAIN stack /\ stack'[i] = stack[i]
            \/ stack'[i].complete = "none" /\ stack'[i].pc \notin After
            \/ /\ stack'[i].complete = "none" /\ i \in DOMAIN stack
               /\ stack[i].pc \in After \/ (stack[i].pc = "identify" /\ stack[i].complete = "ok")
      <4>1. TAKE i \in DOMAIN stack'
      <4>2. CASE i # n
        BY <1>8, <4>2
      <4>3. CASE i = n
        BY <1>4, <1>8, <2>2, <4>3
      <4>4. QED
        BY <4>2, <4>3
    <3>4. QED
      BY <1>2, <3>1, <3>2, <3>3, RemovedKept
  <2>5. TypeOK'
    <3>1. Len(stack') <= MaxNesting
      BY <1>3, <1>4, <1>7, <1>8, <2>1, Within
    <3>2. wire' \in [by : 0..MaxNesting, await : {"none", "response", "data"}]
      BY <1>1, <1>7 DEF Settled, Idle
    <3>3. pend' \subseteq Bits /\ latch' \subseteq Bits
      BY <1>1, <1>3 DEF Settled
    <3>4. flag' \in BOOLEAN /\ irqOn' \in BOOLEAN
      BY <1>1, <1>3 DEF Settled
    <3>5. /\ card' \in [in : BOOLEAN, known : BOOLEAN, wide : BOOLEAN, hs : BOOLEAN]
          /\ bdev' \in BOOLEAN /\ emmc' \in BOOLEAN /\ sdmmcRegistered' \in BOOLEAN
          /\ checkConnected' \in BOOLEAN /\ polling' \in BOOLEAN
          /\ halted' \in {"no", "handover", "left", "missing"}
      BY <1>3 DEF Brings
    <3>6. /\ host' \in [wide : BOOLEAN, clock : {"off", "init", "default", "fast"}]
          /\ mmcDev' \in BOOLEAN /\ flaky' \in BOOLEAN /\ sizeless' \in BOOLEAN
          /\ state' \in {"ready", "nohardware", "notready"}
      BY DEF Brings
    <3>7. QED
      BY <1>8, <3>1, <3>2, <3>3, <3>4, <3>5, <3>6 DEF TypeOK, Frame
  <2>6. QED
    BY <1>8, <2>3, <2>4, <2>5 DEF SdInv, Going
<1> HIDE DEF n, f
<1>9. ASSUME NEW e \in Frame, stack' = [stack EXCEPT ![n] = e], e.fn = f.fn, e.ph = "start",
             e.complete = "none", e.end = "none", e.pc \notin {"read", "gone", "unregister"},
             e.pc = "watch" => f.fn = "init", e.pc \in Bringing \/ e.pc = "watch",
             e.pc \in After => f.pc \in After \/ (f.pc = "identify" /\ f.complete = "ok")
      PROVE  SdInv'
  <2>1. /\ stack' \in Seq(Frame) /\ Len(stack') = n /\ DOMAIN stack' = DOMAIN stack /\ stack'[n] = e
        /\ \A i \in DOMAIN stack : i # n => stack'[i] = stack[i]
    BY <1>1, <1>3, <1>9, PutTop DEF n
  <2>2. polling' = polling /\ bdev' = bdev /\ sdmmcRegistered' = sdmmcRegistered
    BY DEF Brings
  <2>3. Shaped'
    BY <1>1, <1>2, <1>5, <1>9, <2>2, ShapedReplace DEF n, f
  <2>4. Slot'
    <3>1. ASSUME NEW i \in DOMAIN stack'
          PROVE  /\ stack'[i].pc \in Bringing => i = Len(stack') /\ ~bdev' /\ ~sdmmcRegistered'
                 /\ stack'[i].pc \in {"registered", "unregister"} => ~sdmmcRegistered'
                 /\ stack'[i].pc = "gone" => sdmmcRegistered'
      <4>1. CASE i = n
        BY <1>5, <1>9, <2>1, <2>2, <4>1
      <4>2. CASE i # n
        BY <1>2, <1>5, <1>6, <2>1, <2>2, <4>2 DEF Slot
      <4>3. QED
        BY <4>1, <4>2
    <3>2. ~bdev'
      BY <1>5, <2>2
    <3>3. QED
      BY <3>1, <3>2 DEF Slot
  <2>5. list' \in Seq(DOMAIN stack')
    BY <1>1, EmptySeq DEF Settled
  <2>6. Len(stack') <= n
    BY <1>4, <2>1
  <2>7. QED
    BY <1>8, <1>9, <2>1, <2>3, <2>4, <2>5, <2>6
<1>10. CASE stack' = Front(stack)
  <2>1. /\ stack' \in Seq(Frame) /\ Len(stack') = n - 1 /\ DOMAIN stack' = 1..(n - 1)
        /\ \A i \in DOMAIN stack' : i \in DOMAIN stack /\ i # n /\ stack'[i] = stack[i]
    BY <1>1, <1>3, <1>10, PopTop DEF n
  <2>2. polling' = polling /\ bdev' = bdev /\ sdmmcRegistered' = sdmmcRegistered
    BY DEF Brings
  <2>3. Shaped'
    BY <1>1, <1>2, <1>6, <1>10, <2>2, ShapedPop DEF n
  <2>4. Slot'
    BY <1>2, <1>5, <1>6, <2>1, <2>2 DEF Slot
  <2>5. list' \in Seq(DOMAIN stack')
    BY <1>1, EmptySeq DEF Settled
  <2>6. Len(stack') <= n /\ Len(stack') # n
    BY <1>4, <2>1
  <2>7. QED
    BY <1>8, <2>1, <2>3, <2>4, <2>5, <2>6
<1>11. CASE End
  <2>1. CASE f.fn # "init"
    BY <1>4, <1>10, <1>11, <2>1 DEF End, Ended
  <2>2. CASE f.fn = "init"
    <3> DEFINE e == Call(f.fn, "watch")
    <3>1. e \in Frame /\ e.fn = f.fn /\ e.pc = "watch" /\ e.ph = "start" /\ e.complete = "none" /\ e.end = "none"
      BY <1>5, CallIs
    <3>2. stack' = [stack EXCEPT ![n] = e]
      BY <1>4, <1>11, <2>2 DEF End, Ended, Me, n
    <3> HIDE DEF e
    <3>3. e.pc \notin After
      BY <3>1 DEF After
    <3>4. QED
      BY <1>9, <2>2, <3>1, <3>2, <3>3
  <2>3. QED
    BY <2>1, <2>2
<1>12. CASE ~End
  <2>1. PICK q \in (Commands \ {"read"}) \cup {"register"}, sd \in BOOLEAN :
          /\ stack' = [stack EXCEPT ![n] = [Call(f.fn, q) EXCEPT !.sd = sd]]
          /\ q \in After => f.pc \in After \/ (f.pc = "identify" /\ r = "ok")
    BY <1>4, <1>12 DEF Brings, Me, n
  <2> DEFINE e == [Call(f.fn, q) EXCEPT !.sd = sd]
  <2>2. e \in Frame /\ e.fn = f.fn /\ e.pc = q /\ e.ph = "start" /\ e.complete = "none" /\ e.end = "none"
    BY <1>5, CallWith
  <2>3. stack' = [stack EXCEPT ![n] = e]
    BY <2>1
  <2> HIDE DEF e
  <2>4. q \in Bringing /\ q \notin {"read", "gone", "unregister", "watch"}
    BY DEF Bringing, Commands
  <2>5. q \in After => f.pc \in After \/ (f.pc = "identify" /\ f.complete = "ok")
    BY <1>1, <2>1 DEF f, n
  <2>6. QED
    BY <1>9, <2>2, <2>3, <2>4, <2>5
<1>13. QED
  BY <1>11, <1>12

LEMMA CallPlain ==
  ASSUME NEW fn, NEW pc
  PROVE  Call(fn, pc) = [Call(fn, pc) EXCEPT !.sd = FALSE]
<1> DEFINE c == Call(fn, pc)
<1>1. DOMAIN c = {"fn", "pc", "ph", "complete", "end", "sd"} /\ c.sd = FALSE
      /\ c = [x \in DOMAIN c |-> c[x]]
  BY DEF Call
<1> HIDE DEF c
<1>2. c = [c EXCEPT !.sd = FALSE]
  BY <1>1
<1>3. QED
  BY <1>2 DEF c

LEMMA StepTypes ==
  ASSUME SdInv
  PROVE  /\ host \in [wide : BOOLEAN, clock : {"off", "init", "default", "fast"}]
         /\ mmcDev \in BOOLEAN /\ flaky \in BOOLEAN /\ sizeless \in BOOLEAN
         /\ state \in {"ready", "nohardware", "notready"}
  BY Types DEF SdInv

\* What Proceed, GiveUp and Done do, in the words of Brings.
LEMMA ProceedBrings ==
  ASSUME SdInv, NEW r, NEW pc \in Commands \ {"read"}, NEW sd \in BOOLEAN, Proceed(pc, sd),
         pc \in After => Top.pc \in After \/ (Top.pc = "identify" /\ r = "ok"),
         host' \in [wide : BOOLEAN, clock : {"off", "init", "default", "fast"}],
         UNCHANGED <<card, bdev, emmc, sdmmcRegistered, checkConnected, polling, halted, sizeless>>
  PROVE  Brings(r)
<1>1. /\ stack' = [stack EXCEPT ![Me] = [Call(Top.fn, pc) EXCEPT !.sd = sd]]
      /\ UNCHANGED <<mmcDev, state, flaky>>
  BY DEF Proceed
<1>2. mmcDev' \in BOOLEAN /\ flaky' \in BOOLEAN /\ sizeless' \in BOOLEAN /\ state' \in {"ready", "nohardware", "notready"}
  BY <1>1, StepTypes
<1>3. QED
  BY <1>1, <1>2 DEF Brings

LEMMA GiveUpBrings ==
  ASSUME SdInv, NEW r, GiveUp,
         host' \in [wide : BOOLEAN, clock : {"off", "init", "default", "fast"}],
         UNCHANGED <<card, bdev, emmc, sdmmcRegistered, checkConnected, polling, halted, sizeless>>
  PROVE  Brings(r)
<1>1. mmcDev' \in BOOLEAN /\ flaky' \in BOOLEAN /\ sizeless' \in BOOLEAN /\ state' \in {"ready", "nohardware", "notready"}
  BY StepTypes DEF GiveUp
<1>2. QED
  BY <1>1 DEF Brings, GiveUp

LEMMA DoneBrings ==
  ASSUME SdInv, NEW r, Done,
         Top.pc \in After \/ (Top.pc = "identify" /\ r = "ok"),
         host' \in [wide : BOOLEAN, clock : {"off", "init", "default", "fast"}],
         UNCHANGED <<card, bdev, emmc, sdmmcRegistered, checkConnected, polling, halted, sizeless>>
  PROVE  Brings(r)
<1>1. mmcDev' \in BOOLEAN /\ flaky' \in BOOLEAN /\ sizeless' \in BOOLEAN /\ state' \in {"ready", "nohardware", "notready"}
  BY StepTypes DEF Done
<1>2. stack' = [stack EXCEPT ![Me] = [Call(Top.fn, "register") EXCEPT !.sd = FALSE]]
  BY CallPlain DEF Done, Goto
<1>3. QED
  BY <1>1, <1>2 DEF Brings

LEMMA HostOf ==
  ASSUME SdInv
  PROVE  /\ \A c \in {"off", "init", "default", "fast"} :
              sdhc_set_clock(c) => host' \in [wide : BOOLEAN, clock : {"off", "init", "default", "fast"}]
         /\ UNCHANGED host => host' \in [wide : BOOLEAN, clock : {"off", "init", "default", "fast"}]
         /\ host' = [host EXCEPT !.wide = TRUE]
              => host' \in [wide : BOOLEAN, clock : {"off", "init", "default", "fast"}]
         /\ \A c \in {"init", "default", "fast"} : Clocks(c) = {c} \/ Clocks(c) = {c, "off"}
<1>1. host \in [wide : BOOLEAN, clock : {"off", "init", "default", "fast"}]
  BY StepTypes
<1>2. QED
  BY <1>1 DEF sdhc_set_clock, Clocks

\* mmc_init, command by command.
LEMMA BringingSteps ==
  ASSUME SdInv,
         AppCmd \/ OpCond \/ Identify \/ SetWidth \/ ValidateWidth
         \/ CheckHighSpeed \/ SetHighSpeed \/ ProveHighSpeed
  PROVE  SdInv'
<1> DEFINE Rest == UNCHANGED <<card, bdev, emmc, sdmmcRegistered, checkConnected, polling, halted, sizeless>>
           Host == host' \in [wide : BOOLEAN, clock : {"off", "init", "default", "fast"}]
<1>1. \A r, pc : Returns(pc, r) => Top.pc = pc
  BY DEF Returns
<1>2. UNCHANGED host => Host
  BY HostOf
<1>3. \A r \in Results : (r = "ok") \in BOOLEAN
  OBVIOUS
<1>4. CASE AppCmd
  <2>1. PICK r \in Results : Returns("appcmd", r) /\ Proceed("opcond", r = "ok") /\ Rest /\ UNCHANGED host
    BY <1>4 DEF AppCmd
  <2>2. "opcond" \in Commands \ {"read"} /\ "appcmd" \in Commands \ {"read"} /\ "opcond" \notin After
    BY DEF Commands, After
  <2>3. Brings(r)
    BY <1>2, <1>3, <2>1, <2>2, ProceedBrings
  <2>4. QED
    BY <2>1, <2>2, <2>3, BringsKept
<1>5. CASE OpCond
  <2>1. PICK r \in Results : /\ Returns("opcond", r) /\ Rest /\ UNCHANGED host
                             /\ Proceed("identify", Top.sd) \/ GiveUp
    BY <1>5 DEF OpCond
  <2>2. "identify" \in Commands \ {"read"} /\ "opcond" \in Commands \ {"read"} /\ "identify" \notin After
    BY DEF Commands, After
  <2>3. Top.sd \in BOOLEAN
    <3>1. stack \in Seq(Frame)
      BY Types DEF SdInv
    <3>2. QED
      BY <2>1, <3>1, TopIs DEF Returns, Running, Top, Frame
  <2>4. Brings(r)
    BY <1>2, <2>1, <2>2, <2>3, ProceedBrings, GiveUpBrings
  <2>5. QED
    BY <2>1, <2>2, <2>4, BringsKept
<1>6. CASE Identify
  <2>1. PICK r \in Results :
          /\ Returns("identify", r) /\ Rest
          /\ \/ GiveUp /\ UNCHANGED host
             \/ /\ r = "ok"
                /\ \E c \in Clocks("default") :
                     sdhc_set_clock(c) /\ (GiveUp \/ Proceed("setwidth", TRUE) \/ Done)
    BY <1>6 DEF Identify, Results
  <2>2. "identify" \in Commands \ {"read"} /\ "setwidth" \in Commands \ {"read"}
    BY DEF Commands
  <2>3. Host
    BY <1>2, <2>1, HostOf
  <2>4. Top.pc = "identify"
    BY <1>1, <2>1
  <2>5. r = "ok" => (Top.pc \in After \/ (Top.pc = "identify" /\ r = "ok"))
    BY <2>4
  <2>6. CASE GiveUp
    BY <2>1, <2>2, <2>3, <2>6, GiveUpBrings, BringsKept
  <2>7. CASE r = "ok" /\ Proceed("setwidth", TRUE)
    <3>1. Brings(r)
      BY <2>1, <2>2, <2>3, <2>5, <2>7, ProceedBrings
    <3>2. QED
      BY <2>1, <2>2, <3>1, BringsKept
  <2>8. CASE r = "ok" /\ Done
    <3>1. Brings(r)
      BY <2>1, <2>3, <2>5, <2>8, DoneBrings
    <3>2. QED
      BY <2>1, <2>2, <3>1, BringsKept
  <2>9. QED
    BY <2>1, <2>6, <2>7, <2>8
<1>7. CASE SetWidth
  <2>1. PICK r \in Results :
          /\ Returns("setwidth", r) /\ Rest
          /\ \/ Proceed("status", TRUE) /\ host' = [host EXCEPT !.wide = TRUE]
             \/ GiveUp /\ UNCHANGED host
    BY <1>7 DEF SetWidth
  <2>2. {"setwidth", "status"} \subseteq Commands \ {"read"} /\ Top.pc \in After
    BY <1>1, <2>1 DEF Commands, After
  <2>3. Host
    BY <2>1, HostOf
  <2>4. Brings(r)
    BY <2>1, <2>2, <2>3, ProceedBrings, GiveUpBrings
  <2>5. QED
    BY <2>1, <2>2, <2>4, BringsKept
<1>8. CASE ValidateWidth
  <2>1. PICK r \in Results : /\ Returns("status", r) /\ Rest /\ UNCHANGED host
                             /\ Proceed("hscheck", TRUE) \/ GiveUp
    BY <1>8 DEF ValidateWidth
  <2>2. {"status", "hscheck"} \subseteq Commands \ {"read"} /\ Top.pc \in After
    BY <1>1, <2>1 DEF Commands, After
  <2>3. Brings(r)
    BY <1>2, <2>1, <2>2, ProceedBrings, GiveUpBrings
  <2>4. QED
    BY <2>1, <2>2, <2>3, BringsKept
<1>9. CASE CheckHighSpeed
  <2>1. PICK r \in Results : /\ Returns("hscheck", r) /\ Rest /\ UNCHANGED host
                             /\ Proceed("hsset", TRUE) \/ Done
    BY <1>9 DEF CheckHighSpeed
  <2>2. {"hscheck", "hsset"} \subseteq Commands \ {"read"} /\ Top.pc \in After
    BY <1>1, <2>1 DEF Commands, After
  <2>3. Brings(r)
    BY <1>2, <2>1, <2>2, ProceedBrings, DoneBrings
  <2>4. QED
    BY <2>1, <2>2, <2>3, BringsKept
<1>10. CASE SetHighSpeed
  <2>1. PICK r \in Results :
          /\ Returns("hsset", r) /\ Rest
          /\ \/ Done /\ UNCHANGED host
             \/ \E c \in Clocks("fast") : sdhc_set_clock(c) /\ (Proceed("prove", TRUE) \/ Done)
    BY <1>10 DEF SetHighSpeed
  <2>2. {"hsset", "prove"} \subseteq Commands \ {"read"} /\ Top.pc \in After
    BY <1>1, <2>1 DEF Commands, After
  <2>3. Host
    BY <2>1, HostOf
  <2>4. Brings(r)
    BY <2>1, <2>2, <2>3, ProceedBrings, DoneBrings
  <2>5. QED
    BY <2>1, <2>2, <2>4, BringsKept
<1>11. CASE ProveHighSpeed
  <2>1. PICK r \in Results :
          /\ Returns("prove", r) /\ Rest /\ Done
          /\ UNCHANGED host \/ \E c \in Clocks("default") : sdhc_set_clock(c)
    BY <1>11 DEF ProveHighSpeed
  <2>2. "prove" \in Commands \ {"read"} /\ Top.pc \in After
    BY <1>1, <2>1 DEF Commands, After
  <2>3. Host
    BY <2>1, HostOf
  <2>4. Brings(r)
    BY <2>1, <2>2, <2>3, DoneBrings
  <2>5. QED
    BY <2>1, <2>2, <2>4, BringsKept
<1>12. QED
  BY <1>4, <1>5, <1>6, <1>7, <1>8, <1>9, <1>10, <1>11

(***************************************************************************)
(* The steps between commands leave the calls that were submitted, the     *)
(* list, the wire and the bits alone.                                      *)
(***************************************************************************)
QuietStep ==
  /\ latch = {} /\ UNCHANGED <<wire, pend, latch, list, card>>
  /\ stack' \in Seq(Frame) /\ Len(stack') <= MaxNesting
  /\ \A i \in DOMAIN stack : Submitted(stack[i]) => i \in DOMAIN stack' /\ stack'[i] = stack[i]
  /\ \A i \in DOMAIN stack' :
       \/ i \in DOMAIN stack /\ stack'[i] = stack[i]
       \/ /\ stack'[i].ph = "start" /\ stack'[i].complete = "none" /\ stack'[i].end = "none"
          /\ stack'[i].pc \notin Bringing \ {"look", "reset", "appcmd"}
  /\ ~bdev' => /\ ~bdev
               /\ \A i \in DOMAIN stack :
                    Submitted(stack[i]) /\ Owner(stack, i) => Owner(stack', i)
  /\ bdev' => \/ bdev
              \/ wire.by = 0 /\ \A i \in DOMAIN stack : ~(Submitted(stack[i]) /\ Owner(stack, i))

LEMMA QuietKept ==
  ASSUME SdInv, Going, QuietStep
  PROVE  /\ InList' /\ Wired' /\ Orphans' /\ Evidence' /\ Seen' /\ TruthfulAnswers'
         /\ list' \in Seq(DOMAIN stack')
<1>1. TypeOK /\ TruthfulAnswers /\ Seen /\ InList /\ Wired /\ Orphans /\ Evidence
  BY DEF SdInv, Going
<1>2. stack \in Seq(Frame) /\ list \in Seq(DOMAIN stack) /\ bdev \in BOOLEAN
  BY <1>1, Types
<1>3. DOMAIN stack = 1..Len(stack) /\ Len(stack) \in Nat /\ DOMAIN stack' = 1..Len(stack')
      /\ Len(stack') \in Nat
  BY <1>2, StackIs DEF QuietStep
<1>4. list' = list /\ wire' = wire /\ pend' = pend /\ latch' = {} /\ latch = {} /\ card' = card
  BY DEF QuietStep
\* A call that was submitted is there, as it was.
<1>5. /\ \A i \in DOMAIN stack : Submitted(stack[i]) => i \in DOMAIN stack' /\ stack'[i] = stack[i]
      /\ \A i \in DOMAIN stack' :
           Submitted(stack'[i]) \/ stack'[i].complete # "none" \/ stack'[i].end # "none"
             => i \in DOMAIN stack /\ stack'[i] = stack[i]
  BY DEF QuietStep, Submitted
<1>6. \A k \in DOMAIN list : /\ list[k] \in DOMAIN stack /\ list[k] \in DOMAIN stack'
                             /\ stack'[list[k]] = stack[list[k]]
                             /\ Submitted(stack[list[k]]) /\ stack[list[k]].complete = "none"
  <2>1. \A k \in DOMAIN list : list[k] \in DOMAIN stack
    BY <1>2, ElementOfSeq, LenProperties
  <2>2. QED
    BY <1>1, <1>5, <2>1 DEF InList
<1>7. list # <<>> => /\ Head(list) \in DOMAIN stack /\ stack'[Head(list)] = stack[Head(list)]
                     /\ Submitted(stack[Head(list)])
  BY <1>2, <1>6, ListIs
<1>8. \A i \in DOMAIN stack' : stack'[i].complete # "none" \/ stack'[i].end # "none"
        => i \in DOMAIN stack /\ stack'[i] = stack[i]
  BY <1>5
<1>9. InList'
  <2>1. \A k \in DOMAIN list : Submitted(stack'[list[k]]) /\ stack'[list[k]].complete = "none"
    BY <1>6
  <2>2. \A i \in DOMAIN stack' : stack'[i].complete # "none" => \A k \in DOMAIN list : list[k] > i
    BY <1>1, <1>8 DEF InList
  <2>3. \A j, k \in DOMAIN list : j < k => list[j] < list[k]
    BY <1>1 DEF InList
  <2>4. QED
    BY <1>4, <2>1, <2>2, <2>3 DEF InList
<1>10. Wired'
  <2>1. wire.by = 0 => wire.await = "none"
    BY <1>1 DEF Wired
  <2>2. ASSUME wire.by # 0
        PROVE  /\ wire.by \in DOMAIN stack' /\ Submitted(stack'[wire.by])
               /\ wire.await # "none" /\ (wire.await = "data" => stack'[wire.by].pc \in Data)
               /\ stack'[wire.by].end # "good"
               /\ stack'[wire.by].complete = "none" => list # <<>> /\ Head(list) = wire.by
               /\ stack'[wire.by].complete # "none" \/ "ERR" \in pend \cup {} => ~card.known \/ ~bdev'
               /\ \A k \in DOMAIN list : list[k] >= wire.by
    <3>1. /\ wire.by \in DOMAIN stack /\ Submitted(stack[wire.by])
          /\ wire.await # "none" /\ (wire.await = "data" => stack[wire.by].pc \in Data)
          /\ stack[wire.by].end # "good"
          /\ stack[wire.by].complete = "none" => list # <<>> /\ Head(list) = wire.by
          /\ stack[wire.by].complete # "none" \/ "ERR" \in pend \cup latch => ~card.known \/ ~bdev
          /\ \A k \in DOMAIN list : list[k] >= wire.by
      BY <1>1, <2>2 DEF Wired
    <3>2. wire.by \in DOMAIN stack' /\ stack'[wire.by] = stack[wire.by]
      BY <1>5, <3>1
    <3>3. bdev' => bdev
      BY <2>2 DEF QuietStep
    <3>4. QED
      BY <1>4, <3>1, <3>2, <3>3
  <2>3. ASSUME NEW i \in DOMAIN stack'
        PROVE  /\ /\ stack'[i].pc \in Bringing \ {"look", "reset", "appcmd"}
                  /\ stack'[i].ph = "start"
                  => wire.by = 0 /\ list = <<>>
               /\ stack'[i].end = "good" => wire.by = 0 \/ wire.by > i
    BY <1>1, <1>5 DEF Wired, QuietStep
  <2>4. QED
    BY <1>4, <2>1, <2>2, <2>3 DEF Wired
<1>11. Orphans'
  <2>1. SUFFICES ASSUME ~bdev', NEW i \in DOMAIN stack',
                        Submitted(stack'[i]), stack'[i].end = "none",
                        stack'[i].complete = "none" \/ wire'.by = i
                 PROVE  Owner(stack', i)
    BY DEF Orphans
  <2>2. i \in DOMAIN stack /\ stack'[i] = stack[i] /\ ~bdev
    BY <1>5, <2>1 DEF QuietStep
  <2>3. Owner(stack, i)
    BY <1>1, <1>4, <2>1, <2>2 DEF Orphans
  <2>4. QED
    BY <2>1, <2>2, <2>3 DEF QuietStep
<1>12. Evidence'
  <2>1. ASSUME list # <<>>
        PROVE  Says(pend, stack'[Head(list)]) => stack'[Head(list)].end = "good"
    <3>1. pend \cup latch = pend
      BY <1>4
    <3>2. Says(pend, stack[Head(list)]) => stack[Head(list)].end = "good"
      BY <1>1, <2>1, <3>1 DEF Evidence
    <3>3. QED
      BY <1>7, <2>1, <3>2
  <2>2. \A f : ~Says({}, f)
    BY DEF Says
  <2>3. ASSUME list = <<>>, pend \cap Ends # {}
        PROVE  /\ ~bdev'
               /\ \E n \in DOMAIN stack' :
                    Owner(stack', n) /\ Submitted(stack'[n]) /\ stack'[n].complete = "bad"
    <3>1. pend \cup latch = pend
      BY <1>4
    <3>2. ~bdev
      BY <1>1, <2>3, <3>1 DEF Evidence
    <3>3. PICK n \in DOMAIN stack : Owner(stack, n) /\ Submitted(stack[n]) /\ stack[n].complete = "bad"
      BY <1>1, <2>3, <3>1 DEF Evidence
    <3>4. n \in DOMAIN stack' /\ stack'[n] = stack[n]
      BY <1>5, <3>3
    <3>5. ~bdev'
      BY <3>2, <3>3 DEF QuietStep
    <3>6. Owner(stack', n)
      BY <3>3, <3>5 DEF QuietStep
    <3>7. QED
      BY <3>3, <3>4, <3>5, <3>6
  <2>4. pend' \cup latch' = pend /\ latch' = {} /\ list' = list
    BY <1>4
  <2>5. QED
    BY <2>1, <2>2, <2>3, <2>4 DEF Evidence
<1>13. Seen'
  <2>1. SUFFICES ASSUME NEW i \in DOMAIN stack', stack'[i].end = "good", stack'[i].complete = "none"
                 PROVE  list' # <<>> /\ Head(list') = i /\ Says(pend' \cup latch', stack'[i])
    BY DEF Seen
  <2>2. i \in DOMAIN stack /\ stack'[i] = stack[i]
    BY <1>8, <2>1
  <2>3. list # <<>> /\ Head(list) = i /\ Says(pend \cup latch, stack[i])
    BY <1>1, <2>1, <2>2 DEF Seen
  <2>4. QED
    BY <1>4, <2>2, <2>3
<1>14. TruthfulAnswers'
  BY <1>1, <1>8 DEF TruthfulAnswers
<1>15. list' \in Seq(DOMAIN stack')
  <2>1. \A k \in 1..Len(list) : list[k] \in DOMAIN stack'
    BY <1>2, <1>6, LenProperties
  <2>2. QED
    BY <1>2, <1>4, <2>1, SeqOfElements
<1>16. QED
  BY <1>9, <1>10, <1>11, <1>12, <1>13, <1>14, <1>15

\* The types of the driver's variables after such a step.
DriverTypes ==
  /\ flag \in BOOLEAN /\ irqOn \in BOOLEAN /\ mmcDev \in BOOLEAN /\ bdev \in BOOLEAN
  /\ emmc \in BOOLEAN /\ sdmmcRegistered \in BOOLEAN /\ checkConnected \in BOOLEAN
  /\ polling \in BOOLEAN /\ flaky \in BOOLEAN /\ sizeless \in BOOLEAN
  /\ state \in {"ready", "nohardware", "notready"} /\ halted \in {"no", "handover", "left", "missing"}
  /\ host \in [wide : BOOLEAN, clock : {"off", "init", "default", "fast"}]

LEMMA QuietInv ==
  ASSUME SdInv, Going, QuietStep, DriverTypes', Shaped', Slot', Removed'
  PROVE  SdInv'
<1>1. TypeOK'
  <2>1. /\ card \in [in : BOOLEAN, known : BOOLEAN, wide : BOOLEAN, hs : BOOLEAN]
        /\ wire \in [by : 0..MaxNesting, await : {"none", "response", "data"}]
        /\ pend \subseteq Bits /\ latch \subseteq Bits
    BY Types DEF SdInv
  <2>2. list' \in Seq(DOMAIN stack')
    BY QuietKept
  <2>3. QED
    BY <2>1, <2>2 DEF TypeOK, QuietStep, DriverTypes, Frame
<1>2. QED
  BY <1>1, QuietKept DEF SdInv, Going


\* The running call goes on to a step that is no command.
LEMMA QuietReplace ==
  ASSUME SdInv, Going, latch = {}, stack # <<>>, NEW e \in Frame,
         stack' = [stack EXCEPT ![Len(stack)] = e],
         UNCHANGED <<wire, pend, latch, list, card, polling>>,
         stack[Len(stack)].pc \notin Commands,
         e.fn = stack[Len(stack)].fn, e.ph = "start", e.complete = "none", e.end = "none",
         e.pc \in {"reset", "registered", "watch", "unregister"},
         e.fn = "init" => e.pc # "unregister", e.fn = "check" => e.pc # "watch",
         stack[Len(stack)].pc \in {"look", "gone"} /\ e.fn = "check"
           => e.pc \in {"reset", "unregister"},
         stack[Len(stack)].pc \in {"look", "gone", "register", "registered"},
         bdev' = bdev \/ (stack[Len(stack)].pc = "register" /\ bdev' \in BOOLEAN)
  PROVE  QuietStep /\ Shaped' /\ Removed'
<1> DEFINE n == Len(stack)
           f == stack[n]
<1>1. TypeOK /\ Shaped /\ Slot /\ Removed /\ Wired
  BY DEF SdInv, Going
<1>2. stack \in Seq(Frame) /\ Len(stack) <= MaxNesting /\ bdev \in BOOLEAN
  BY <1>1, Types
<1>3. n \in Nat /\ n >= 1 /\ DOMAIN stack = 1..n /\ n \in DOMAIN stack
  BY <1>2, TopIs
<1>4. /\ stack' \in Seq(Frame) /\ Len(stack') = n /\ DOMAIN stack' = DOMAIN stack /\ stack'[n] = e
      /\ \A i \in DOMAIN stack : i # n => stack'[i] = stack[i]
  BY <1>2, PutTop
<1>5. f.ph = "start" /\ ~Submitted(f)
  BY <1>1, <1>3 DEF Shaped, Submitted
<1>6. f.pc = "register" => /\ ~bdev /\ wire.by = 0 /\ ~("CRM" \in pend \cup latch /\ card.known)
  <2>1. SUFFICES ASSUME f.pc = "register"
                 PROVE  /\ ~bdev /\ wire.by = 0 /\ ~("CRM" \in pend \cup latch /\ card.known)
    OBVIOUS
  <2>2. f.pc \in Bringing \ {"look", "reset", "appcmd"} /\ f.pc \in After
    BY <2>1 DEF Bringing, After
  <2>3. ~bdev
    BY <1>1, <1>3, <2>2 DEF Slot
  <2>4. wire.by = 0
    BY <1>1, <1>3, <1>5, <2>2 DEF Wired
  <2>5. ~("CRM" \in pend \cup latch /\ card.known)
    BY <1>1, <1>3, <2>2 DEF Removed
  <2>6. QED
    BY <2>3, <2>4, <2>5
<1>7. ASSUME NEW i \in DOMAIN stack, Submitted(stack[i]), Owner(stack, i)
      PROVE  /\ i # n /\ i = n - 1 /\ f.fn = "check" /\ f.pc \in {"look", "reset", "gone", "unregister"}
  BY <1>5, <1>7 DEF Owner
<1>8. Shaped'
  <2>1. f.fn # "read"
    BY <1>1, <1>3 DEF Shaped, Commands
  <2>2. e.pc # "read" /\ e.pc # "gone"
    OBVIOUS
  <2>3. QED
    BY <1>1, <2>1, <2>2, ShapedReplace
<1>9. Removed'
  <2>1. CASE f.pc = "register"
    BY <1>6, <2>1 DEF Removed
  <2>2. CASE f.pc # "register"
    <3>1. bdev' = bdev /\ e.pc \notin After
      BY <2>2 DEF After
    <3>2. \A i \in DOMAIN stack' :
            \/ i \in DOMAIN stack /\ stack'[i] = stack[i]
            \/ stack'[i].complete = "none" /\ stack'[i].pc \notin After
      BY <1>4, <3>1
    <3>3. latch' \subseteq latch \cup pend /\ pend' \subseteq pend \cup latch
      OBVIOUS
    <3>4. QED
      BY <1>1, <3>1, <3>2, <3>3, RemovedKept
  <2>3. QED
    BY <2>1, <2>2
<1> HIDE DEF n, f
<1>10. QuietStep
  <2>1. \A i \in DOMAIN stack : Submitted(stack[i]) => i \in DOMAIN stack' /\ stack'[i] = stack[i]
    BY <1>4, <1>5 DEF f
  <2>2. \A i \in DOMAIN stack' :
          \/ i \in DOMAIN stack /\ stack'[i] = stack[i]
          \/ /\ stack'[i].ph = "start" /\ stack'[i].complete = "none" /\ stack'[i].end = "none"
             /\ stack'[i].pc \notin Bringing \ {"look", "reset", "appcmd"}
    <3>1. e.pc \notin Bringing \ {"look", "reset", "appcmd"}
      BY DEF Bringing, Commands
    <3>2. QED
      BY <1>4, <3>1
  <2>3. ASSUME ~bdev'
        PROVE  /\ ~bdev
               /\ \A i \in DOMAIN stack :
                    Submitted(stack[i]) /\ Owner(stack, i) => Owner(stack', i)
    <3>1. ~bdev
      BY <1>6, <2>3 DEF f, n
    <3>2. ASSUME NEW i \in DOMAIN stack, Submitted(stack[i]), Owner(stack, i)
          PROVE  Owner(stack', i)
      <4>1. i = n - 1 /\ f.fn = "check" /\ f.pc \in {"look", "reset", "gone", "unregister"}
        BY <1>7, <3>2
      <4>2. e.pc \in {"reset", "unregister"} /\ e.fn = "check"
        BY <4>1 DEF f, n
      <4>3. QED
        BY <1>4, <4>1, <4>2 DEF Owner
    <3>3. QED
      BY <3>1, <3>2
  <2>4. bdev' => \/ bdev
                 \/ wire.by = 0 /\ \A i \in DOMAIN stack : ~(Submitted(stack[i]) /\ Owner(stack, i))
    <3>1. CASE f.pc = "register"
      BY <1>6, <1>7, <3>1
    <3>2. CASE f.pc # "register"
      BY <3>2 DEF f, n
    <3>3. QED
      BY <3>1, <3>2
  <2>5. stack' \in Seq(Frame) /\ Len(stack') <= MaxNesting
    BY <1>2, <1>4 DEF n
  <2>6. QED
    BY <2>1, <2>2, <2>3, <2>4, <2>5 DEF QuietStep
<1>11. QED
  BY <1>8, <1>9, <1>10

\* It returns.
LEMMA QuietPop ==
  ASSUME SdInv, Going, latch = {}, stack # <<>>, stack' = Front(stack),
         UNCHANGED <<wire, pend, latch, list, card, bdev>>,
         polling' = polling \/ (polling' /\ stack[Len(stack)].fn = "init"),
         stack[Len(stack)].pc \notin Commands
  PROVE  QuietStep /\ Shaped' /\ Removed'
<1> DEFINE n == Len(stack)
           f == stack[n]
<1>1. TypeOK /\ Shaped /\ Removed
  BY DEF SdInv, Going
<1>2. stack \in Seq(Frame) /\ Len(stack) <= MaxNesting /\ bdev \in BOOLEAN
  BY <1>1, Types
<1>3. n \in Nat /\ n >= 1 /\ DOMAIN stack = 1..n /\ n \in DOMAIN stack
  BY <1>2, TopIs
<1>4. /\ stack' \in Seq(Frame) /\ Len(stack') = n - 1 /\ DOMAIN stack' = 1..(n - 1)
      /\ \A i \in DOMAIN stack' : i \in DOMAIN stack /\ i # n /\ stack'[i] = stack[i]
  BY <1>2, PopTop
<1>5. f.ph = "start" /\ ~Submitted(f)
  BY <1>1, <1>3 DEF Shaped, Submitted
<1>6. Shaped'
  BY <1>1, LowerNotWaiting, ShapedPop
<1>7. Removed'
  <2>1. latch' \subseteq latch \cup pend /\ pend' \subseteq pend \cup latch /\ card' = card /\ bdev' = bdev
    OBVIOUS
  <2>2. QED
    BY <1>1, <1>4, <2>1, RemovedKept
<1>8. \A i \in DOMAIN stack : i # n => i \in DOMAIN stack'
  BY <1>3, <1>4
<1>9. MaxNesting \in Nat
  BY SdCardsAssumption
<1>10. Len(stack') <= MaxNesting
  BY <1>2, <1>3, <1>4, <1>9
<1>11. ASSUME NEW i \in DOMAIN stack, Submitted(stack[i]), Owner(stack, i)
       PROVE  Owner(stack', i)
  <2>1. i = n - 1
    BY <1>5, <1>11 DEF Owner
  <2>2. QED
    BY <1>4, <2>1 DEF Owner
<1> HIDE DEF n
<1>12. \A i \in DOMAIN stack : Submitted(stack[i]) => i \in DOMAIN stack' /\ stack'[i] = stack[i]
  BY <1>4, <1>5, <1>8
<1>13. QuietStep
  BY <1>4, <1>10, <1>11, <1>12 DEF QuietStep
<1>14. QED
  BY <1>6, <1>7, <1>13

\* Another call interrupts it.
LEMMA QuietPush ==
  ASSUME SdInv, Going, latch = {}, stack # <<>> => stack[Len(stack)].ph # "wait",
         Len(stack) < MaxNesting, NEW e \in Frame, stack' = Append(stack, e),
         UNCHANGED <<wire, pend, latch, list, card, bdev, polling>>,
         e.ph = "start", e.complete = "none", e.end = "none",
         \/ e.fn = "read" /\ e.pc = "read" /\ bdev
         \/ /\ e.fn = "check" /\ e.pc \in {"look", "gone"} /\ polling
            /\ \A i \in DOMAIN stack : stack[i].fn # "check"
  PROVE  QuietStep /\ Shaped' /\ Removed'
<1> DEFINE n == Len(stack)
<1>1. TypeOK /\ Shaped /\ Removed
  BY DEF SdInv, Going
<1>2. stack \in Seq(Frame) /\ bdev \in BOOLEAN
  BY <1>1, Types
<1>3. n \in Nat /\ DOMAIN stack = 1..n
  BY <1>2, StackIs
<1>4. /\ stack' \in Seq(Frame) /\ Len(stack') = n + 1 /\ DOMAIN stack' = 1..(n + 1)
      /\ stack'[n + 1] = e /\ \A i \in DOMAIN stack : stack'[i] = stack[i]
  BY <1>2, PushTop
<1>5. /\ \A i \in DOMAIN stack : i \in DOMAIN stack' /\ i # n + 1
      /\ \A i \in DOMAIN stack' : i # n + 1 => i \in DOMAIN stack
      /\ n + 1 \in DOMAIN stack'
  BY <1>3, <1>4
<1>6. \A i \in DOMAIN stack : stack[i].ph # "wait"
  <2>1. n # 0 => stack # <<>>
    BY <1>3
  <2>2. QED
    BY <1>1, <1>3, <2>1 DEF Shaped
<1>7. MaxNesting \in Nat
  BY SdCardsAssumption
<1>8. Len(stack') <= MaxNesting
  BY <1>3, <1>4, <1>7
<1>9. Shaped'
  <2>1. ASSUME NEW i \in DOMAIN stack'
        PROVE  /\ stack'[i].fn = "read" <=> stack'[i].pc = "read"
               /\ stack'[i].fn = "init" => i = 1 /\ ~polling' /\ stack'[i].pc \notin {"gone", "unregister"}
               /\ stack'[i].fn = "check" => polling' /\ stack'[i].pc # "watch"
               /\ stack'[i].pc \notin Commands => stack'[i].ph = "start"
               /\ stack'[i].ph = "start" => stack'[i].complete = "none" /\ stack'[i].end = "none"
               /\ stack'[i].ph # "wait"
    <3>1. CASE i = n + 1
      BY <1>4, <3>1
    <3>2. CASE i # n + 1
      <4>1. i \in DOMAIN stack /\ stack'[i] = stack[i]
        BY <1>4, <1>5, <3>2
      <4>2. QED
        BY <1>1, <1>6, <4>1 DEF Shaped
    <3>3. QED
      BY <3>1, <3>2
  <2>2. \A i, j \in DOMAIN stack' : stack'[i].fn = "check" /\ stack'[j].fn = "check" => i = j
    <3>1. TAKE i, j \in DOMAIN stack'
    <3>2. CASE i = n + 1 /\ j = n + 1
      BY <3>2
    <3>3. CASE i # n + 1 /\ j # n + 1
      BY <1>1, <1>4, <1>5, <3>3 DEF Shaped
    <3>4. CASE (i = n + 1 /\ j # n + 1) \/ (i # n + 1 /\ j = n + 1)
      BY <1>4, <1>5, <3>4
    <3>5. QED
      BY <3>2, <3>3, <3>4
  <2>3. QED
    BY <2>1, <2>2 DEF Shaped
<1>10. Removed'
  <2>1. latch' \subseteq latch \cup pend /\ pend' \subseteq pend \cup latch /\ card' = card /\ bdev' = bdev
    OBVIOUS
  <2>2. e.pc \notin After
    BY DEF After
  <2>3. \A i \in DOMAIN stack' :
          \/ i \in DOMAIN stack /\ stack'[i] = stack[i]
          \/ stack'[i].complete = "none" /\ stack'[i].pc \notin After
    BY <1>4, <1>5, <2>2
  <2>4. QED
    BY <1>1, <2>1, <2>3, RemovedKept
<1>11. ASSUME ~bdev', NEW i \in DOMAIN stack, Submitted(stack[i]), Owner(stack, i)
       PROVE  Owner(stack', i)
  <2>1. e.fn = "check" /\ e.pc \in {"look", "gone"} /\ \A j \in DOMAIN stack : stack[j].fn # "check"
    BY <1>11
  <2>2. n \in DOMAIN stack
    BY <1>3, <1>11
  <2>3. i = n
    BY <1>11, <2>1, <2>2 DEF Owner
  <2>4. i = Len(stack') - 1
    BY <1>3, <1>4, <2>3
  <2>5. QED
    BY <1>4, <2>1, <2>4 DEF Owner
<1> HIDE DEF n
<1>12. \A i \in DOMAIN stack' :
         \/ i \in DOMAIN stack /\ stack'[i] = stack[i]
         \/ /\ stack'[i].ph = "start" /\ stack'[i].complete = "none" /\ stack'[i].end = "none"
            /\ stack'[i].pc \notin Bringing \ {"look", "reset", "appcmd"}
  <2>1. e.pc \notin Bringing \ {"look", "reset", "appcmd"}
    BY DEF Bringing, Commands
  <2>2. QED
    BY <1>4, <1>5, <2>1
<1>13. QuietStep
  <2>1. \A i \in DOMAIN stack : Submitted(stack[i]) => i \in DOMAIN stack' /\ stack'[i] = stack[i]
    BY <1>4, <1>5
  <2>2. ~bdev' => /\ ~bdev
                  /\ \A i \in DOMAIN stack :
                       Submitted(stack[i]) /\ Owner(stack, i) => Owner(stack', i)
    BY <1>11
  <2>3. QED
    BY <1>4, <1>8, <1>12, <2>1, <2>2 DEF QuietStep
<1>14. QED
  BY <1>9, <1>10, <1>13

\* Whoever interrupts sdmmcInit or a check only reads.
LEMMA OthersRead ==
  ASSUME TypeOK, Shaped, NEW n \in DOMAIN stack, stack[n].fn # "read"
  PROVE  \A i \in DOMAIN stack : i # n => stack[i].fn = "read" /\ stack[i].pc = "read"
<1>1. stack \in Seq(Frame)
  BY Types
<1>2. SUFFICES ASSUME NEW i \in DOMAIN stack, i # n PROVE stack[i].fn = "read"
  BY DEF Shaped
<1>3. stack[i].fn \in {"init", "check", "read"} /\ stack[n].fn \in {"init", "check", "read"}
  BY <1>1, StackIs DEF Frame
<1>4. CASE stack[n].fn = "init"
  BY <1>2, <1>3, <1>4 DEF Shaped
<1>5. CASE stack[n].fn = "check"
  BY <1>2, <1>3, <1>5 DEF Shaped
<1>6. QED
  BY <1>3, <1>4, <1>5

LEMMA SlotReplace ==
  ASSUME TypeOK, Shaped, stack # <<>>, NEW e \in Frame, stack[Len(stack)].fn # "read",
         stack' = [stack EXCEPT ![Len(stack)] = e],
         e.pc \in Bringing => ~bdev' /\ ~sdmmcRegistered',
         e.pc \in {"registered", "unregister"} => ~sdmmcRegistered',
         e.pc # "gone",
         bdev' /\ ~sdmmcRegistered' => e.pc \in {"registered", "unregister"}
  PROVE  Slot'
<1> DEFINE n == Len(stack)
<1>1. stack \in Seq(Frame)
  BY Types
<1>2. n \in DOMAIN stack
  BY <1>1, TopIs
<1>3. /\ Len(stack') = n /\ DOMAIN stack' = DOMAIN stack /\ stack'[n] = e
      /\ \A i \in DOMAIN stack : i # n => stack'[i] = stack[i]
  BY <1>1, PutTop
<1>4. \A i \in DOMAIN stack' : i # n => stack'[i].pc = "read"
  BY <1>2, <1>3, OthersRead
<1>5. "read" \notin Bringing
  BY DEF Bringing
<1>6. QED
  BY <1>2, <1>3, <1>4, <1>5 DEF Slot

LEMMA SlotPop ==
  ASSUME TypeOK, Shaped, stack # <<>>, stack[Len(stack)].fn # "read", stack' = Front(stack),
         bdev' => sdmmcRegistered'
  PROVE  Slot'
<1> DEFINE n == Len(stack)
<1>1. stack \in Seq(Frame)
  BY Types
<1>2. n \in DOMAIN stack
  BY <1>1, TopIs
<1>3. \A i \in DOMAIN stack' : i \in DOMAIN stack /\ i # n /\ stack'[i] = stack[i]
  BY <1>1, PopTop
<1>4. \A i \in DOMAIN stack' : stack'[i].pc = "read"
  BY <1>2, <1>3, OthersRead
<1>5. "read" \notin Bringing
  BY DEF Bringing
<1>6. QED
  BY <1>4, <1>5 DEF Slot

\* A registered device that sdmmcRegistered does not tell of is being
\* registered or unregistered.
LEMMA ToldOf ==
  ASSUME TypeOK, Shaped, Slot, bdev, ~sdmmcRegistered,
         \A i \in DOMAIN stack : stack[i].pc \notin {"registered", "unregister"}
  PROVE  FALSE
  BY DEF Slot

LEMMA RunningIs ==
  ASSUME SdInv, Running
  PROVE  /\ halted = "no" /\ latch = {} /\ stack # <<>> /\ Going /\ TypeOK /\ Shaped /\ Slot
         /\ Top = stack[Len(stack)] /\ Top \in Frame /\ Len(stack) \in DOMAIN stack
         /\ stack \in Seq(Frame)
<1>1. TypeOK /\ halted = "no" /\ latch = {} /\ stack # <<>>
  BY DEF SdInv, Running
<1>2. stack \in Seq(Frame)
  BY <1>1, Types
<1>3. QED
  BY <1>1, <1>2, TopIs DEF SdInv, Going, Top

\* What the End of mmc_init leaves: the watch begins, or the check is over.
LEMMA QuietEnd ==
  ASSUME SdInv, Running, End, Top.pc \in {"look", "registered"},
         UNCHANGED <<wire, pend, latch, list, card, bdev, polling>>,
         bdev' => sdmmcRegistered'
  PROVE  QuietStep /\ Shaped' /\ Removed' /\ Slot'
<1> DEFINE n == Len(stack)
           f == stack[n]
<1>1. /\ halted = "no" /\ latch = {} /\ stack # <<>> /\ Going /\ TypeOK /\ Shaped
      /\ Top = f /\ f \in Frame /\ n \in DOMAIN stack
  BY RunningIs
<1>2. f.pc \notin Commands
  BY <1>1 DEF Commands
<1>3. f.fn \in {"init", "check"}
  BY <1>1 DEF Shaped, Frame
<1>4. CASE f.fn = "init"
  <2> DEFINE e == Call("init", "watch")
  <2>1. stack' = [stack EXCEPT ![n] = e]
    BY <1>1, <1>4 DEF End, Ended, Me
  <2>2. e \in Frame /\ e.fn = f.fn /\ e.pc = "watch" /\ e.ph = "start" /\ e.complete = "none" /\ e.end = "none"
    BY <1>4, CallIs
  <2> HIDE DEF e
  <2>3. QuietStep /\ Shaped' /\ Removed'
    BY <1>1, <1>2, <1>4, <2>1, <2>2, QuietReplace
  <2>4. Slot'
    <3>1. e.pc \notin Bringing /\ e.pc \notin {"registered", "unregister", "gone"} /\ f.fn # "read"
      BY <1>4, <2>2 DEF Bringing, Commands
    <3>2. QED
      BY <1>1, <2>1, <2>2, <3>1, SlotReplace
  <2>5. QED
    BY <2>3, <2>4
<1>5. CASE f.fn = "check"
  <2>1. stack' = Front(stack)
    BY <1>1, <1>5 DEF End, Ended
  <2>2. QuietStep /\ Shaped' /\ Removed'
    BY <1>1, <1>2, <2>1, QuietPop
  <2>3. Slot'
    BY <1>1, <1>5, <2>1, SlotPop
  <2>4. QED
    BY <2>2, <2>3
<1>6. QED
  BY <1>3, <1>4, <1>5

LEMMA LookKept ==
  ASSUME SdInv, Look
  PROVE  SdInv'
<1>1. Running /\ Top.pc = "look" /\ UNCHANGED <<hardware, list, driver, flaky>>
  BY DEF Look
<1> DEFINE f == stack[Len(stack)]
<1>2. /\ latch = {} /\ stack # <<>> /\ Going /\ TypeOK /\ Shaped /\ Slot
      /\ Top = f /\ f \in Frame /\ Len(stack) \in DOMAIN stack
  BY <1>1, RunningIs
<1>3. UNCHANGED <<wire, pend, latch, list, card, bdev, polling, sdmmcRegistered>>
  BY <1>1 DEF hardware, driver
<1>4. DriverTypes'
  BY <1>1, <1>2, Types DEF DriverTypes, hardware, driver
<1>5. ~bdev /\ ~sdmmcRegistered
  BY <1>1, <1>2 DEF Slot, Bringing
<1>6. CASE card.in
  <2> DEFINE e == Call(f.fn, "reset")
  <2>1. stack' = [stack EXCEPT ![Len(stack)] = e]
    BY <1>1, <1>2, <1>6 DEF Look, Goto, Me
  <2>2. f.fn \in {"init", "check"}
    BY <1>1, <1>2 DEF Shaped, Frame
  <2>3. e \in Frame /\ e.fn = f.fn /\ e.pc = "reset" /\ e.ph = "start" /\ e.complete = "none" /\ e.end = "none"
    BY <2>2, CallIs
  <2> HIDE DEF e
  <2>4. QuietStep /\ Shaped' /\ Removed'
    <3>1. f.pc \notin Commands
      BY <1>1, <1>2 DEF Commands
    <3>2. QED
      BY <1>1, <1>2, <1>3, <2>1, <2>3, <3>1, QuietReplace
  <2>5. Slot'
    BY <1>2, <1>3, <1>5, <2>1, <2>2, <2>3, SlotReplace
  <2>6. QED
    BY <1>2, <1>4, <2>4, <2>5, QuietInv
<1>7. CASE ~card.in
  <2>1. End
    BY <1>7 DEF Look
  <2>2. QuietStep /\ Shaped' /\ Removed' /\ Slot'
    BY <1>1, <1>3, <1>5, <2>1, QuietEnd
  <2>3. QED
    BY <1>2, <1>4, <2>2, QuietInv
<1>8. QED
  BY <1>6, <1>7

LEMMA RegisterKept ==
  ASSUME SdInv, Register
  PROVE  SdInv'
<1>1. /\ Running /\ Top.pc = "register" /\ bdev' \in mmc_card_capacity /\ Goto("registered")
      /\ sizeless' = (sizeless \/ ~bdev')
      /\ UNCHANGED <<hardware, list, mmcDev, emmc, sdmmcRegistered, checkConnected, polling, state,
                     halted, flaky>>
  BY DEF Register
<1> DEFINE f == stack[Len(stack)]
<1>2. /\ latch = {} /\ stack # <<>> /\ Going /\ TypeOK /\ Shaped /\ Slot
      /\ Top = f /\ f \in Frame /\ Len(stack) \in DOMAIN stack
  BY <1>1, RunningIs
<1>3. UNCHANGED <<wire, pend, latch, list, card, polling, sdmmcRegistered>> /\ bdev' \in BOOLEAN
  BY <1>1 DEF hardware, mmc_card_capacity
<1>4. DriverTypes'
  BY <1>1, <1>2, <1>3, Types DEF DriverTypes, hardware
<1>5. ~sdmmcRegistered
  BY <1>1, <1>2 DEF Slot, Bringing
<1> DEFINE e == Call(f.fn, "registered")
<1>6. stack' = [stack EXCEPT ![Len(stack)] = e]
  BY <1>1, <1>2 DEF Goto, Me
<1>7. f.fn \in {"init", "check"}
  BY <1>1, <1>2 DEF Shaped, Frame
<1>8. e \in Frame /\ e.fn = f.fn /\ e.pc = "registered" /\ e.ph = "start" /\ e.complete = "none" /\ e.end = "none"
  BY <1>7, CallIs
<1> HIDE DEF e
<1>9. QuietStep /\ Shaped' /\ Removed'
  <2>1. f.pc \notin Commands
    BY <1>1, <1>2 DEF Commands
  <2>2. QED
    BY <1>1, <1>2, <1>3, <1>6, <1>8, <2>1, QuietReplace
<1>10. Slot'
  <2>1. e.pc \notin Bringing
    BY <1>8 DEF Bringing, Commands
  <2>2. QED
    BY <1>2, <1>3, <1>5, <1>6, <1>7, <1>8, <2>1, SlotReplace
<1>11. QED
  BY <1>2, <1>4, <1>9, <1>10, QuietInv

LEMMA RegisteredKept ==
  ASSUME SdInv, Registered
  PROVE  SdInv'
<1>1. /\ Running /\ Top.pc = "registered" /\ sdmmcRegistered' = TRUE /\ End
      /\ UNCHANGED <<hardware, list, mmcDev, bdev, emmc, checkConnected, polling, state, halted,
                     sizeless, flaky>>
  BY DEF Registered
<1>2. Going /\ TypeOK
  BY <1>1, RunningIs
<1>3. UNCHANGED <<wire, pend, latch, list, card, bdev, polling>>
  BY <1>1 DEF hardware
<1>4. DriverTypes'
  BY <1>1, <1>2, Types DEF DriverTypes, hardware
<1>5. QuietStep /\ Shaped' /\ Removed' /\ Slot'
  BY <1>1, <1>3, QuietEnd
<1>6. QED
  BY <1>2, <1>4, <1>5, QuietInv

LEMMA WatchKept ==
  ASSUME SdInv, Watch
  PROVE  SdInv'
<1>1. /\ Running /\ Top.pc = "watch" /\ irqOn' = TRUE /\ polling' = TRUE /\ emmc' = Emmc /\ Return
      /\ UNCHANGED <<card, wire, pend, latch, flag, host, list, mmcDev, bdev, sdmmcRegistered,
                     checkConnected, state, halted, sizeless, flaky>>
  BY DEF Watch
<1> DEFINE f == stack[Len(stack)]
<1>2. /\ latch = {} /\ stack # <<>> /\ Going /\ TypeOK /\ Shaped /\ Slot
      /\ Top = f /\ f \in Frame /\ Len(stack) \in DOMAIN stack
  BY <1>1, RunningIs
<1>3. f.fn = "init" /\ f.pc \notin Commands
  BY <1>1, <1>2 DEF Shaped, Frame, Commands
<1>4. DriverTypes'
  BY <1>1, <1>2, Types, SdCardsAssumption DEF DriverTypes
<1>5. stack' = Front(stack)
  BY <1>1 DEF Return
<1>6. QuietStep /\ Shaped' /\ Removed'
  BY <1>1, <1>2, <1>3, <1>5, QuietPop
<1>7. bdev' => sdmmcRegistered'
  <2>1. \A i \in DOMAIN stack : stack[i].pc \notin {"registered", "unregister"}
    <3>1. \A i \in DOMAIN stack : i # Len(stack) => stack[i].pc = "read"
      BY <1>2, <1>3, OthersRead
    <3>2. QED
      BY <1>1, <1>2, <3>1
  <2>2. QED
    BY <1>1, <1>2, <2>1, ToldOf, Types
<1>8. Slot'
  BY <1>2, <1>3, <1>5, <1>7, SlotPop
<1>9. QED
  BY <1>2, <1>4, <1>6, <1>8, QuietInv

LEMMA GoneKept ==
  ASSUME SdInv, Gone
  PROVE  SdInv'
<1>1. /\ Running /\ Top.pc = "gone"
      /\ UNCHANGED <<hardware, list, mmcDev, bdev, emmc, checkConnected, polling, state, halted,
                     sizeless, flaky>>
  BY DEF Gone
<1> DEFINE f == stack[Len(stack)]
<1>2. /\ latch = {} /\ stack # <<>> /\ Going /\ TypeOK /\ Shaped /\ Slot
      /\ Top = f /\ f \in Frame /\ Len(stack) \in DOMAIN stack
  BY <1>1, RunningIs
<1>3. UNCHANGED <<wire, pend, latch, list, card, bdev, polling>>
  BY <1>1 DEF hardware
<1>4. f.fn = "check" /\ f.pc \notin Commands
  BY <1>1, <1>2 DEF Shaped, Frame, Commands
<1>5. sdmmcRegistered' \in BOOLEAN
  BY <1>2, Types DEF Gone
<1>6. DriverTypes'
  BY <1>1, <1>2, <1>5, Types DEF DriverTypes, hardware
<1>7. CASE card.in
  <2>1. stack' = Front(stack) /\ sdmmcRegistered' = sdmmcRegistered
    BY <1>7 DEF Gone, Return
  <2>2. QuietStep /\ Shaped' /\ Removed'
    BY <1>2, <1>3, <1>4, <2>1, QuietPop
  <2>3. sdmmcRegistered
    BY <1>1, <1>2 DEF Slot
  <2>4. Slot'
    BY <1>2, <1>4, <2>1, <2>3, SlotPop
  <2>5. QED
    BY <1>2, <1>6, <2>2, <2>4, QuietInv
<1>8. CASE ~card.in
  <2> DEFINE e == Call(f.fn, "unregister")
  <2>1. stack' = [stack EXCEPT ![Len(stack)] = e] /\ sdmmcRegistered' = FALSE
    BY <1>2, <1>8 DEF Gone, Goto, Me
  <2>2. e \in Frame /\ e.fn = f.fn /\ e.pc = "unregister" /\ e.ph = "start" /\ e.complete = "none" /\ e.end = "none"
    BY <1>4, CallIs
  <2> HIDE DEF e
  <2>3. QuietStep /\ Shaped' /\ Removed'
    BY <1>1, <1>2, <1>3, <1>4, <2>1, <2>2, QuietReplace
  <2>4. Slot'
    <3>1. e.pc \notin Bringing
      BY <2>2 DEF Bringing, Commands
    <3>2. QED
      BY <1>2, <1>4, <2>1, <2>2, <3>1, SlotReplace
  <2>5. QED
    BY <1>2, <1>6, <2>3, <2>4, QuietInv
<1>9. QED
  BY <1>7, <1>8

LEMMA OpenIs ==
  ASSUME SdInv, Open
  PROVE  /\ halted = "no" /\ latch = {} /\ Going /\ TypeOK /\ Shaped /\ Slot
         /\ (stack # <<>> => stack[Len(stack)].ph # "wait") /\ stack \in Seq(Frame)
<1>1. TypeOK /\ halted = "no" /\ latch = {}
  BY DEF SdInv, Open
<1>2. stack \in Seq(Frame)
  BY <1>1, Types
<1>3. QED
  BY <1>1, <1>2, TopIs DEF SdInv, Going, Open, Top

LEMMA CheckKept ==
  ASSUME SdInv, sdmmcConnectionCheck
  PROVE  SdInv'
<1> DEFINE e == Call("check", IF sdmmcRegistered THEN "gone" ELSE "look")
<1>1. /\ Open /\ polling /\ Len(stack) < MaxNesting
      /\ \A i \in DOMAIN stack : stack[i].fn # "check"
      /\ checkConnected' = FALSE /\ flaky' = FALSE
      /\ stack' = Append(stack, e)
      /\ UNCHANGED <<hardware, list, mmcDev, bdev, emmc, sdmmcRegistered, polling, state, halted,
                     sizeless>>
  BY DEF sdmmcConnectionCheck
<1>2. e \in Frame /\ e.fn = "check" /\ e.ph = "start" /\ e.complete = "none" /\ e.end = "none"
      /\ e.pc = IF sdmmcRegistered THEN "gone" ELSE "look"
  BY CallIs
<1> HIDE DEF e
<1>3. /\ latch = {} /\ Going /\ TypeOK /\ Shaped /\ Slot /\ stack \in Seq(Frame)
      /\ (stack # <<>> => stack[Len(stack)].ph # "wait")
  BY <1>1, OpenIs
<1>4. UNCHANGED <<wire, pend, latch, list, card, bdev, polling>>
  BY <1>1 DEF hardware
<1>5. DriverTypes'
  <2>1. DriverTypes
    BY <1>3, Types DEF DriverTypes
  <2>2. UNCHANGED <<flag, irqOn, host, mmcDev, bdev, emmc, sdmmcRegistered, polling, state, halted,
                    sizeless>>
    BY <1>1 DEF hardware
  <2>3. checkConnected' \in BOOLEAN /\ flaky' \in BOOLEAN /\ sizeless' \in BOOLEAN
    BY <1>1, <2>1 DEF DriverTypes
  <2>4. QED
    BY <2>1, <2>2, <2>3 DEF DriverTypes
<1>6. QuietStep /\ Shaped' /\ Removed'
  BY <1>1, <1>2, <1>3, <1>4, QuietPush
<1>7. \A i \in DOMAIN stack : stack[i].fn = "read" /\ stack[i].pc = "read"
  <2>1. \A i \in DOMAIN stack : stack[i].fn \in {"init", "check", "read"}
    BY <1>3, StackIs DEF Frame
  <2>2. QED
    BY <1>1, <1>3, <2>1 DEF Shaped
<1>8. ~sdmmcRegistered => ~bdev
  BY <1>3, <1>7, ToldOf, Types
<1>9. Slot'
  <2>1. /\ Len(stack') = Len(stack) + 1 /\ DOMAIN stack' = 1..(Len(stack) + 1)
        /\ stack'[Len(stack) + 1] = e /\ DOMAIN stack = 1..Len(stack) /\ Len(stack) \in Nat
        /\ \A i \in DOMAIN stack : stack'[i] = stack[i]
    BY <1>1, <1>2, <1>3, PushTop, StackIs
  <2>2. \A i \in DOMAIN stack' : i # Len(stack) + 1 => stack'[i].pc = "read"
    BY <1>7, <2>1
  <2>3. "read" \notin Bringing /\ "gone" \notin Bringing
    BY DEF Bringing, Commands
  <2>4. sdmmcRegistered \in BOOLEAN /\ bdev \in BOOLEAN
    BY <1>3, Types
  <2> DEFINE m == Len(stack) + 1
  <2>5. Len(stack') = m /\ stack'[m] = e /\ \A i \in DOMAIN stack' : i # m => stack'[i].pc = "read"
    BY <2>1, <2>2
  <2> HIDE DEF m
  <2>6. UNCHANGED <<bdev, sdmmcRegistered>>
    BY <1>1
  <2>7. QED
    BY <1>2, <1>8, <2>3, <2>4, <2>5, <2>6 DEF Slot
<1>10. QED
  BY <1>3, <1>5, <1>6, <1>9, QuietInv

LEMMA StartReadKept ==
  ASSUME SdInv, StartRead
  PROVE  SdInv'
<1> DEFINE e == Call("read", "read")
<1>1. /\ Open /\ bdev /\ Len(stack) < MaxNesting /\ stack' = Append(stack, e)
      /\ UNCHANGED <<hardware, list, driver, flaky>>
  BY DEF StartRead
<1>2. e \in Frame /\ e.fn = "read" /\ e.pc = "read" /\ e.ph = "start" /\ e.complete = "none" /\ e.end = "none"
  BY CallIs DEF Commands
<1> HIDE DEF e
<1>3. /\ latch = {} /\ Going /\ TypeOK /\ Shaped /\ Slot /\ stack \in Seq(Frame)
      /\ (stack # <<>> => stack[Len(stack)].ph # "wait")
  BY <1>1, OpenIs
<1>4. UNCHANGED <<wire, pend, latch, list, card, bdev, polling, sdmmcRegistered>>
  BY <1>1 DEF hardware, driver
<1>5. DriverTypes'
  <2>1. DriverTypes
    BY <1>3, Types DEF DriverTypes
  <2>2. UNCHANGED <<flag, irqOn, host, mmcDev, bdev, emmc, sdmmcRegistered, checkConnected, polling,
                    state, halted, sizeless, flaky>>
    BY <1>1 DEF hardware, driver
  <2>3. QED
    BY <2>1, <2>2 DEF DriverTypes
<1>6. QuietStep /\ Shaped' /\ Removed'
  BY <1>1, <1>2, <1>3, <1>4, QuietPush
<1>7. Slot'
  <2>1. /\ DOMAIN stack' = 1..(Len(stack) + 1)
        /\ stack'[Len(stack) + 1] = e /\ DOMAIN stack = 1..Len(stack) /\ Len(stack) \in Nat
        /\ \A i \in DOMAIN stack : stack'[i] = stack[i]
    BY <1>1, <1>2, <1>3, PushTop, StackIs
  <2> DEFINE m == Len(stack) + 1
  <2>2. /\ \A i \in DOMAIN stack : i \in DOMAIN stack' /\ stack'[i] = stack[i]
        /\ \A i \in DOMAIN stack' : i = m \/ i \in DOMAIN stack
        /\ stack'[m] = e
    BY <2>1
  <2> HIDE DEF m
  <2>3. "read" \notin Bringing
    BY DEF Bringing
  <2>4. \A i \in DOMAIN stack : stack[i].pc \notin Bringing
    BY <1>1, <1>3 DEF Slot
  <2>5. QED
    BY <1>2, <1>3, <1>4, <2>2, <2>3, <2>4 DEF Slot
<1>8. QED
  BY <1>3, <1>5, <1>6, <1>7, QuietInv

\* A read that returns.
LEMMA ReadKept ==
  ASSUME SdInv, mmc_block_read
  PROVE  SdInv'
<1>1. PICK r \in Results :
        Returns("read", r) /\ stack' = Front(stack) /\ UNCHANGED <<card, host, driver, flaky>>
  BY DEF mmc_block_read, Return
<1> DEFINE n == Len(stack)
           f == stack[n]
<1>2. /\ halted = "no" /\ stack # <<>> /\ Going /\ f.pc = "read" /\ Submitted(f) /\ Settled
  BY <1>1, ReturnsSettles
<1>3. TypeOK /\ Shaped /\ Slot /\ Removed
  BY <1>2 DEF SdInv, Going
<1>4. stack \in Seq(Frame) /\ Len(stack) <= MaxNesting /\ pend \subseteq Bits
  BY <1>3, Types
<1>5. n \in Nat /\ n >= 1 /\ DOMAIN stack = 1..n
  BY <1>2, <1>4, TopIs
<1>6. /\ stack' \in Seq(Frame) /\ Len(stack') = n - 1 /\ DOMAIN stack' = 1..(n - 1)
      /\ \A i \in DOMAIN stack' : i \in DOMAIN stack /\ i # n /\ stack'[i] = stack[i]
  BY <1>1, <1>2, <1>4, PopTop
<1>7. MaxNesting \in Nat
  BY SdCardsAssumption
<1>8. Len(stack') <= n /\ Len(stack') # n /\ Len(stack') <= MaxNesting
  <2>1. \A m \in Nat : m >= 1 /\ m <= MaxNesting => m - 1 <= m /\ m - 1 # m /\ m - 1 <= MaxNesting
    BY <1>7
  <2>2. n <= MaxNesting
    BY <1>4
  <2> HIDE DEF n
  <2>3. QED
    BY <1>5, <1>6, <2>1, <2>2
<1>9. UNCHANGED <<bdev, polling, sdmmcRegistered>>
  BY <1>1 DEF driver
<1>10. InList' /\ Wired' /\ Orphans' /\ Evidence' /\ Seen' /\ TruthfulAnswers'
  BY <1>2, <1>6, <1>8, <1>9, SettledKept
<1>11. Removed'
  <2>1. latch' \subseteq latch \cup pend /\ pend' \subseteq pend \cup latch
    BY <1>2 DEF Settled
  <2>2. QED
    BY <1>1, <1>3, <1>6, <1>9, <2>1, RemovedKept
<1>12. Shaped'
  BY <1>1, <1>2, <1>3, <1>9, LowerNotWaiting, ShapedPop
<1>13. Slot'
  <2>1. \A i \in DOMAIN stack : i # n => i \in DOMAIN stack'
    BY <1>5, <1>6
  <2> HIDE DEF n
  <2>2. \A i \in DOMAIN stack' : i # n /\ i \in DOMAIN stack /\ stack'[i] = stack[i]
    BY <1>6
  <2>3. ASSUME bdev', ~sdmmcRegistered'
        PROVE  \E i \in DOMAIN stack' : stack'[i].pc \in {"registered", "unregister"}
    <3>1. PICK i \in DOMAIN stack : stack[i].pc \in {"registered", "unregister"}
      BY <1>3, <1>9, <2>3 DEF Slot
    <3>2. i # n
      BY <1>2, <3>1 DEF f
    <3>3. QED
      BY <2>1, <2>2, <3>1, <3>2
  <2>4. ASSUME NEW i \in DOMAIN stack'
        PROVE  /\ stack'[i].pc \notin Bringing
               /\ stack'[i].pc \in {"registered", "unregister"} => ~sdmmcRegistered'
               /\ stack'[i].pc = "gone" => sdmmcRegistered'
    BY <1>3, <1>9, <2>2 DEF Slot, n
  <2>5. QED
    BY <2>3, <2>4 DEF Slot
<1>14. TypeOK'
  <2>1. /\ wire' \in [by : 0..MaxNesting, await : {"none", "response", "data"}]
        /\ pend' \subseteq Bits /\ latch' \subseteq Bits /\ list' \in Seq(DOMAIN stack')
    BY <1>2, <1>4, <1>7, EmptySeq DEF Settled, Idle
  <2>2. flag' = flag /\ irqOn' = irqOn
    BY <1>2 DEF Settled
  <2>3. /\ card \in [in : BOOLEAN, known : BOOLEAN, wide : BOOLEAN, hs : BOOLEAN]
        /\ DriverTypes
    BY <1>3, Types DEF DriverTypes
  <2>4. UNCHANGED <<mmcDev, bdev, emmc, sdmmcRegistered, checkConnected, polling, state, halted,
                    sizeless>>
    BY <1>1 DEF driver
  <2>5. QED
    BY <1>1, <1>6, <1>8, <2>1, <2>2, <2>3, <2>4 DEF TypeOK, Frame, DriverTypes
<1>15. QED
  BY <1>10, <1>11, <1>12, <1>13, <1>14 DEF SdInv, Going

(***************************************************************************)
(* A reset of the host cuts the calls off that wait for an answer.         *)
(***************************************************************************)
LEMMA CutIs ==
  ASSUME NEW c, NEW frames \in Seq(Frame), sdhc_reset(c, frames)
  PROVE  /\ stack' \in Seq(Frame) /\ Len(stack') = Len(frames) /\ DOMAIN stack' = DOMAIN frames
         /\ \A i \in DOMAIN stack' :
              /\ stack'[i].fn = frames[i].fn /\ stack'[i].pc = frames[i].pc
              /\ stack'[i].ph = frames[i].ph /\ stack'[i].complete = frames[i].complete
              /\ frames[i].ph = "start" \/ frames[i].complete # "none" => stack'[i] = frames[i]
              /\ frames[i].ph # "start" /\ frames[i].complete = "none" => stack'[i].end = "bad"
<1>1. /\ DOMAIN frames = 1..Len(frames) /\ Len(frames) \in Nat
      /\ \A i \in DOMAIN frames : frames[i] \in Frame
  BY StackIs
<1>2. /\ DOMAIN stack' = DOMAIN frames
      /\ \A i \in DOMAIN frames :
           stack'[i] = IF frames[i].ph = "start" \/ frames[i].complete # "none" THEN frames[i]
                       ELSE [frames[i] EXCEPT !.end = "bad"]
      /\ stack' = [i \in DOMAIN stack' |-> stack'[i]]
  BY DEF sdhc_reset
<1>3. ASSUME NEW i \in DOMAIN frames
      PROVE  /\ stack'[i] \in Frame
             /\ stack'[i].fn = frames[i].fn /\ stack'[i].pc = frames[i].pc
             /\ stack'[i].ph = frames[i].ph /\ stack'[i].complete = frames[i].complete
             /\ frames[i].ph = "start" \/ frames[i].complete # "none" => stack'[i] = frames[i]
             /\ frames[i].ph # "start" /\ frames[i].complete = "none" => stack'[i].end = "bad"
  <2> DEFINE f == frames[i]
             g == [f EXCEPT !.end = "bad"]
  <2>1. f \in Frame
    BY <1>1, <1>3
  <2>2. stack'[i] = IF f.ph = "start" \/ f.complete # "none" THEN f ELSE g
    BY <1>2, <1>3
  <2> HIDE DEF f
  <2>3. g \in Frame /\ g.fn = f.fn /\ g.pc = f.pc /\ g.ph = f.ph /\ g.complete = f.complete /\ g.end = "bad"
    BY <2>1 DEF Frame
  <2> HIDE DEF g
  <2>4. QED
    BY <2>1, <2>2, <2>3 DEF f
<1>4. stack' \in [1..Len(frames) -> Frame]
  BY <1>1, <1>2, <1>3
<1>5. stack' \in Seq(Frame)
  BY <1>1, <1>4, SeqDef
<1>6. Len(stack') = Len(frames)
  BY <1>1, <1>2, <1>5, LenProperties
<1>7. QED
  BY <1>2, <1>3, <1>5, <1>6

LEMMA ResetKept ==
  ASSUME SdInv, Running, NEW c, NEW frames \in Seq(Frame), sdhc_reset(c, frames),
         UNCHANGED <<card, latch, list, polling>>,
         Top.pc \in {"reset", "unregister"},
         NEW pc \in {"appcmd", "watch"}, pc = "watch" => Top.fn = "init",
         DOMAIN frames \subseteq DOMAIN stack, \A i \in DOMAIN stack : i # Len(stack) => i \in DOMAIN frames,
         \A i \in DOMAIN frames : i # Len(stack) => frames[i] = stack[i],
         Len(stack) \in DOMAIN frames
           => frames[Len(stack)] = Call(Top.fn, pc) /\ Len(frames) = Len(stack)
  PROVE  /\ InList' /\ Wired' /\ Orphans' /\ Evidence' /\ Removed' /\ Seen' /\ TruthfulAnswers'
         /\ Shaped' /\ list' \in Seq(DOMAIN stack')
<1> DEFINE n == Len(stack)
           f == stack[n]
<1>1. /\ halted = "no" /\ latch = {} /\ stack # <<>> /\ Going /\ TypeOK /\ Shaped /\ InList
      /\ Top = f /\ f \in Frame /\ n \in DOMAIN stack /\ stack \in Seq(Frame)
  BY RunningIs DEF Going
<1>2. /\ DOMAIN stack = 1..Len(stack) /\ Len(stack) \in Nat
      /\ \A i \in DOMAIN stack : stack[i] \in Frame
  BY <1>1, StackIs
<1>3. f.ph = "start" /\ f.fn \in {"init", "check"}
  BY <1>1 DEF Shaped, Commands, Frame
<1> DEFINE e == Call(Top.fn, pc)
<1>4. e.fn = f.fn /\ e.pc = pc /\ e.ph = "start" /\ e.complete = "none" /\ e.end = "none"
  BY <1>1, <1>3, CallIs DEF Commands
<1> HIDE DEF e
<1>5. \A i \in DOMAIN stack' :
        /\ i \in DOMAIN frames /\ i \in DOMAIN stack
        /\ i # n => /\ stack'[i].fn = stack[i].fn /\ stack'[i].pc = stack[i].pc
                    /\ stack'[i].ph = stack[i].ph /\ stack'[i].complete = stack[i].complete
                    /\ stack[i].ph = "start" \/ stack[i].complete # "none" => stack'[i] = stack[i]
                    /\ stack[i].ph # "start" /\ stack[i].complete = "none" => stack'[i].end = "bad"
        /\ i = n => stack'[i] = e /\ Len(stack') = n
  <2>1. /\ DOMAIN stack' = DOMAIN frames /\ Len(stack') = Len(frames)
        /\ \A i \in DOMAIN stack' :
              /\ stack'[i].fn = frames[i].fn /\ stack'[i].pc = frames[i].pc
              /\ stack'[i].ph = frames[i].ph /\ stack'[i].complete = frames[i].complete
              /\ frames[i].ph = "start" \/ frames[i].complete # "none" => stack'[i] = frames[i]
              /\ frames[i].ph # "start" /\ frames[i].complete = "none" => stack'[i].end = "bad"
    BY CutIs
  <2>2. ASSUME NEW i \in DOMAIN stack', i # n
        PROVE  frames[i] = stack[i]
    BY <2>1, <2>2
  <2>3. ASSUME NEW i \in DOMAIN stack', i = n
        PROVE  stack'[i] = e /\ Len(stack') = n
    <3>1. frames[i] = e /\ Len(frames) = n
      BY <2>1, <2>3 DEF e
    <3>2. QED
      BY <1>4, <2>1, <2>3, <3>1
  <2>4. QED
    BY <2>1, <2>2, <2>3
<1>6. DOMAIN stack' = DOMAIN frames /\ stack' \in Seq(Frame)
  BY CutIs
<1>7. wire' = Idle /\ pend' = {} /\ latch' = {} /\ list' = list
  BY <1>1 DEF sdhc_reset
<1> HIDE DEF n, f
<1>8. wire'.by = 0 /\ wire'.await = "none"
  BY <1>7 DEF Idle
<1>9. \A k \in DOMAIN list : /\ list[k] \in DOMAIN stack /\ list[k] # n /\ list[k] \in DOMAIN stack'
                             /\ Submitted(stack[list[k]]) /\ stack[list[k]].complete = "none"
  <2>1. \A k \in DOMAIN list : list[k] \in DOMAIN stack
    BY <1>1, Types, ElementOfSeq, LenProperties
  <2>2. \A k \in DOMAIN list : Submitted(stack[list[k]]) /\ stack[list[k]].complete = "none"
    BY <1>1 DEF InList
  <2>3. \A k \in DOMAIN list : list[k] # n
    BY <1>3, <2>2 DEF Submitted, f
  <2>4. QED
    BY <1>6, <2>1, <2>2, <2>3 DEF n
<1>10. InList'
  <2>1. \A k \in DOMAIN list' : Submitted(stack'[list'[k]]) /\ stack'[list'[k]].complete = "none"
    BY <1>5, <1>7, <1>9 DEF Submitted
  <2>2. \A i \in DOMAIN stack' : stack'[i].complete # "none" => \A k \in DOMAIN list' : list'[k] > i
    <3>1. \A i \in DOMAIN stack' : stack'[i].complete # "none" => i \in DOMAIN stack /\ stack[i].complete # "none"
      BY <1>4, <1>5
    <3>2. QED
      BY <1>1, <1>7, <3>1 DEF InList
  <2>3. \A j, k \in DOMAIN list' : j < k => list'[j] < list'[k]
    BY <1>1, <1>7 DEF InList
  <2>4. QED
    BY <2>1, <2>2, <2>3 DEF InList
<1>11. Wired'
  <2>1. \A i \in DOMAIN stack' : stack'[i].pc \notin Bringing \ {"look", "reset", "appcmd"}
    <3>1. \A i \in DOMAIN stack : i # n => stack[i].pc = "read"
      BY <1>1, <1>3, OthersRead DEF n, f
    <3>2. "read" \notin Bringing
      BY DEF Bringing
    <3>3. pc \notin Bringing \ {"look", "reset", "appcmd"}
      BY DEF Bringing, Commands
    <3>4. QED
      BY <1>4, <1>5, <3>1, <3>2, <3>3
  <2>2. QED
    BY <1>8, <2>1 DEF Wired
<1>12. Orphans'
  <2>1. SUFFICES ASSUME NEW i \in DOMAIN stack',
                        Submitted(stack'[i]), stack'[i].end = "none",
                        stack'[i].complete = "none" \/ wire'.by = i
                 PROVE  FALSE
    BY DEF Orphans
  <2>2. i # n
    BY <1>4, <1>5, <2>1 DEF Submitted
  <2>3. i # 0
    BY <1>2, <1>5
  <2>4. stack[i].ph # "start" /\ stack[i].complete = "none"
    BY <1>5, <1>8, <2>1, <2>2, <2>3 DEF Submitted
  <2>5. QED
    BY <1>5, <2>1, <2>2, <2>4
<1>13. Evidence'
  <2>1. pend' \cup latch' = {} /\ pend' = {} /\ latch' = {}
    BY <1>7
  <2>2. \A x : ~Says({}, x)
    BY DEF Says
  <2>3. QED
    BY <2>1, <2>2 DEF Evidence
<1>14. Removed'
  BY <1>7 DEF Removed
<1>15. Seen' /\ TruthfulAnswers'
  <2>1. \A i \in DOMAIN stack : stack[i].complete = "ok" => stack[i].end = "good"
    BY DEF SdInv, TruthfulAnswers
  <2>2. TruthfulAnswers'
    BY <1>4, <1>5, <2>1 DEF TruthfulAnswers
  <2>3. \A i \in DOMAIN stack' : ~(stack'[i].end = "good" /\ stack'[i].complete = "none")
    <3>1. TAKE i \in DOMAIN stack'
    <3>2. CASE i = n
      BY <1>4, <1>5, <3>2
    <3>3. CASE i # n
      <4>1. stack[i].ph = "start" => stack[i].end = "none"
        BY <1>1, <1>5 DEF Shaped
      <4>2. QED
        BY <1>5, <3>3, <4>1
    <3>4. QED
      BY <3>2, <3>3
  <2>4. QED
    BY <2>2, <2>3 DEF Seen
<1>16. Shaped'
  <2>1. \A i \in DOMAIN stack' : i \in DOMAIN stack /\ stack'[i].fn = stack[i].fn
    BY <1>4, <1>5 DEF f
  <2>2. ASSUME NEW i \in DOMAIN stack'
        PROVE  /\ stack'[i].fn = "read" <=> stack'[i].pc = "read"
               /\ stack'[i].fn = "init" => i = 1 /\ ~polling' /\ stack'[i].pc \notin {"gone", "unregister"}
               /\ stack'[i].fn = "check" => polling' /\ stack'[i].pc # "watch"
               /\ stack'[i].pc \notin Commands => stack'[i].ph = "start"
               /\ stack'[i].ph = "start" => stack'[i].complete = "none" /\ stack'[i].end = "none"
               /\ stack'[i].ph # "wait"
    <3>1. CASE i = n
      <4>1. f.fn = "init" => i = 1 /\ ~polling
        BY <1>1, <3>1 DEF Shaped, f
      <4>2. f.fn = "check" => polling
        BY <1>1, <3>1 DEF Shaped, f
      <4>3. pc = "watch" => f.fn = "init"
        BY <1>1
      <4>4. pc \notin {"read", "gone", "unregister"} /\ (pc \in Commands \/ pc = "watch")
        BY DEF Commands
      <4>5. QED
        BY <1>3, <1>4, <1>5, <3>1, <4>1, <4>2, <4>3, <4>4
    <3>2. CASE i # n
      <4>1. i \in DOMAIN stack
        BY <1>5
      <4>2. stack[i].ph # "wait"
        BY <1>1, <3>2, <4>1, LowerNotWaiting DEF n
      <4>3. stack'[i].ph = "start" => stack'[i] = stack[i]
        BY <1>5, <3>2
      <4>4. QED
        BY <1>1, <1>5, <3>2, <4>1, <4>2, <4>3 DEF Shaped
    <3>3. QED
      BY <3>1, <3>2
  <2>3. \A i, j \in DOMAIN stack' : stack'[i].fn = "check" /\ stack'[j].fn = "check" => i = j
    BY <1>1, <2>1 DEF Shaped
  <2>4. QED
    BY <2>2, <2>3 DEF Shaped
<1>17. list' \in Seq(DOMAIN stack')
  <2>1. list \in Seq(DOMAIN stack)
    BY <1>1, Types
  <2>2. \A k \in 1..Len(list) : list[k] \in DOMAIN stack'
    BY <1>9, <2>1, LenProperties
  <2>3. QED
    BY <1>7, <2>1, <2>2, SeqOfElements
<1>18. QED
  BY <1>10, <1>11, <1>12, <1>13, <1>14, <1>15, <1>16, <1>17

LEMMA ResetTypes ==
  ASSUME SdInv, NEW c \in Clocks("init"), NEW frames, sdhc_reset(c, frames)
  PROVE  /\ host' \in [wide : BOOLEAN, clock : {"off", "init", "default", "fast"}]
         /\ wire' \in [by : 0..MaxNesting, await : {"none", "response", "data"}]
         /\ pend' \subseteq Bits
<1>2. MaxNesting \in Nat
  BY SdCardsAssumption
<1>3. c \in {"off", "init", "default", "fast"}
  BY DEF Clocks
<1>4. QED
  BY <1>2, <1>3 DEF sdhc_reset, Idle

\* The calls that mmc_init leaves when it resets the host: it goes on, or,
\* without a clock, it ends.
ResetOf(c, frames, pc) ==
  /\ sdhc_reset(c, frames)
  /\ flaky' = (flaky \/ "CINS" \in pend \/ c = "off")
  /\ pc = "watch" => Top.fn = "init"
  /\ c # "off" => pc = "appcmd"
  /\ DOMAIN frames \subseteq DOMAIN stack /\ Len(frames) <= Len(stack)
  /\ \A i \in DOMAIN stack : i # Len(stack) => i \in DOMAIN frames
  /\ \A i \in DOMAIN frames : i # Len(stack) => frames[i] = stack[i]
  /\ Len(stack) \in DOMAIN frames
       => /\ frames[Len(stack)] = Call(Top.fn, pc) /\ Len(frames) = Len(stack)
          /\ pc = "appcmd" => c # "off"

LEMMA ResetIs ==
  ASSUME SdInv, Reset
  PROVE  \E c \in Clocks("init"), frames \in Seq(Frame), pc \in {"appcmd", "watch"} :
           ResetOf(c, frames, pc)
<1>1. PICK c \in Clocks("init") :
        /\ sdhc_reset(c, IF c = "off" THEN Ended ELSE [stack EXCEPT ![Me] = Call(Top.fn, "appcmd")])
        /\ flaky' = (flaky \/ "CINS" \in pend \/ c = "off")
  BY DEF Reset
<1>2. Running /\ Top.pc = "reset"
  BY DEF Reset
<1>3. /\ stack # <<>> /\ Shaped /\ Top = stack[Len(stack)] /\ Top \in Frame
      /\ Len(stack) \in DOMAIN stack /\ stack \in Seq(Frame)
  BY <1>2, RunningIs
<1>4. Top.fn \in {"init", "check"}
  BY <1>2, <1>3 DEF Shaped, Frame
<1>5. DOMAIN stack = 1..Len(stack) /\ Len(stack) \in Nat
  BY <1>3, StackIs
<1>6. ASSUME NEW pc \in {"appcmd", "watch"}, pc = "watch" => Top.fn = "init" /\ c = "off",
             pc = "appcmd" => c # "off",
             sdhc_reset(c, [stack EXCEPT ![Len(stack)] = Call(Top.fn, pc)])
      PROVE  \E frames \in Seq(Frame) : ResetOf(c, frames, pc)
  <2> DEFINE e == Call(Top.fn, pc)
             frames == [stack EXCEPT ![Len(stack)] = e]
  <2>1. e \in Frame
    BY <1>4, CallIs DEF Commands
  <2>2. sdhc_reset(c, frames)
    BY <1>6
  <2>3. e = Call(Top.fn, pc)
    OBVIOUS
  <2> HIDE DEF e
  <2>4. /\ frames \in Seq(Frame) /\ DOMAIN frames = DOMAIN stack /\ Len(frames) = Len(stack)
        /\ frames[Len(stack)] = e
        /\ \A i \in DOMAIN frames : i # Len(stack) => frames[i] = stack[i]
    BY <1>3, <2>1, PutTop
  <2>5. Len(frames) <= Len(stack)
    BY <1>5, <2>4
  <2> HIDE DEF frames
  <2>6. ResetOf(c, frames, pc)
    BY <1>1, <1>6, <2>2, <2>3, <2>4, <2>5 DEF ResetOf
  <2>7. QED
    BY <2>4, <2>6
<1>7. CASE c # "off"
  <2>1. sdhc_reset(c, [stack EXCEPT ![Len(stack)] = Call(Top.fn, "appcmd")])
    BY <1>1, <1>7 DEF Me
  <2>2. QED
    BY <1>6, <1>7, <2>1
<1>8. CASE c = "off" /\ Top.fn = "init"
  <2>1. sdhc_reset(c, [stack EXCEPT ![Len(stack)] = Call(Top.fn, "watch")])
    BY <1>1, <1>8 DEF Ended, Me
  <2>2. QED
    BY <1>6, <1>8, <2>1
<1>9. CASE c = "off" /\ Top.fn # "init"
  <2> DEFINE frames == Front(stack)
  <2>1. sdhc_reset(c, frames)
    BY <1>1, <1>9 DEF Ended
  <2>2. /\ frames \in Seq(Frame) /\ Len(frames) = Len(stack) - 1
        /\ DOMAIN frames = 1..(Len(stack) - 1)
        /\ \A i \in DOMAIN frames : i \in DOMAIN stack /\ i # Len(stack) /\ frames[i] = stack[i]
    BY <1>3, PopTop
  <2> HIDE DEF frames
  <2>3. /\ Len(frames) <= Len(stack) /\ DOMAIN frames \subseteq DOMAIN stack
        /\ Len(stack) \notin DOMAIN frames
        /\ \A i \in DOMAIN stack : i # Len(stack) => i \in DOMAIN frames
    BY <1>5, <2>2
  <2>4. ResetOf(c, frames, "appcmd")
    BY <1>1, <2>1, <2>2, <2>3 DEF ResetOf
  <2>5. QED
    BY <2>2, <2>4
<1>10. QED
  BY <1>7, <1>8, <1>9

LEMMA ResetStepKept ==
  ASSUME SdInv, Reset
  PROVE  SdInv'
<1>1. /\ Running /\ Top.pc = "reset"
      /\ UNCHANGED <<card, latch, flag, irqOn, list, driver>>
  BY DEF Reset
<1>2. /\ halted = "no" /\ latch = {} /\ stack # <<>> /\ Going /\ TypeOK /\ Shaped /\ Slot
      /\ Top = stack[Len(stack)] /\ Top \in Frame /\ Len(stack) \in DOMAIN stack
      /\ stack \in Seq(Frame)
  BY <1>1, RunningIs
<1>3. Top.fn \in {"init", "check"}
  BY <1>1, <1>2 DEF Shaped, Frame
<1>4. PICK c \in Clocks("init"), frames \in Seq(Frame), pc \in {"appcmd", "watch"} :
        ResetOf(c, frames, pc)
  BY ResetIs
<1> DEFINE e == Call(Top.fn, pc)
<1>5. e \in Frame /\ e.pc = pc
  BY <1>3, CallIs DEF Commands
<1> HIDE DEF e
<1>6. UNCHANGED <<card, latch, list, polling>>
  BY <1>1 DEF driver
<1>7. /\ InList' /\ Wired' /\ Orphans' /\ Evidence' /\ Removed' /\ Seen' /\ TruthfulAnswers'
      /\ Shaped' /\ list' \in Seq(DOMAIN stack')
  <2>1. /\ sdhc_reset(c, frames) /\ (pc = "watch" => Top.fn = "init")
        /\ DOMAIN frames \subseteq DOMAIN stack
        /\ \A i \in DOMAIN stack : i # Len(stack) => i \in DOMAIN frames
        /\ \A i \in DOMAIN frames : i # Len(stack) => frames[i] = stack[i]
        /\ Len(stack) \in DOMAIN frames
             => frames[Len(stack)] = Call(Top.fn, pc) /\ Len(frames) = Len(stack)
    BY <1>4 DEF ResetOf
  <2>2. QED
    BY <1>1, <1>6, <2>1, ResetKept
<1>8. /\ stack' \in Seq(Frame) /\ Len(stack') = Len(frames) /\ DOMAIN stack' = DOMAIN frames
      /\ \A i \in DOMAIN stack' : stack'[i].pc = frames[i].pc
  BY <1>4, CutIs DEF ResetOf
<1>9. Slot'
  <2>1. ~bdev /\ ~sdmmcRegistered
    BY <1>1, <1>2 DEF Slot, Bringing
  <2>2. \A i \in DOMAIN stack : i # Len(stack) => stack[i].pc = "read"
    BY <1>2, <1>3, OthersRead
  <2>3. /\ DOMAIN frames \subseteq DOMAIN stack
        /\ \A i \in DOMAIN frames : i # Len(stack) => frames[i] = stack[i]
        /\ Len(stack) \in DOMAIN frames => frames[Len(stack)] = e /\ Len(frames) = Len(stack)
    BY <1>4 DEF ResetOf, e
  <2>4. \A i \in DOMAIN stack' : \/ stack'[i].pc = "read"
                                 \/ i = Len(stack') /\ stack'[i].pc = pc
    BY <1>5, <1>8, <2>2, <2>3
  <2>5. /\ "read" \notin Bringing /\ pc \notin {"registered", "unregister", "gone"}
        /\ "read" \notin {"registered", "unregister", "gone"}
    BY DEF Bringing
  <2>6. UNCHANGED <<bdev, sdmmcRegistered>>
    BY <1>1 DEF driver
  <2>7. QED
    BY <2>1, <2>4, <2>5, <2>6 DEF Slot
<1>10. TypeOK'
  <2>1. /\ card \in [in : BOOLEAN, known : BOOLEAN, wide : BOOLEAN, hs : BOOLEAN]
        /\ latch \subseteq Bits /\ DriverTypes /\ flaky \in BOOLEAN
    BY <1>2, Types DEF DriverTypes
  <2>2. /\ host' \in [wide : BOOLEAN, clock : {"off", "init", "default", "fast"}]
        /\ wire' \in [by : 0..MaxNesting, await : {"none", "response", "data"}]
        /\ pend' \subseteq Bits
    BY <1>4, ResetTypes DEF ResetOf
  <2>3. flaky' \in BOOLEAN
    BY <1>4, <2>1 DEF ResetOf
  <2>4. Len(stack') <= MaxNesting
    <3>1. Len(stack) <= MaxNesting /\ Len(stack) \in Nat /\ Len(frames) \in Nat
      BY <1>2, Types, TopIs, LenProperties
    <3>2. Len(frames) <= Len(stack)
      BY <1>4 DEF ResetOf
    <3>3. QED
      BY <1>8, <3>1, <3>2, SdCardsAssumption
  <2>5. /\ flag' \in BOOLEAN /\ irqOn' \in BOOLEAN /\ mmcDev' \in BOOLEAN /\ bdev' \in BOOLEAN
        /\ emmc' \in BOOLEAN /\ sdmmcRegistered' \in BOOLEAN /\ checkConnected' \in BOOLEAN
        /\ polling' \in BOOLEAN /\ sizeless' \in BOOLEAN
        /\ state' \in {"ready", "nohardware", "notready"}
        /\ halted' \in {"no", "handover", "left", "missing"}
        /\ card' \in [in : BOOLEAN, known : BOOLEAN, wide : BOOLEAN, hs : BOOLEAN]
        /\ latch' \subseteq Bits
    BY <1>1, <2>1 DEF DriverTypes, driver
  <2>6. QED
    BY <1>7, <1>8, <2>2, <2>3, <2>4, <2>5 DEF TypeOK, Frame
<1>11. QED
  BY <1>7, <1>9, <1>10 DEF SdInv, Going

LEMMA UnregisterKept ==
  ASSUME SdInv, Unregister
  PROVE  SdInv'
<1> DEFINE frames == Front(stack)
<1>1. /\ Running /\ Top.pc = "unregister"
      /\ bdev' = FALSE /\ mmcDev' = FALSE /\ state' = "nohardware"
      /\ halted' \in {"no", "missing"}
      /\ flaky' = (flaky \/ "CINS" \in pend)
      /\ UNCHANGED <<card, latch, flag, irqOn, list, emmc, sdmmcRegistered, checkConnected, polling,
                     sizeless>>
  BY DEF Unregister
<1>0. PICK c \in Clocks("init") : sdhc_reset(c, frames)
  BY DEF Unregister
<1>2. /\ halted = "no" /\ latch = {} /\ stack # <<>> /\ Going /\ TypeOK /\ Shaped /\ Slot
      /\ Top = stack[Len(stack)] /\ Top \in Frame /\ Len(stack) \in DOMAIN stack
      /\ stack \in Seq(Frame)
  BY <1>1, RunningIs
<1>3. Top.fn = "check"
  BY <1>1, <1>2 DEF Shaped, Frame
<1>4. /\ frames \in Seq(Frame) /\ Len(frames) = Len(stack) - 1
      /\ \A i \in DOMAIN frames : i \in DOMAIN stack /\ i # Len(stack) /\ frames[i] = stack[i]
  BY <1>2, PopTop
<1>5. \A i \in DOMAIN stack : i # Len(stack) => i \in DOMAIN frames
  BY <1>2, PopTop, TopIs
<1> HIDE DEF frames
<1>6. /\ InList' /\ Wired' /\ Orphans' /\ Evidence' /\ Removed' /\ Seen' /\ TruthfulAnswers'
      /\ Shaped' /\ list' \in Seq(DOMAIN stack')
  <2>1. DOMAIN frames \subseteq DOMAIN stack /\ Len(stack) \notin DOMAIN frames
    BY <1>4
  <2>2. QED
    BY <1>0, <1>1, <1>4, <1>5, <2>1, ResetKept
<1>7. /\ stack' \in Seq(Frame) /\ Len(stack') = Len(frames) /\ DOMAIN stack' = DOMAIN frames
      /\ \A i \in DOMAIN stack' : stack'[i].pc = frames[i].pc
  BY <1>0, <1>4, CutIs
<1>8. Slot'
  <2>1. \A i \in DOMAIN stack' : stack'[i].pc = "read"
    BY <1>2, <1>3, <1>4, <1>7, OthersRead
  <2>2. "read" \notin Bringing
    BY DEF Bringing
  <2>3. QED
    BY <1>1, <2>1, <2>2 DEF Slot
<1>9. TypeOK'
  <2>1. DriverTypes /\ card \in [in : BOOLEAN, known : BOOLEAN, wide : BOOLEAN, hs : BOOLEAN]
        /\ latch \subseteq Bits
    BY <1>2, Types DEF DriverTypes
  <2>2. /\ host' \in [wide : BOOLEAN, clock : {"off", "init", "default", "fast"}]
        /\ wire' \in [by : 0..MaxNesting, await : {"none", "response", "data"}]
        /\ pend' \subseteq Bits
    BY <1>0, ResetTypes
  <2>3. Len(stack') <= MaxNesting
    <3>1. \A m \in Nat : m <= MaxNesting => m - 1 <= MaxNesting
      BY SdCardsAssumption
    <3>2. Len(stack) <= MaxNesting /\ Len(stack) \in Nat
      BY <1>2, Types, TopIs
    <3>3. QED
      BY <1>4, <1>7, <3>1, <3>2
  <2>4. /\ flag' \in BOOLEAN /\ irqOn' \in BOOLEAN /\ mmcDev' \in BOOLEAN /\ bdev' \in BOOLEAN
        /\ emmc' \in BOOLEAN /\ sdmmcRegistered' \in BOOLEAN /\ checkConnected' \in BOOLEAN
        /\ polling' \in BOOLEAN
        /\ state' \in {"ready", "nohardware", "notready"} /\ halted' \in {"no", "handover", "left", "missing"}
        /\ card' \in [in : BOOLEAN, known : BOOLEAN, wide : BOOLEAN, hs : BOOLEAN]
        /\ latch' \subseteq Bits /\ flaky' \in BOOLEAN /\ sizeless' \in BOOLEAN
    <3>1. /\ UNCHANGED <<card, latch, flag, irqOn, emmc, sdmmcRegistered, checkConnected, polling,
                         sizeless>>
          /\ flaky' = (flaky \/ "CINS" \in pend)
          /\ bdev' = FALSE /\ mmcDev' = FALSE /\ state' = "nohardware"
          /\ halted' \in {"no", "missing"}
      BY <1>1
    <3>2. QED
      BY <2>1, <3>1 DEF DriverTypes
  <2>5. QED
    BY <1>6, <1>7, <2>2, <2>3, <2>4 DEF TypeOK, Frame
<1>10. QED
  BY <1>6, <1>8, <1>9 DEF SdInv, Going

LEMMA HandoverKept ==
  ASSUME SdInv, Handover
  PROVE  SdInv'
<1>1. TypeOK
  BY DEF SdInv
<1>2. stack' = <<>> /\ list' = <<>> /\ halted' \in {"handover", "left", "missing"}
  BY DEF Handover
<1>3. MaxNesting \in Nat
  BY SdCardsAssumption
<1>4. TruthfulAnswers' /\ Seen'
  BY <1>2 DEF TruthfulAnswers, Seen
<1>5. TypeOK'
  <2>1. stack' \in Seq(Frame) /\ list' \in Seq(DOMAIN stack') /\ Len(stack') <= MaxNesting
    BY <1>2, <1>3, EmptySeq
  <2>2. /\ wire' \in [by : 0..MaxNesting, await : {"none", "response", "data"}]
        /\ pend' \subseteq Bits
    BY <1>1, <1>3, Types DEF Handover, Idle
  <2>3. bdev' \in BOOLEAN /\ emmc' \in BOOLEAN /\ sdmmcRegistered' \in BOOLEAN /\ mmcDev' \in BOOLEAN
        /\ polling' \in BOOLEAN /\ irqOn' \in BOOLEAN
    BY <1>1, Types DEF Handover
  <2>4. state' \in {"ready", "nohardware", "notready"}
    BY <1>1, Types DEF Handover
  <2>5. /\ card' \in [in : BOOLEAN, known : BOOLEAN, wide : BOOLEAN, hs : BOOLEAN]
        /\ latch' \subseteq Bits /\ flag' \in BOOLEAN /\ checkConnected' \in BOOLEAN /\ flaky' \in BOOLEAN /\ sizeless' \in BOOLEAN
        /\ host' \in [wide : BOOLEAN, clock : {"off", "init", "default", "fast"}]
    BY <1>1, Types DEF Handover
  <2>6. QED
    BY <1>2, <2>1, <2>2, <2>3, <2>4, <2>5 DEF TypeOK, Frame
<1>6. QED
  BY <1>2, <1>4, <1>5 DEF SdInv

(***************************************************************************)
(* One call changes in what became of its command.                         *)
(***************************************************************************)
LEMMA MarkIs ==
  ASSUME TypeOK, Shaped, Slot, NEW m \in DOMAIN stack, NEW e \in Frame,
         stack' = [stack EXCEPT ![m] = e], e.fn = stack[m].fn, e.pc = stack[m].pc,
         e.pc \in Commands, Submitted(e), e.ph = "wait" => m = Len(stack),
         UNCHANGED <<bdev, sdmmcRegistered, polling>>
  PROVE  /\ stack' \in Seq(Frame) /\ Len(stack') = Len(stack) /\ DOMAIN stack' = DOMAIN stack
         /\ stack'[m] = e /\ \A i \in DOMAIN stack : i # m => stack'[i] = stack[i]
         /\ Shaped' /\ Slot'
         /\ \A i : Owner(stack, i) <=> Owner(stack', i)
<1>1. stack \in Seq(Frame)
  BY Types
<1>2. DOMAIN stack = 1..Len(stack) /\ Len(stack) \in Nat
  BY <1>1, StackIs
<1>3. /\ stack' \in Seq(Frame) /\ Len(stack') = Len(stack) /\ DOMAIN stack' = DOMAIN stack
      /\ stack'[m] = e /\ \A i \in DOMAIN stack : i # m => stack'[i] = stack[i]
  BY <1>1, <1>2, ExceptSeq
<1>4. \A i \in DOMAIN stack : stack'[i].fn = stack[i].fn /\ stack'[i].pc = stack[i].pc
  BY <1>3
<1>5. Shaped'
  <2>1. ASSUME NEW i \in DOMAIN stack'
        PROVE  /\ stack'[i].pc \notin Commands => stack'[i].ph = "start"
               /\ stack'[i].ph = "start" => stack'[i].complete = "none" /\ stack'[i].end = "none"
               /\ stack'[i].ph = "wait" => i = Len(stack')
    <3>1. CASE i = m
      BY <1>3, <3>1 DEF Submitted
    <3>2. CASE i # m
      BY <1>3, <3>2 DEF Shaped
    <3>3. QED
      BY <3>1, <3>2
  <2>2. ASSUME NEW i \in DOMAIN stack'
        PROVE  /\ stack'[i].fn = "read" <=> stack'[i].pc = "read"
               /\ stack'[i].fn = "init" => i = 1 /\ ~polling' /\ stack'[i].pc \notin {"gone", "unregister"}
               /\ stack'[i].fn = "check" => polling' /\ stack'[i].pc # "watch"
               /\ \A j \in DOMAIN stack' : stack'[i].fn = "check" /\ stack'[j].fn = "check" => i = j
    BY <1>3, <1>4 DEF Shaped
  <2>3. QED
    BY <2>1, <2>2 DEF Shaped
<1>6. Slot'
  BY <1>3, <1>4 DEF Slot
<1>7. \A i : Owner(stack, i) <=> Owner(stack', i)
  <2>1. CASE Len(stack) \in DOMAIN stack
    BY <1>3, <1>4, <2>1 DEF Owner
  <2>2. CASE Len(stack) \notin DOMAIN stack
    BY <1>2, <2>2
  <2>3. QED
    BY <2>1, <2>2
<1>8. QED
  BY <1>3, <1>5, <1>6, <1>7

\* The types after a step of the hardware or of the list.
LEMMA HardTypes ==
  ASSUME TypeOK, UNCHANGED driver, flaky' \in BOOLEAN, UNCHANGED <<irqOn, host>>,
         flag' \in BOOLEAN, pend' \subseteq Bits, latch' \subseteq Bits,
         card' \in [in : BOOLEAN, known : BOOLEAN, wide : BOOLEAN, hs : BOOLEAN],
         wire' \in [by : 0..MaxNesting, await : {"none", "response", "data"}],
         stack' \in Seq(Frame), Len(stack') = Len(stack), list' \in Seq(DOMAIN stack')
  PROVE  TypeOK'
<1>1. /\ irqOn \in BOOLEAN /\ mmcDev \in BOOLEAN /\ bdev \in BOOLEAN
      /\ emmc \in BOOLEAN /\ sdmmcRegistered \in BOOLEAN /\ checkConnected \in BOOLEAN
      /\ polling \in BOOLEAN /\ sizeless \in BOOLEAN /\ Len(stack) <= MaxNesting
      /\ state \in {"ready", "nohardware", "notready"}
      /\ halted \in {"no", "handover", "left", "missing"}
      /\ host \in [wide : BOOLEAN, clock : {"off", "init", "default", "fast"}]
  BY Types
<1>2. QED
  BY <1>1 DEF TypeOK, Frame, driver

(***************************************************************************)
(* Submitting a command, and going on to wait for it.                      *)
(***************************************************************************)
\* No bit is left of a command that is done when the running call is about
\* to submit one and nobody waits; nor may the card still answer another
\* call, if no device is registered.
LEMMA NothingOwed ==
  ASSUME SdInv, Going, stack # <<>>, stack[Len(stack)].pc \in Commands, ~Submitted(stack[Len(stack)])
  PROVE  /\ \A i \in DOMAIN stack : Submitted(stack[i]) => ~Owner(stack, i)
         /\ list = <<>> => pend \cap Ends = {}
<1> DEFINE f == stack[Len(stack)]
<1>1. f.pc \notin {"look", "reset", "gone", "unregister"}
  BY DEF Commands
<1>2. \A i \in DOMAIN stack : Submitted(stack[i]) => ~Owner(stack, i)
  BY <1>1 DEF Owner
<1>3. list = <<>> => pend \cap Ends = {}
  BY <1>2 DEF Going, Evidence
<1>4. QED
  BY <1>2, <1>3

LEMMA SubmitKept ==
  ASSUME SdInv, Submit
  PROVE  SdInv'
<1> DEFINE n == Len(stack)
           f == stack[n]
<1>1. /\ Running /\ Top.pc \in Commands /\ Top.ph = "start"
      /\ UNCHANGED <<card, latch, flag, irqOn, host, driver>>
  BY DEF Submit
<1>2. /\ halted = "no" /\ latch = {} /\ stack # <<>> /\ Going /\ TypeOK /\ Shaped /\ Slot
      /\ Top = f /\ f \in Frame /\ n \in DOMAIN stack /\ stack \in Seq(Frame)
  BY <1>1, RunningIs
<1>3. InList /\ Wired /\ Orphans /\ Evidence /\ Removed /\ Seen /\ TruthfulAnswers
  BY <1>2 DEF SdInv, Going
<1>4. n \in Nat /\ n >= 1 /\ DOMAIN stack = 1..n
  BY <1>2, TopIs
<1>5. /\ f.ph = "start" /\ f.complete = "none" /\ f.end = "none" /\ f.pc \in Commands /\ ~Submitted(f)
  BY <1>1, <1>2 DEF Shaped, Submitted
<1>6. /\ \A i \in DOMAIN stack : Submitted(stack[i]) => ~Owner(stack, i) /\ i # n
      /\ list = <<>> => pend \cap Ends = {}
  BY <1>2, <1>5, NothingOwed
<1>7. UNCHANGED <<bdev, sdmmcRegistered, polling, card, latch>>
  BY <1>1 DEF driver
<1>8. /\ list \in Seq(DOMAIN stack) /\ pend \subseteq Bits
      /\ wire \in [by : 0..MaxNesting, await : {"none", "response", "data"}]
      /\ flag \in BOOLEAN /\ flaky \in BOOLEAN /\ sizeless \in BOOLEAN /\ n <= MaxNesting
      /\ card \in [in : BOOLEAN, known : BOOLEAN, wide : BOOLEAN, hs : BOOLEAN]
  BY <1>2, Types
<1>9. MaxNesting \in Nat /\ n \in 0..MaxNesting /\ n # 0
  <2>1. MaxNesting \in Nat
    BY SdCardsAssumption
  <2>2. n <= MaxNesting
    BY <1>8
  <2> HIDE DEF n
  <2>3. QED
    BY <1>4, <2>1, <2>2
<1>10. \A i \in DOMAIN stack : i <= n /\ (i # n => i < n)
  <2> HIDE DEF n
  <2>1. QED
    BY <1>4
<1> DEFINE w == [f EXCEPT !.ph = "window"]
           b == [f EXCEPT !.ph = "wait", !.complete = "bad", !.end = "bad"]
<1>11. /\ w \in Frame /\ w.fn = f.fn /\ w.pc = f.pc /\ w.ph = "window" /\ w.complete = "none" /\ w.end = "none"
       /\ b \in Frame /\ b.fn = f.fn /\ b.pc = f.pc /\ b.ph = "wait" /\ b.complete = "bad" /\ b.end = "bad"
  <2> HIDE DEF f
  <2>1. QED
    BY <1>2, <1>5 DEF Frame
<1>12. \/ /\ list = <<>> /\ list' = <<n>> /\ UNCHANGED flaky
          /\ wire' = [by |-> n, await |-> "response"]
          /\ pend' = (pend \ {"ERR"}) \cup (IF wire.by = 0 THEN {} ELSE {"ERR"})
          /\ stack' = [stack EXCEPT ![n] = w]
       \/ /\ list = <<>> /\ list' = <<>> /\ UNCHANGED flaky
          /\ wire' = Idle /\ pend' = Quiet(pend \ {"ERR"})
          /\ stack' = [stack EXCEPT ![n] = b]
       \/ /\ list # <<>> /\ list' = Append(list, n) /\ UNCHANGED <<wire, pend, flaky>>
          /\ stack' = [stack EXCEPT ![n] = w]
  BY DEF Submit, sdhc_next_cmd, Me
<1> DEFINE e == IF stack' = [stack EXCEPT ![n] = w] THEN w ELSE b
<1>13. /\ e \in Frame /\ e.fn = f.fn /\ e.pc = f.pc /\ e.pc \in Commands /\ Submitted(e)
       /\ (e = w \/ e = b) /\ stack' = [stack EXCEPT ![n] = e]
  <2>1. e = w \/ e = b
    OBVIOUS
  <2>2. stack' = [stack EXCEPT ![n] = e]
    BY <1>12
  <2> HIDE DEF e, w, b
  <2>3. QED
    BY <1>5, <1>11, <2>1, <2>2 DEF Submitted
<1> HIDE DEF e, w, b
<1>14. /\ stack' \in Seq(Frame) /\ Len(stack') = Len(stack) /\ DOMAIN stack' = DOMAIN stack
       /\ stack'[n] = e /\ \A i \in DOMAIN stack : i # n => stack'[i] = stack[i]
       /\ Shaped' /\ Slot'
       /\ \A i : Owner(stack, i) <=> Owner(stack', i)
  BY <1>2, <1>7, <1>13, MarkIs
<1>15. stack' = [stack EXCEPT ![n] = w] => e = w
  BY DEF e
<1> HIDE DEF n, f
\* What holds in each of the three ways.
<1>16. Removed'
  <2>1. \A i \in DOMAIN stack' : stack'[i].pc = stack[i].pc /\ (stack'[i].complete = "ok" => stack[i].complete = "ok")
    <3>1. TAKE i \in DOMAIN stack'
    <3>2. CASE i = n
      BY <1>11, <1>13, <1>14, <3>2 DEF f
    <3>3. CASE i # n
      BY <1>14, <3>3
    <3>4. QED
      BY <3>2, <3>3
  <2>2. "CRM" \in pend' \cup latch' => "CRM" \in pend \cup latch
    BY <1>7, <1>12 DEF Quiet
  <2>3. QED
    BY <1>3, <1>7, <1>14, <2>1, <2>2 DEF Removed
<1>17. TruthfulAnswers'
  BY <1>3, <1>11, <1>13, <1>14 DEF TruthfulAnswers
<1>18. ASSUME wire'.by \in {0, n, wire.by}
       PROVE  Orphans'
  <2>1. SUFFICES ASSUME ~bdev', NEW i \in DOMAIN stack',
                        Submitted(stack'[i]), stack'[i].end = "none",
                        stack'[i].complete = "none" \/ wire'.by = i
                 PROVE  Owner(stack', i)
    BY DEF Orphans
  <2>2. CASE i = n
    BY <1>14, <2>2 DEF Owner, n
  <2>3. CASE i # n
    <3>1. stack'[i] = stack[i] /\ i \in DOMAIN stack /\ i # 0
      BY <1>4, <1>14, <2>1, <2>3
    <3>2. stack[i].complete = "none" \/ wire.by = i
      BY <1>18, <2>1, <2>3, <3>1
    <3>3. Owner(stack, i)
      BY <1>3, <1>7, <2>1, <3>1, <3>2 DEF Orphans
    <3>4. QED
      BY <1>6, <2>1, <3>1, <3>3
  <2>4. QED
    BY <2>2, <2>3
\* The call that begins to bring a card up is this one.
<1>19. \A i \in DOMAIN stack' : ~(stack'[i].pc \in Bringing \ {"look", "reset", "appcmd"} /\ stack'[i].ph = "start")
  <2>1. TAKE i \in DOMAIN stack'
  <2>2. CASE i = n
    BY <1>11, <1>13, <1>14, <2>2
  <2>3. CASE i # n
    BY <1>2, <1>14, <2>3 DEF Slot, n
  <2>4. QED
    BY <2>2, <2>3
<1>20. CASE /\ list = <<>> /\ list' = <<n>> /\ UNCHANGED flaky
            /\ wire' = [by |-> n, await |-> "response"]
            /\ pend' = (pend \ {"ERR"}) \cup (IF wire.by = 0 THEN {} ELSE {"ERR"})
            /\ stack' = [stack EXCEPT ![n] = w]
  <2>1. e = w /\ DOMAIN list' = {1} /\ list'[1] = n /\ list' # <<>> /\ Head(list') = n
        /\ list' \in Seq(DOMAIN stack') /\ wire'.by = n /\ wire'.await = "response"
    BY <1>2, <1>14, <1>15, <1>20
  <2>2. InList'
    <3>1. Submitted(stack'[n]) /\ stack'[n].complete = "none"
      BY <1>11, <1>13, <1>14, <2>1
    <3>2. \A j, k \in DOMAIN list' : ~(j < k)
      BY <2>1
    <3>3. \A i \in DOMAIN stack' : stack'[i].complete # "none" => n > i
      BY <1>10, <1>14, <3>1
    <3>4. QED
      BY <2>1, <3>1, <3>2, <3>3 DEF InList
  <2>3. wire.by # 0 => ~card.known \/ ~bdev
    BY <1>3, <1>20 DEF Wired
  <2>4. "ERR" \in pend' \cup latch' => wire.by # 0
    BY <1>2, <1>7, <1>20
  <2>5. Wired'
    <3>1. /\ n \in DOMAIN stack' /\ Submitted(stack'[n]) /\ stack'[n].end # "good"
          /\ stack'[n].complete = "none"
      BY <1>2, <1>11, <1>13, <1>14, <2>1
    <3>2. \A k \in DOMAIN list' : list'[k] >= n
      BY <1>4, <2>1
    <3>3. \A i \in DOMAIN stack' : stack'[i].end = "good" => n > i
      BY <1>10, <1>14, <3>1
    <3>4. ~card'.known \/ ~bdev' \/ "ERR" \notin pend' \cup latch'
      BY <1>7, <2>3, <2>4
    <3>5. QED
      BY <1>9, <1>19, <2>1, <3>1, <3>2, <3>3, <3>4 DEF Wired
  <2>6. Orphans'
    BY <1>18, <2>1
  <2>7. Evidence'
    <3>1. pend' \cap Ends = {}
      BY <1>6, <1>20 DEF Ends
    <3>2. latch' = {}
      BY <1>2, <1>7
    <3>3. \A x : ~Says(pend' \cup latch', x) /\ ~Says(latch', x)
      BY <3>1, <3>2 DEF Says, Ends
    <3>4. QED
      BY <2>1, <3>2, <3>3 DEF Evidence
  <2>8. Seen'
    <3>1. \A i \in DOMAIN stack' : ~(stack'[i].end = "good" /\ stack'[i].complete = "none")
      BY <1>3, <1>11, <1>14, <1>20, <2>1 DEF Seen
    <3>2. QED
      BY <3>1 DEF Seen
  <2>9. TypeOK'
    <3>1. pend' \subseteq Bits /\ latch' \subseteq Bits
      BY <1>2, <1>7, <1>8, <1>20 DEF Bits
    <3>2. wire' \in [by : 0..MaxNesting, await : {"none", "response", "data"}]
      BY <1>9, <1>20
    <3>3. QED
      BY <1>1, <1>2, <1>8, <1>14, <1>20, <2>1, <3>1, <3>2, HardTypes
  <2>10. QED
    BY <1>14, <1>16, <1>17, <2>2, <2>5, <2>6, <2>7, <2>8, <2>9 DEF SdInv, Going
<1>21. CASE /\ list = <<>> /\ list' = <<>> /\ UNCHANGED flaky
            /\ wire' = Idle /\ pend' = Quiet(pend \ {"ERR"})
            /\ stack' = [stack EXCEPT ![n] = b]
  <2>1. DOMAIN list' = {} /\ wire'.by = 0 /\ wire'.await = "none" /\ latch' = {}
        /\ list' \in Seq(DOMAIN stack')
    BY <1>2, <1>7, <1>21 DEF Idle
  <2>2. InList' /\ Wired' /\ Orphans'
    BY <1>18, <1>19, <2>1 DEF InList, Wired
  <2>3. Evidence'
    <3>1. (pend' \cup latch') \cap Ends = {}
      BY <1>6, <1>21, <2>1 DEF Ends, Quiet
    <3>2. QED
      BY <1>21, <3>1 DEF Evidence
  <2>4. Seen'
    <3>1. \A i \in DOMAIN stack' : ~(stack'[i].end = "good" /\ stack'[i].complete = "none")
      BY <1>3, <1>11, <1>13, <1>14, <1>21 DEF Seen
    <3>2. QED
      BY <3>1 DEF Seen
  <2>5. TypeOK'
    <3>1. pend' \subseteq Bits /\ latch' \subseteq Bits
      BY <1>8, <1>21, <2>1 DEF Quiet
    <3>2. wire' \in [by : 0..MaxNesting, await : {"none", "response", "data"}]
      BY <1>9, <1>21 DEF Idle
    <3>3. QED
      BY <1>1, <1>2, <1>8, <1>14, <1>21, <2>1, <3>1, <3>2, HardTypes
  <2>6. QED
    BY <1>14, <1>16, <1>17, <2>2, <2>3, <2>4, <2>5 DEF SdInv, Going
<1>22. CASE /\ list # <<>> /\ list' = Append(list, n) /\ UNCHANGED <<wire, pend, flaky>>
            /\ stack' = [stack EXCEPT ![n] = w]
  <2>1. e = w
    BY <1>15, <1>22
  <2> DEFINE m == Len(list)
  <2>2. /\ m \in Nat /\ m >= 1 /\ DOMAIN list = 1..m /\ 1 \in DOMAIN list /\ Head(list) = list[1]
        /\ \A k \in DOMAIN list : list[k] \in DOMAIN stack
    BY <1>8, <1>22, ListIs
  <2>3. /\ list' \in Seq(DOMAIN stack') /\ Len(list') = m + 1 /\ DOMAIN list' = 1..(m + 1)
        /\ list'[m + 1] = n /\ \A k \in DOMAIN list : list'[k] = list[k]
    <3>1. /\ Append(list, n) \in Seq(DOMAIN stack) /\ Len(Append(list, n)) = m + 1
          /\ Append(list, n)[m + 1] = n
          /\ \A k \in 1..Len(list) : Append(list, n)[k] = list[k]
      BY <1>2, <1>8, AppendProperties DEF n
    <3>2. QED
      BY <1>14, <1>22, <2>2, <3>1, LenProperties
  <2> HIDE DEF m
  <2>4. list' # <<>> /\ Head(list') = Head(list) /\ m + 1 \in DOMAIN list'
    <3>1. list' # <<>> /\ m + 1 \in DOMAIN list'
      BY <2>2, <2>3
    <3>2. Head(list') = list'[1]
      BY <2>3, <3>1, ListIs
    <3>3. QED
      BY <2>2, <2>3, <3>1, <3>2
  <2>5. \A k \in DOMAIN list' : k = m + 1 \/ (k \in DOMAIN list /\ k < m + 1)
    BY <2>2, <2>3
  <2>6. \A k \in DOMAIN list : /\ Submitted(stack[list[k]]) /\ stack[list[k]].complete = "none"
                               /\ list[k] # n /\ list[k] < n /\ stack'[list[k]] = stack[list[k]]
    <3>1. \A k \in DOMAIN list : Submitted(stack[list[k]]) /\ stack[list[k]].complete = "none"
      BY <1>3 DEF InList
    <3>2. \A k \in DOMAIN list : list[k] # n
      BY <1>5, <3>1 DEF f
    <3>3. QED
      BY <1>10, <1>14, <2>2, <3>1, <3>2
  <2>7. Submitted(stack'[n]) /\ stack'[n].complete = "none" /\ stack'[n].end = "none"
    BY <1>11, <1>13, <1>14, <2>1
  <2>8. InList'
    <3>1. \A k \in DOMAIN list' : Submitted(stack'[list'[k]]) /\ stack'[list'[k]].complete = "none"
      BY <2>3, <2>5, <2>6, <2>7
    <3>2. ASSUME NEW j \in DOMAIN list', NEW k \in DOMAIN list', j < k
          PROVE  list'[j] < list'[k]
      <4>1. j \in DOMAIN list
        <5>1. k <= m + 1
          BY <2>2, <2>3, <3>2
        <5>2. QED
          BY <2>2, <2>3, <2>5, <3>2, <5>1
      <4>2. CASE k = m + 1
        BY <2>3, <2>6, <4>1, <4>2
      <4>3. CASE k \in DOMAIN list
        BY <1>3, <2>3, <3>2, <4>1, <4>3 DEF InList
      <4>4. QED
        BY <2>5, <4>2, <4>3
    <3>3. ASSUME NEW i \in DOMAIN stack', stack'[i].complete # "none", NEW k \in DOMAIN list'
          PROVE  list'[k] > i
      <4>1. i # n /\ i < n /\ stack[i].complete # "none"
        BY <1>10, <1>14, <2>7, <3>3
      <4>2. CASE k = m + 1
        BY <2>3, <4>1, <4>2, <1>4, <1>14, <3>3
      <4>3. CASE k \in DOMAIN list
        BY <1>3, <1>14, <2>3, <3>3, <4>1, <4>3 DEF InList
      <4>4. QED
        BY <2>5, <4>2, <4>3
    <3>4. QED
      BY <3>1, <3>2, <3>3 DEF InList
  <2>9. Wired'
    <3>1. wire' = wire /\ pend' = pend /\ latch' = latch /\ card' = card /\ bdev' = bdev
      BY <1>7, <1>22
    <3>2. wire.by # 0 => wire.by # n /\ wire.by \in DOMAIN stack /\ stack'[wire.by] = stack[wire.by]
                         /\ wire.by < n
      <4>1. wire.by # 0 => wire.by \in DOMAIN stack /\ Submitted(stack[wire.by])
        BY <1>3 DEF Wired
      <4>2. QED
        BY <1>5, <1>10, <1>14, <4>1 DEF f
    <3>3. wire.by # 0 => \A k \in DOMAIN list' : list'[k] >= wire.by
      <4>1. wire.by # 0 => \A k \in DOMAIN list : list[k] >= wire.by
        BY <1>3 DEF Wired
      <4>2. wire.by # 0 => n >= wire.by
        BY <1>4, <1>8, <3>2
      <4>3. QED
        BY <2>3, <2>5, <4>1, <4>2
    <3>4. \A i \in DOMAIN stack' : stack'[i].end = "good" => wire.by = 0 \/ wire.by > i
      BY <1>3, <1>14, <2>7 DEF Wired
    <3>5. wire.by = 0 => wire.await = "none"
      BY <1>3 DEF Wired
    <3>6. wire.by # 0 =>
            /\ wire.by \in DOMAIN stack' /\ Submitted(stack'[wire.by])
            /\ wire.await # "none" /\ (wire.await = "data" => stack'[wire.by].pc \in Data)
            /\ stack'[wire.by].end # "good"
            /\ stack'[wire.by].complete = "none" => Head(list) = wire.by
            /\ stack'[wire.by].complete # "none" \/ "ERR" \in pend \cup latch => ~card.known \/ ~bdev
      BY <1>3, <1>14, <3>2 DEF Wired
    <3>7. QED
      BY <1>19, <2>4, <3>1, <3>3, <3>4, <3>5, <3>6 DEF Wired
  <2>10. Orphans'
    BY <1>18, <1>22
  <2>11. Evidence'
    <3>1. stack'[Head(list)] = stack[Head(list)]
      BY <2>2, <2>6
    <3>2. Says(pend \cup latch, stack[Head(list)]) => stack[Head(list)].end = "good"
      BY <1>3, <1>22 DEF Evidence
    <3>3. \A x : ~Says({}, x)
      BY DEF Says
    <3>4. latch' = {} /\ pend' \cup latch' = pend \cup latch
      BY <1>2, <1>7, <1>22
    <3>5. QED
      BY <2>4, <3>1, <3>2, <3>3, <3>4 DEF Evidence
  <2>12. Seen'
    <3>1. pend' \cup latch' = pend \cup latch
      BY <1>7, <1>22
    <3>2. QED
      BY <1>3, <1>14, <2>4, <2>7, <3>1 DEF Seen
  <2>13. TypeOK'
    <3>1. pend' \subseteq Bits /\ latch' \subseteq Bits
      BY <1>2, <1>7, <1>8, <1>22
    <3>2. QED
      BY <1>1, <1>2, <1>8, <1>14, <1>22, <2>3, <3>1, HardTypes
  <2>14. QED
    BY <1>14, <1>16, <1>17, <2>8, <2>9, <2>10, <2>11, <2>12, <2>13 DEF SdInv, Going
<1>23. QED
  BY <1>12, <1>20, <1>21, <1>22

LEMMA WaitKept ==
  ASSUME SdInv, Wait
  PROVE  SdInv'
<1> DEFINE n == Len(stack)
           f == stack[n]
           e == [f EXCEPT !.ph = "wait"]
<1>1. /\ Running /\ f.ph = "window" /\ stack' = [stack EXCEPT ![n] = e]
      /\ UNCHANGED <<hardware, list, driver, flaky>>
  <2>1. Running
    BY DEF Wait
  <2>2. Top = f
    BY <2>1, RunningIs
  <2>3. QED
    BY <2>1, <2>2 DEF Wait, Me
<1>2. /\ halted = "no" /\ latch = {} /\ stack # <<>> /\ Going /\ TypeOK /\ Shaped /\ Slot
      /\ Top = f /\ f \in Frame /\ n \in DOMAIN stack /\ stack \in Seq(Frame)
  BY <1>1, RunningIs
<1>3. InList /\ Wired /\ Orphans /\ Evidence /\ Removed /\ Seen /\ TruthfulAnswers
  BY <1>2 DEF SdInv, Going
<1>4. f.pc \in Commands /\ Submitted(f)
  BY <1>1, <1>2 DEF Shaped, Submitted
<1>5. /\ e \in Frame /\ e.fn = f.fn /\ e.pc = f.pc /\ Submitted(e)
      /\ e.complete = f.complete /\ e.end = f.end
  <2> HIDE DEF f
  <2>1. QED
    BY <1>2 DEF Frame, Submitted
<1> HIDE DEF e
<1>6. UNCHANGED <<bdev, sdmmcRegistered, polling, card, wire, pend, latch, list, flag, irqOn, host>>
  BY <1>1 DEF driver, hardware
<1>7. /\ stack' \in Seq(Frame) /\ Len(stack') = Len(stack) /\ DOMAIN stack' = DOMAIN stack
      /\ stack'[n] = e /\ \A i \in DOMAIN stack : i # n => stack'[i] = stack[i]
      /\ Shaped' /\ Slot'
      /\ \A i : Owner(stack, i) <=> Owner(stack', i)
  BY <1>1, <1>2, <1>4, <1>5, <1>6, MarkIs
<1> HIDE DEF n, f
<1>8. ASSUME NEW i \in DOMAIN stack
      PROVE  /\ stack'[i].pc = stack[i].pc /\ stack'[i].complete = stack[i].complete
             /\ stack'[i].end = stack[i].end /\ (Submitted(stack'[i]) <=> Submitted(stack[i]))
             /\ \A bits : Says(bits, stack'[i]) <=> Says(bits, stack[i])
  <2>1. CASE i = n
    BY <1>4, <1>5, <1>7, <2>1 DEF f, Says
  <2>2. CASE i # n
    BY <1>7, <2>2
  <2>3. QED
    BY <2>1, <2>2
<1>9. \A k \in DOMAIN list : list[k] \in DOMAIN stack
  BY <1>2, Types, ElementOfSeq, LenProperties
<1>10. list # <<>> => Head(list) \in DOMAIN stack
  BY <1>2, Types, ListIs
<1>11. InList'
  BY <1>3, <1>6, <1>7, <1>8, <1>9 DEF InList
<1>12. Wired'
  BY <1>3, <1>6, <1>7, <1>8 DEF Wired, Submitted
<1>13. Orphans'
  BY <1>3, <1>6, <1>7, <1>8 DEF Orphans
<1>14. Evidence'
  BY <1>3, <1>6, <1>7, <1>8, <1>10 DEF Evidence
<1>15. Removed'
  BY <1>3, <1>6, <1>7, <1>8 DEF Removed
<1>16. Seen' /\ TruthfulAnswers'
  BY <1>3, <1>6, <1>7, <1>8 DEF Seen, TruthfulAnswers
<1>17. TypeOK'
  <2>1. /\ flag \in BOOLEAN /\ flaky \in BOOLEAN /\ sizeless \in BOOLEAN /\ pend \subseteq Bits /\ latch \subseteq Bits
        /\ card \in [in : BOOLEAN, known : BOOLEAN, wide : BOOLEAN, hs : BOOLEAN]
        /\ wire \in [by : 0..MaxNesting, await : {"none", "response", "data"}]
        /\ list \in Seq(DOMAIN stack)
    BY <1>2, Types
  <2>2. QED
    BY <1>1, <1>2, <1>6, <1>7, <2>1, HardTypes
<1>18. QED
  BY <1>7, <1>11, <1>12, <1>13, <1>14, <1>15, <1>16, <1>17 DEF SdInv, Going

(***************************************************************************)
(* The handler reads INT_STATUS, and works on what it has read.            *)
(***************************************************************************)
LEMMA AcknowledgeKept ==
  ASSUME SdInv, Poll \/ sdmmcIRQ
  PROVE  SdInv'
<1>1. TypeOK /\ halted = "no" /\ latch = {} /\ Going
  BY DEF SdInv, Poll, sdmmcIRQ, Running, Open
<1>2. Shaped /\ Slot /\ InList /\ Wired /\ Orphans /\ Evidence /\ Removed /\ Seen /\ TruthfulAnswers
  BY <1>1 DEF SdInv, Going
<1>3. /\ UNCHANGED <<card, wire, irqOn, host, list, stack, mmcDev, bdev, emmc, sdmmcRegistered,
                     polling, state, halted, sizeless, flaky>>
      /\ pend' = {} /\ latch' = pend
      /\ flag' = flag \/ flag' = FALSE
      /\ checkConnected' = checkConnected \/ checkConnected' = TRUE
  BY DEF Poll, sdmmcIRQ, Acknowledge, driver
<1>4. pend' \cup latch' = pend \cup latch
  BY <1>1, <1>3
<1>5. Shaped' /\ Slot' /\ InList' /\ Orphans' /\ TruthfulAnswers'
  BY <1>2, <1>3 DEF Shaped, Slot, InList, Orphans, TruthfulAnswers
<1>6. Wired'
  BY <1>2, <1>3, <1>4 DEF Wired
<1>7. Evidence'
  <2>1. pend' \cap Ends = {} /\ "CRM" \notin pend'
    BY <1>3
  <2>2. QED
    BY <1>2, <1>3, <1>4, <2>1 DEF Evidence
<1>8. Removed' /\ Seen'
  BY <1>2, <1>3, <1>4 DEF Removed, Seen
<1>9. TypeOK'
  <2>1. /\ DriverTypes /\ card \in [in : BOOLEAN, known : BOOLEAN, wide : BOOLEAN, hs : BOOLEAN]
        /\ pend \subseteq Bits /\ stack \in Seq(Frame) /\ Len(stack) <= MaxNesting
        /\ list \in Seq(DOMAIN stack)
        /\ wire \in [by : 0..MaxNesting, await : {"none", "response", "data"}]
    BY <1>1, Types DEF DriverTypes
  <2>2. flag' \in BOOLEAN /\ checkConnected' \in BOOLEAN
    <3>1. flag' \in BOOLEAN
      BY <1>3, <2>1 DEF DriverTypes
    <3>2. checkConnected' \in BOOLEAN
      BY <1>3, <2>1 DEF DriverTypes
    <3>3. QED
      BY <3>1, <3>2
  <2>3. /\ card' \in [in : BOOLEAN, known : BOOLEAN, wide : BOOLEAN, hs : BOOLEAN]
        /\ pend' \subseteq Bits /\ latch' \subseteq Bits
        /\ stack' \in Seq(Frame) /\ Len(stack') <= MaxNesting /\ list' \in Seq(DOMAIN stack')
        /\ wire' \in [by : 0..MaxNesting, await : {"none", "response", "data"}]
    BY <1>3, <2>1
  <2>4. /\ irqOn' \in BOOLEAN /\ mmcDev' \in BOOLEAN /\ bdev' \in BOOLEAN
        /\ emmc' \in BOOLEAN /\ sdmmcRegistered' \in BOOLEAN
        /\ polling' \in BOOLEAN /\ flaky' \in BOOLEAN /\ sizeless' \in BOOLEAN
        /\ state' \in {"ready", "nohardware", "notready"} /\ halted' \in {"no", "handover", "left", "missing"}
        /\ host' \in [wide : BOOLEAN, clock : {"off", "init", "default", "fast"}]
    BY <1>3, <2>1 DEF DriverTypes
  <2>5. QED
    BY <2>2, <2>3, <2>4 DEF TypeOK, Frame
<1>10. QED
  BY <1>5, <1>6, <1>7, <1>8, <1>9 DEF SdInv, Going

\* The bits say nothing of the first command, and it waits on.
LEMMA NoVerdictKept ==
  ASSUME SdInv, halted = "no", latch' = {},
         list = <<>> \/ Verdict(latch, stack[Head(list)]) = "none",
         UNCHANGED <<pend, wire, list, stack>>, UNCHANGED <<card, flag, irqOn, host, driver, flaky>>
  PROVE  SdInv'
<1>1. /\ TypeOK /\ Shaped /\ Slot /\ InList /\ Wired /\ Orphans /\ Evidence /\ Removed
      /\ Seen /\ TruthfulAnswers
  BY DEF SdInv, Going
<1>2. UNCHANGED <<bdev, sdmmcRegistered, polling>>
  BY DEF driver
<1>3. pend' \cup latch' = pend
  OBVIOUS
<1>4. list # <<>> => ~Says(latch, stack[Head(list)])
  BY DEF Verdict, Says
<1>5. \A x : (Says(pend, x) => Says(pend \cup latch, x)) /\ (Says(pend \cup latch, x) => Says(pend, x) \/ Says(latch, x))
  BY DEF Says
<1>6. Shaped' /\ Slot' /\ InList' /\ Orphans' /\ TruthfulAnswers'
  BY <1>1, <1>2 DEF Shaped, Slot, InList, Orphans, TruthfulAnswers
<1>7. Wired'
  BY <1>1, <1>2, <1>3 DEF Wired
<1>8. Evidence'
  <2>1. \A x : ~Says({}, x)
    BY DEF Says
  <2>2. list # <<>> => (Says(pend, stack[Head(list)]) => stack[Head(list)].end = "good")
    BY <1>1, <1>5 DEF Evidence
  <2>3. list = <<>> /\ pend \cap Ends # {} =>
          ~bdev /\ \E n \in DOMAIN stack :
                     Owner(stack, n) /\ Submitted(stack[n]) /\ stack[n].complete = "bad"
    BY <1>1 DEF Evidence
  <2>4. QED
    BY <1>2, <1>3, <2>1, <2>2, <2>3 DEF Evidence
<1>9. Removed'
  BY <1>1, <1>2 DEF Removed
<1>10. Seen'
  BY <1>1, <1>3, <1>4, <1>5 DEF Seen
<1>11. TypeOK'
  <2>1. /\ flag \in BOOLEAN /\ flaky \in BOOLEAN /\ sizeless \in BOOLEAN /\ pend \subseteq Bits
        /\ card \in [in : BOOLEAN, known : BOOLEAN, wide : BOOLEAN, hs : BOOLEAN]
        /\ wire \in [by : 0..MaxNesting, await : {"none", "response", "data"}]
        /\ list \in Seq(DOMAIN stack) /\ stack \in Seq(Frame)
    BY <1>1, Types
  <2>2. QED
    BY <1>1, <2>1, HardTypes
<1>12. QED
  BY <1>6, <1>7, <1>8, <1>9, <1>10, <1>11 DEF SdInv, Going

\* The first command is over: it succeeded, and the card has done it, or
\* the bits tell of an error.  The next one, if there is one, is put on
\* the wire, or is not.
LEMMA VerdictKept ==
  ASSUME SdInv, halted = "no", latch' = {}, list # <<>>,
         NEW v \in {"ok", "bad"}, v = Verdict(latch, stack[Head(list)]),
         stack' = [stack EXCEPT ![Head(list)].complete = v], list' = Tail(list),
         \/ Len(list) = 1 /\ UNCHANGED <<pend, wire>>
         \/ /\ Len(list) > 1 /\ wire' = [by |-> list[2], await |-> "response"]
            /\ pend' = (pend \ {"ERR"}) \cup (IF wire.by = 0 THEN {} ELSE {"ERR"})
         \/ /\ Len(list) > 1 /\ wire' = Idle /\ pend' = Quiet(pend \ {"ERR"}),
         UNCHANGED <<card, flag, irqOn, host, driver, flaky>>
  PROVE  SdInv'
<1> DEFINE h == Head(list)
           f == stack[h]
           e == [f EXCEPT !.complete = v]
           l == Len(list)
<1>1. /\ TypeOK /\ Shaped /\ Slot /\ InList /\ Wired /\ Orphans /\ Evidence /\ Removed
      /\ Seen /\ TruthfulAnswers
  BY DEF SdInv, Going
<1>2. UNCHANGED <<bdev, sdmmcRegistered, polling>>
  BY DEF driver
<1>3. /\ stack \in Seq(Frame) /\ list \in Seq(DOMAIN stack) /\ pend \subseteq Bits
      /\ wire \in [by : 0..MaxNesting, await : {"none", "response", "data"}]
      /\ flag \in BOOLEAN /\ flaky \in BOOLEAN /\ sizeless \in BOOLEAN /\ Len(stack) <= MaxNesting
      /\ card \in [in : BOOLEAN, known : BOOLEAN, wide : BOOLEAN, hs : BOOLEAN]
  BY <1>1, Types
<1>4. /\ l \in Nat /\ l >= 1 /\ DOMAIN list = 1..l /\ 1 \in DOMAIN list /\ h = list[1]
      /\ h \in DOMAIN stack /\ \A k \in DOMAIN list : list[k] \in DOMAIN stack
  BY <1>3, ListIs
<1>5. f.complete = "none" /\ Submitted(f) /\ f \in Frame /\ f.pc \in Commands
  <2>1. f.complete = "none" /\ Submitted(f)
    BY <1>1, <1>4 DEF InList
  <2>2. f \in Frame
    BY <1>3, <1>4, StackIs
  <2>3. f.pc \in Commands
    BY <1>1, <1>4, <2>1 DEF Shaped, Submitted
  <2>4. QED
    BY <2>1, <2>2, <2>3
<1>6. v = "ok" => Says(latch, f)
  BY <1>5 DEF Verdict, Says
<1>7. v = "bad" => ~Says(latch, f) /\ latch \cap {"ERR", "CRM"} # {}
  <2>1. Says(latch, f) => v = "ok"
    BY DEF Verdict, Says
  <2>2. latch \cap {"ERR", "CRM"} = {} => v # "bad"
    BY <1>5 DEF Verdict
  <2>3. QED
    BY <2>1, <2>2
<1>8. /\ e \in Frame /\ e.fn = f.fn /\ e.pc = f.pc /\ e.ph = f.ph /\ Submitted(e)
      /\ e.complete = v /\ e.end = f.end
  <2> HIDE DEF f
  <2>1. QED
    BY <1>5 DEF Frame, Submitted
<1>9. stack' = [stack EXCEPT ![h] = e] /\ UNCHANGED <<bdev, sdmmcRegistered, polling>>
  BY <1>2
<1> HIDE DEF e
<1>10. /\ stack' \in Seq(Frame) /\ Len(stack') = Len(stack) /\ DOMAIN stack' = DOMAIN stack
       /\ stack'[h] = e /\ \A i \in DOMAIN stack : i # h => stack'[i] = stack[i]
       /\ Shaped' /\ Slot'
       /\ \A i : Owner(stack, i) <=> Owner(stack', i)
  <2>1. e.ph = "wait" => h = Len(stack)
    <3>1. \A i \in DOMAIN stack : stack[i].ph = "wait" => i = Len(stack)
      BY <1>1 DEF Shaped
    <3>2. h \in DOMAIN stack /\ e.ph = stack[h].ph
      BY <1>4, <1>8
    <3> HIDE DEF h, f
    <3>3. QED
      BY <3>1, <3>2
  <2>2. e.pc \in Commands /\ e.fn = stack[h].fn /\ e.pc = stack[h].pc
    BY <1>5, <1>8
  <2> HIDE DEF h, f
  <2>3. QED
    BY <1>1, <1>4, <1>8, <1>9, <2>1, <2>2, MarkIs
<1>11. /\ Tail(list) \in Seq(DOMAIN stack) /\ Len(list') = l - 1 /\ DOMAIN list' = 1..(l - 1)
       /\ \A k \in DOMAIN list' : list'[k] = list[k + 1]
  BY <1>3, HeadTailProperties, LenProperties
<1>12. \A k \in DOMAIN list' : k + 1 \in DOMAIN list /\ 1 < k + 1 /\ k \in Nat
  BY <1>4, <1>11
<1>13. l = 1 <=> list' = <<>>
  <2>1. list' \in Seq(DOMAIN stack)
    BY <1>11
  <2>2. Len(list') = 0 <=> list' = <<>>
    BY <2>1, EmptySeq
  <2>3. Len(list') = 0 <=> l = 1
    <3>1. \A a \in Nat : a - 1 = 0 <=> a = 1
      OBVIOUS
    <3>2. Len(list') = l - 1 /\ l \in Nat
      BY <1>4, <1>11
    <3> HIDE DEF l
    <3>3. QED
      BY <3>1, <3>2
  <2>4. QED
    BY <2>2, <2>3
<1>14. l > 1 => /\ 2 \in DOMAIN list /\ 1 \in DOMAIN list' /\ list' # <<>> /\ Head(list') = list[2]
                /\ list[2] \in DOMAIN stack /\ list[2] > h /\ stack'[list[2]] = stack[list[2]]
                /\ Submitted(stack[list[2]]) /\ stack[list[2]].complete = "none"
                /\ stack[list[2]].end # "good" /\ list[2] # 0
  <2>1. SUFFICES ASSUME l > 1
                 PROVE  /\ 2 \in DOMAIN list /\ 1 \in DOMAIN list' /\ list' # <<>> /\ Head(list') = list[2]
                        /\ list[2] \in DOMAIN stack /\ list[2] > h /\ stack'[list[2]] = stack[list[2]]
                        /\ Submitted(stack[list[2]]) /\ stack[list[2]].complete = "none"
                        /\ stack[list[2]].end # "good" /\ list[2] # 0
    OBVIOUS
  <2>2. 2 \in DOMAIN list /\ 1 \in DOMAIN list' /\ list' # <<>>
    BY <1>4, <1>11, <1>13, <2>1
  <2>3. list[2] \in DOMAIN stack /\ list[1] < list[2]
    BY <1>1, <1>4, <2>2 DEF InList
  <2>4. Head(list') = list'[1] /\ list'[1] = list[1 + 1]
    BY <1>11, <2>2, ListIs
  <2>5. DOMAIN stack = 1..Len(stack) /\ Len(stack) \in Nat
    BY <1>3, StackIs
  <2>6. list[2] > h /\ list[2] # h /\ list[2] # 0
    BY <1>4, <2>3, <2>5
  <2>7. Submitted(stack[list[2]]) /\ stack[list[2]].complete = "none"
    BY <1>1, <2>2 DEF InList
  <2>8. stack[list[2]].end # "good"
    BY <1>1, <2>3, <2>6, <2>7 DEF Seen
  <2>9. QED
    BY <1>10, <2>2, <2>3, <2>4, <2>6, <2>7, <2>8
<1>15. list' \in Seq(DOMAIN stack')
  BY <1>10, <1>11
<1>16. pend' \subseteq pend \cup {"ERR"}
  BY DEF Quiet
<1> HIDE DEF h, f, l
\* What is known of the other calls of the list.
<1>17. ASSUME NEW k \in DOMAIN list'
       PROVE  /\ list'[k] \in DOMAIN stack /\ list'[k] > h /\ stack'[list'[k]] = stack[list'[k]]
              /\ Submitted(stack[list'[k]]) /\ stack[list'[k]].complete = "none"
  <2>1. list'[k] = list[k + 1] /\ k + 1 \in DOMAIN list
    BY <1>11, <1>12
  <2>2. list[1] < list[k + 1]
    BY <1>1, <1>4, <1>12 DEF InList
  <2>3. list'[k] \in DOMAIN stack /\ list'[k] > h /\ list'[k] # h
    <3>1. \A a, b \in DOMAIN stack : a < b => b > a /\ b # a
      BY <1>3, StackIs
    <3>2. QED
      BY <1>4, <2>1, <2>2, <3>1
  <2>4. Submitted(stack[list[k + 1]]) /\ stack[list[k + 1]].complete = "none"
    BY <1>1, <2>1 DEF InList
  <2>5. QED
    BY <1>10, <2>1, <2>3, <2>4
\* The card is gone, or no device is registered, when an error is reported
\* while the command is still on the wire.
<1>18. wire.by # 0 => /\ stack'[wire.by].complete # "none"
                      /\ ~card.known \/ ~bdev
                      /\ wire.by \in DOMAIN stack
  <2>1. SUFFICES ASSUME wire.by # 0
                 PROVE  /\ stack'[wire.by].complete # "none"
                        /\ ~card.known \/ ~bdev
                        /\ wire.by \in DOMAIN stack
    OBVIOUS
  <2>2. /\ wire.by \in DOMAIN stack /\ stack[wire.by].end # "good"
        /\ stack[wire.by].complete = "none" => wire.by = h
        /\ stack[wire.by].complete # "none" \/ "ERR" \in pend \cup latch => ~card.known \/ ~bdev
    BY <1>1, <2>1 DEF Wired, h
  <2>3. CASE wire.by # h
    BY <1>10, <2>2, <2>3
  <2>4. CASE wire.by = h
    <3>1. v = "bad"
      <4>1. SUFFICES ASSUME Says(latch, f) PROVE FALSE
        BY <1>6
      <4>2. Says(pend \cup latch, f)
        BY <4>1 DEF Says
      <4>3. QED
        BY <1>1, <2>2, <2>4, <4>2 DEF Evidence, f, h
    <3>2. ~card.known \/ ~bdev
      <4>1. "ERR" \in latch \/ "CRM" \in latch
        BY <1>7, <3>1
      <4>2. QED
        BY <1>1, <2>2, <4>1 DEF Removed
    <3>3. QED
      BY <1>8, <1>10, <2>2, <2>4, <3>1, <3>2
  <2>5. QED
    BY <2>3, <2>4
<1>19. ASSUME NEW i \in DOMAIN stack
       PROVE  /\ stack'[i].pc = stack[i].pc /\ stack'[i].end = stack[i].end /\ stack'[i].ph = stack[i].ph
              /\ (stack'[i].complete = "none" => stack[i].complete = "none" /\ i # h)
              /\ (stack'[i].complete # "none" => i = h \/ stack[i].complete # "none")
  <2>1. CASE i = h
    BY <1>8, <1>10, <2>1 DEF f
  <2>2. CASE i # h
    BY <1>10, <2>2
  <2>3. QED
    BY <2>1, <2>2
<1>20. InList'
  <2>1. ASSUME NEW i \in DOMAIN stack', stack'[i].complete # "none", NEW k \in DOMAIN list'
        PROVE  list'[k] > i
    <3>1. CASE i = h
      BY <1>17, <3>1
    <3>2. CASE stack[i].complete # "none"
      BY <1>1, <1>10, <1>11, <1>12, <2>1, <3>2 DEF InList
    <3>3. QED
      BY <1>10, <1>19, <2>1, <3>1, <3>2
  <2>2. ASSUME NEW j \in DOMAIN list', NEW k \in DOMAIN list', j < k
        PROVE  list'[j] < list'[k]
    <3>1. j + 1 \in DOMAIN list /\ k + 1 \in DOMAIN list /\ j + 1 < k + 1
      BY <1>12, <2>2
    <3>2. QED
      BY <1>1, <1>11, <3>1 DEF InList
  <2>3. QED
    BY <1>17, <2>1, <2>2 DEF InList
<1>21. TruthfulAnswers'
  <2>1. v = "ok" => f.end = "good"
    <3>1. Says(latch, f) => Says(pend \cup latch, f)
      BY DEF Says
    <3>2. QED
      BY <1>1, <1>6, <3>1 DEF Evidence, f, h
  <2>2. ASSUME NEW i \in DOMAIN stack', stack'[i].complete = "ok"
        PROVE  stack'[i].end = "good"
    <3>1. CASE i = h
      BY <1>8, <1>10, <2>1, <2>2, <3>1
    <3>2. CASE i # h
      BY <1>1, <1>10, <2>2, <3>2 DEF TruthfulAnswers
    <3>3. QED
      BY <3>1, <3>2
  <2>3. QED
    BY <2>2 DEF TruthfulAnswers
<1>22. Seen'
  <2>1. \A i \in DOMAIN stack' : ~(stack'[i].end = "good" /\ stack'[i].complete = "none")
    BY <1>1, <1>10, <1>19 DEF Seen, h
  <2>2. QED
    BY <2>1 DEF Seen
<1>23. Removed'
  <2>1. SUFFICES ASSUME "CRM" \in pend' \cup latch', card'.known
                 PROVE  /\ ~bdev'
                        /\ \A i \in DOMAIN stack' :
                             stack'[i].pc \notin After /\ ~(stack'[i].pc = "identify" /\ stack'[i].complete = "ok")
    BY DEF Removed
  <2>2. "CRM" \in pend /\ card.known
    BY <1>16, <2>1
  <2>3. /\ ~bdev
        /\ \A i \in DOMAIN stack :
             stack[i].pc \notin After /\ ~(stack[i].pc = "identify" /\ stack[i].complete = "ok")
    BY <1>1, <2>2 DEF Removed
  <2>4. v # "ok"
    BY <1>1, <1>6, <2>2 DEF Evidence, f, h
  <2>5. \A i \in DOMAIN stack' : stack'[i].complete = "ok" => stack[i].complete = "ok"
    BY <1>8, <1>10, <2>4
  <2>6. QED
    BY <1>2, <1>10, <1>19, <2>3, <2>5
<1>24. l > 1 => pend' \cap Ends = {}
  <2>1. l > 1 => pend \cap Ends = {}
    <3>1. CASE v = "ok"
      BY <1>1, <1>6, <3>1 DEF Evidence, f, h
    <3>2. CASE v = "bad"
      <4>1. pend \cap Ends # {} => Len(list) = 1
        BY <1>1, <1>7, <3>2 DEF Evidence, f, h
      <4>2. l > 1 => l # 1
        BY <1>4
      <4>3. QED
        BY <4>1, <4>2 DEF l
    <3>3. QED
      BY <3>1, <3>2
  <2>2. "ERR" \notin Ends
    BY DEF Ends
  <2>3. QED
    BY <1>16, <2>1, <2>2
<1>25. Evidence'
  <2>1. \A x : ~Says(latch', x)
    BY DEF Says
  <2>2. list' # <<>> => ~Says(pend' \cup latch', stack'[Head(list')])
    <3>1. list' # <<>> => l > 1
      BY <1>4, <1>13
    <3>2. QED
      BY <1>24, <3>1 DEF Says, Ends
  <2>3. ASSUME list' = <<>>, (pend' \cup latch') \cap Ends # {}
        PROVE  /\ ~bdev'
               /\ \E n \in DOMAIN stack' :
                    Owner(stack', n) /\ Submitted(stack'[n]) /\ stack'[n].complete = "bad"
    <3>1. l = 1 /\ pend' = pend /\ pend \cap Ends # {}
      <4>1. l = 1
        BY <1>13, <2>3
      <4>2. QED
        BY <2>3, <4>1 DEF l
    <3>2. v = "bad"
      BY <1>1, <1>6, <3>1 DEF Evidence, f, h
    <3>3. ~bdev /\ Owner(stack, h)
      BY <1>1, <1>7, <3>1, <3>2 DEF Evidence, f, h
    <3>4. QED
      BY <1>2, <1>4, <1>8, <1>10, <3>2, <3>3
  <2>4. latch' = {}
    OBVIOUS
  <2>5. QED
    BY <2>1, <2>2, <2>3, <2>4 DEF Evidence
<1>26. Orphans'
  <2>1. SUFFICES ASSUME ~bdev', NEW i \in DOMAIN stack',
                        Submitted(stack'[i]), stack'[i].end = "none",
                        stack'[i].complete = "none" \/ wire'.by = i
                 PROVE  Owner(stack, i)
    BY <1>10 DEF Orphans
  <2>2. i \in DOMAIN stack /\ Submitted(stack[i]) /\ stack[i].end = "none" /\ ~bdev /\ i # 0
    <3>1. i # 0
      BY <1>3, <1>10, StackIs
    <3>2. QED
      BY <1>2, <1>10, <1>19, <2>1, <3>1 DEF Submitted
  <2>3. stack[i].complete = "none" \/ wire.by = i
    <3>1. CASE stack'[i].complete = "none"
      BY <1>19, <2>2, <3>1
    <3>2. CASE wire'.by = i
      <4>1. wire'.by \in {wire.by, 0} \/ (l > 1 /\ wire'.by = list[2])
        BY DEF Idle, l
      <4>2. QED
        BY <1>14, <2>2, <3>2, <4>1
    <3>3. QED
      BY <2>1, <3>1, <3>2
  <2>4. QED
    BY <1>1, <2>2, <2>3 DEF Orphans
<1>27. Wired'
  <2>1. ASSUME NEW i \in DOMAIN stack'
        PROVE  ~(stack'[i].pc \in Bringing \ {"look", "reset", "appcmd"} /\ stack'[i].ph = "start")
    BY <1>1, <1>10, <1>19 DEF Wired
  <2>2. CASE l = 1 /\ UNCHANGED <<pend, wire>>
    <3>1. list' = <<>> /\ DOMAIN list' = {}
      BY <1>13, <2>2
    <3>2. wire.by = 0 => wire.await = "none"
      BY <1>1 DEF Wired
    <3>3. ASSUME wire.by # 0
          PROVE  /\ wire.by \in DOMAIN stack' /\ Submitted(stack'[wire.by])
                 /\ wire.await # "none" /\ (wire.await = "data" => stack'[wire.by].pc \in Data)
                 /\ stack'[wire.by].end # "good"
                 /\ stack'[wire.by].complete # "none"
                 /\ ~card.known \/ ~bdev
      BY <1>1, <1>10, <1>18, <1>19, <3>3 DEF Wired, Submitted
    <3>4. \A i \in DOMAIN stack' : stack'[i].end = "good" => wire.by = 0 \/ wire.by > i
      BY <1>1, <1>10, <1>19 DEF Wired
    <3>5. QED
      BY <1>2, <2>1, <2>2, <3>1, <3>2, <3>3, <3>4 DEF Wired
  <2>3. CASE /\ l > 1 /\ wire' = [by |-> list[2], await |-> "response"]
             /\ pend' = (pend \ {"ERR"}) \cup (IF wire.by = 0 THEN {} ELSE {"ERR"})
    <3> DEFINE m == list[2]
    <3>1. wire'.by = m /\ wire'.await = "response" /\ m # 0 /\ m \in DOMAIN stack'
          /\ Submitted(stack'[m]) /\ stack'[m].complete = "none" /\ stack'[m].end # "good"
          /\ list' # <<>> /\ Head(list') = m
      BY <1>10, <1>14, <2>3
    <3>2. "ERR" \in pend' \cup latch' => ~card'.known \/ ~bdev'
      BY <1>2, <1>18, <2>3
    <3>3. \A k \in DOMAIN list' : list'[k] >= m
      <4>1. TAKE k \in DOMAIN list'
      <4>2. 1 \in DOMAIN list' /\ list'[1] = m
        BY <1>11, <1>14, <2>3
      <4>3. 1 < k => list'[1] < list'[k]
        BY <1>20, <4>2 DEF InList
      <4>4. k = 1 \/ 1 < k
        BY <1>11, <1>4, <1>12
      <4>5. \A a, b \in DOMAIN stack : a < b => b >= a
        BY <1>3, StackIs
      <4>6. m >= m
        BY <1>3, <1>14, <2>3, StackIs
      <4>7. QED
        BY <1>14, <1>17, <2>3, <4>2, <4>3, <4>4, <4>5, <4>6
    <3>4. ASSUME NEW i \in DOMAIN stack', stack'[i].end = "good"
          PROVE  m > i
      <4>1. i \in DOMAIN stack /\ stack[i].end = "good"
        BY <1>10, <1>19, <3>4
      <4>2. CASE stack[i].complete = "none"
        BY <1>1, <1>14, <2>3, <4>1, <4>2 DEF Seen, h
      <4>3. CASE stack[i].complete # "none"
        BY <1>1, <1>14, <2>3, <4>1, <4>3 DEF InList
      <4>4. QED
        BY <4>2, <4>3
    <3> HIDE DEF m
    <3>5. QED
      BY <2>1, <3>1, <3>2, <3>3, <3>4 DEF Wired
  <2>4. CASE l > 1 /\ wire' = Idle
    <3>1. wire'.by = 0 /\ wire'.await = "none"
      BY <2>4 DEF Idle
    <3>2. QED
      BY <2>1, <3>1 DEF Wired
  <2>5. QED
    BY <2>2, <2>3, <2>4 DEF l
<1>28. TypeOK'
  <2>1. pend' \subseteq Bits /\ latch' \subseteq Bits
    BY <1>3, <1>16 DEF Bits
  <2>2. wire' \in [by : 0..MaxNesting, await : {"none", "response", "data"}]
    <3>1. MaxNesting \in Nat
      BY SdCardsAssumption
    <3>2. l > 1 => list[2] \in 0..MaxNesting
      <4>1. \A i \in DOMAIN stack : i \in 0..MaxNesting
        <5>1. DOMAIN stack = 1..Len(stack) /\ Len(stack) \in Nat /\ Len(stack) <= MaxNesting
          BY <1>3, StackIs
        <5>2. QED
          BY <3>1, <5>1
      <4>2. QED
        BY <1>14, <4>1
    <3>3. QED
      BY <1>3, <3>1, <3>2 DEF Idle, l
  <2>3. QED
    BY <1>1, <1>3, <1>10, <1>15, <2>1, <2>2, HardTypes
<1>29. QED
  BY <1>10, <1>20, <1>21, <1>22, <1>23, <1>25, <1>26, <1>27, <1>28 DEF SdInv, Going

LEMMA ProcessKept ==
  ASSUME SdInv, Process
  PROVE  SdInv'
<1> DEFINE f == stack[Head(list)]
           v == Verdict(latch, f)
<1>1. /\ halted = "no" /\ latch' = {} /\ Work({}) /\ UNCHANGED <<card, flag, irqOn, host, driver, flaky>>
  BY DEF Process
<1>2. pend \ {} = pend
  OBVIOUS
<1>3. CASE list = <<>> \/ v = "none"
  <2>1. UNCHANGED <<pend, wire, list, stack>>
    BY <1>1, <1>2, <1>3 DEF Work
  <2>2. QED
    BY <1>1, <1>3, <2>1, NoVerdictKept
<1>4. CASE list # <<>> /\ v # "none"
  <2>1. /\ stack' = [stack EXCEPT ![Head(list)].complete = v] /\ list' = Tail(list)
        /\ \/ Len(list) = 1 /\ UNCHANGED <<pend, wire>>
           \/ Len(list) > 1 /\ \E ok \in BOOLEAN : sdhc_next_cmd(list[2], pend, ok)
    BY <1>1, <1>2, <1>4 DEF Work
  <2>2. \/ Len(list) = 1 /\ UNCHANGED <<pend, wire>>
        \/ /\ Len(list) > 1 /\ wire' = [by |-> list[2], await |-> "response"]
           /\ pend' = (pend \ {"ERR"}) \cup (IF wire.by = 0 THEN {} ELSE {"ERR"})
        \/ /\ Len(list) > 1 /\ wire' = Idle /\ pend' = Quiet(pend \ {"ERR"})
    BY <2>1 DEF sdhc_next_cmd
  <2>3. v \in {"ok", "bad"}
    <3>1. f.complete \in {"none", "ok", "bad"}
      <4>1. stack \in Seq(Frame) /\ list \in Seq(DOMAIN stack)
        BY Types DEF SdInv
      <4>2. Head(list) \in DOMAIN stack
        BY <1>4, <4>1, ListIs
      <4>3. f \in Frame
        BY <4>1, <4>2, StackIs
      <4>4. QED
        BY <4>3 DEF Frame
    <3>2. QED
      BY <1>4, <3>1 DEF Verdict
  <2> HIDE DEF v
  <2>4. QED
    BY <1>1, <1>4, <2>1, <2>2, <2>3, VerdictKept DEF v
<1>5. QED
  BY <1>3, <1>4

(***************************************************************************)
(* The card and the controller.                                            *)
(***************************************************************************)
\* The call n whose command is on the wire, and what may become of it.
LEMMA WireIs ==
  ASSUME SdInv, Going, wire.by # 0
  PROVE  LET n == wire.by IN
         /\ n \in DOMAIN stack /\ stack[n] \in Frame /\ Submitted(stack[n]) /\ stack[n].pc \in Commands
         /\ stack[n].end # "good" /\ stack[n].complete # "ok"
         /\ stack[n].ph = "wait" => n = Len(stack)
         /\ \A end \in {"good", "bad"} :
              /\ [stack[n] EXCEPT !.end = end] \in Frame
              /\ [stack[n] EXCEPT !.end = end].fn = stack[n].fn
              /\ [stack[n] EXCEPT !.end = end].pc = stack[n].pc
              /\ [stack[n] EXCEPT !.end = end].ph = stack[n].ph
              /\ [stack[n] EXCEPT !.end = end].complete = stack[n].complete
              /\ [stack[n] EXCEPT !.end = end].end = end
<1> DEFINE n == wire.by
           f == stack[n]
<1>1. TypeOK /\ Wired /\ Shaped /\ TruthfulAnswers
  BY DEF SdInv, Going
<1>2. n \in DOMAIN stack /\ Submitted(f) /\ f.end # "good"
  BY <1>1 DEF Wired
<1>3. f \in Frame
  BY <1>1, <1>2, Types, StackIs
<1>4. f.pc \in Commands /\ (f.ph = "wait" => n = Len(stack))
  BY <1>1, <1>2 DEF Shaped, Submitted
<1>5. f.complete # "ok"
  BY <1>1, <1>2 DEF TruthfulAnswers
<1> HIDE DEF f
<1>6. \A end \in {"good", "bad"} :
        /\ [f EXCEPT !.end = end] \in Frame
        /\ [f EXCEPT !.end = end].fn = f.fn /\ [f EXCEPT !.end = end].pc = f.pc
        /\ [f EXCEPT !.end = end].ph = f.ph /\ [f EXCEPT !.end = end].complete = f.complete
        /\ [f EXCEPT !.end = end].end = end
  BY <1>3 DEF Frame
<1>7. QED
  BY <1>2, <1>3, <1>4, <1>5, <1>6 DEF f

\* When the card still answers it, its call is the first of the list, or it
\* was given up; then nobody waits, and no device is registered.
LEMMA AnswersTo ==
  ASSUME SdInv, Going, wire.by # 0, Answers
  PROVE  LET n == wire.by IN
         /\ stack[n].end = "none" /\ card.in
         /\ ~card.known => ~bdev
         /\ ~bdev => Owner(stack, n) /\ (list # <<>> => Len(list) = 1)
         /\ \/ list # <<>> /\ Head(list) = n /\ stack[n].complete = "none"
            \/ list = <<>> /\ stack[n].complete = "bad" /\ ~bdev
<1> DEFINE n == wire.by
           f == stack[n]
<1>1. TypeOK /\ Wired /\ Orphans /\ Shaped /\ Slot /\ InList
  BY DEF SdInv, Going
<1>2. /\ n \in DOMAIN stack /\ f \in Frame /\ Submitted(f) /\ f.complete # "ok"
  BY WireIs
<1>3. f.end = "none" /\ card.in /\ (f.pc \in {"appcmd", "opcond", "identify"} \/ card.known)
  BY DEF Answers
<1>4. ~card.known => ~bdev
  <2>1. SUFFICES ASSUME ~card.known PROVE ~bdev
    OBVIOUS
  <2>2. f.pc \in Bringing
    BY <1>3, <2>1 DEF Bringing, Commands
  <2>3. QED
    BY <1>1, <1>2, <2>2 DEF Slot
<1>5. ~bdev => Owner(stack, n)
  BY <1>1, <1>2, <1>3 DEF Orphans
<1>6. /\ stack \in Seq(Frame) /\ list \in Seq(DOMAIN stack)
      /\ DOMAIN stack = 1..Len(stack) /\ Len(stack) \in Nat
  BY <1>1, Types, StackIs
\* Whoever is above it waits for nothing.
<1>7. ~bdev => \A i \in DOMAIN stack : i > n => ~Submitted(stack[i])
  <2>1. SUFFICES ASSUME ~bdev, NEW i \in DOMAIN stack, i > n PROVE ~Submitted(stack[i])
    OBVIOUS
  <2>2. i = Len(stack) /\ n # Len(stack)
    BY <1>2, <1>5, <1>6, <2>1 DEF Owner
  <2>3. stack[i].pc \in {"look", "reset", "gone", "unregister"}
    BY <1>5, <2>1, <2>2 DEF Owner
  <2>4. QED
    BY <1>1, <2>3 DEF Shaped, Submitted, Commands
<1>8. \A k \in DOMAIN list : list[k] \in DOMAIN stack /\ Submitted(stack[list[k]]) /\ list[k] >= n
                             /\ stack[list[k]].complete = "none"
  BY <1>1, <1>6, ElementOfSeq, LenProperties DEF InList, Wired
<1>9. ~bdev => \A k \in DOMAIN list : list[k] = n
  <2>1. ~bdev => \A k \in DOMAIN list : ~(list[k] > n)
    BY <1>7, <1>8
  <2>2. \A a \in DOMAIN stack : a >= n => a > n \/ a = n
    BY <1>2, <1>6
  <2>3. QED
    BY <1>8, <2>1, <2>2
<1>10. ~bdev /\ list # <<>> => Len(list) = 1 /\ Head(list) = n /\ f.complete = "none"
  <2>1. SUFFICES ASSUME ~bdev, list # <<>> PROVE Len(list) = 1 /\ Head(list) = n /\ f.complete = "none"
    OBVIOUS
  <2>2. /\ Len(list) \in Nat /\ Len(list) >= 1 /\ DOMAIN list = 1..Len(list) /\ 1 \in DOMAIN list
        /\ Head(list) = list[1]
    BY <1>6, <2>1, ListIs
  <2>3. Len(list) > 1 => FALSE
    <3>1. SUFFICES ASSUME Len(list) > 1 PROVE FALSE
      OBVIOUS
    <3>2. 2 \in DOMAIN list
      BY <2>2, <3>1
    <3>3. list[1] < list[2]
      BY <1>1, <2>2, <3>2 DEF InList
    <3>4. list[1] = n /\ list[2] = n
      BY <1>9, <2>1, <2>2, <3>2
    <3>5. QED
      BY <1>2, <1>6, <3>3, <3>4
  <2>4. Head(list) = n
    BY <1>9, <2>1, <2>2
  <2>5. f.complete = "none"
    BY <1>8, <2>2, <2>4
  <2>6. QED
    BY <2>2, <2>3, <2>4, <2>5
<1>11. f.complete = "none" => list # <<>> /\ Head(list) = n
  BY <1>1 DEF Wired
<1>12. f.complete # "none" => f.complete = "bad" /\ ~bdev /\ list = <<>>
  <2>1. SUFFICES ASSUME f.complete # "none" PROVE f.complete = "bad" /\ ~bdev /\ list = <<>>
    OBVIOUS
  <2>2. f.complete = "bad"
    BY <1>2, <2>1 DEF Frame
  <2>3. ~card.known \/ ~bdev
    BY <1>1, <2>1 DEF Wired
  <2>4. QED
    BY <1>4, <1>10, <2>1, <2>2, <2>3
<1>13. QED
  BY <1>3, <1>4, <1>5, <1>10, <1>11, <1>12

\* The call on the wire is told how its command ended, the wire becomes
\* free or stays, and bits are added.
LEMMA EndedIs ==
  ASSUME SdInv, halted = "no", wire.by # 0, NEW end \in {"good", "bad"},
         stack' = [stack EXCEPT ![wire.by].end = end],
         UNCHANGED <<latch, irqOn, host, list, driver, flaky>>
  PROVE  LET n == wire.by IN
         /\ stack' \in Seq(Frame) /\ Len(stack') = Len(stack) /\ DOMAIN stack' = DOMAIN stack
         /\ \A i \in DOMAIN stack : i # n => stack'[i] = stack[i]
         /\ \A i \in DOMAIN stack :
              /\ stack'[i].pc = stack[i].pc /\ stack'[i].complete = stack[i].complete
              /\ stack'[i].ph = stack[i].ph
              /\ (Submitted(stack'[i]) <=> Submitted(stack[i]))
              /\ \A bits : Says(bits, stack'[i]) <=> Says(bits, stack[i])
         /\ n \in DOMAIN stack /\ stack'[n].end = end
         /\ Shaped' /\ Slot' /\ InList' /\ TruthfulAnswers' /\ list' \in Seq(DOMAIN stack')
         /\ \A i : Owner(stack, i) <=> Owner(stack', i)
<1> DEFINE n == wire.by
           f == stack[n]
           e == [f EXCEPT !.end = end]
<1>1. TypeOK /\ Shaped /\ Slot /\ InList /\ Going /\ TruthfulAnswers
  BY DEF SdInv, Going
<1>2. /\ n \in DOMAIN stack /\ f \in Frame /\ Submitted(f) /\ f.pc \in Commands
      /\ (f.ph = "wait" => n = Len(stack)) /\ f.complete # "ok"
      /\ e \in Frame /\ e.fn = f.fn /\ e.pc = f.pc /\ e.ph = f.ph /\ e.complete = f.complete /\ e.end = end
  BY <1>1, WireIs
<1>3. stack' = [stack EXCEPT ![n] = e] /\ UNCHANGED <<bdev, sdmmcRegistered, polling>>
  BY DEF driver
<1> HIDE DEF e
<1>4. Submitted(e)
  BY <1>2 DEF Submitted
<1>5. /\ stack' \in Seq(Frame) /\ Len(stack') = Len(stack) /\ DOMAIN stack' = DOMAIN stack
      /\ stack'[n] = e /\ \A i \in DOMAIN stack : i # n => stack'[i] = stack[i]
      /\ Shaped' /\ Slot'
      /\ \A i : Owner(stack, i) <=> Owner(stack', i)
  <2>1. e.fn = stack[n].fn /\ e.pc = stack[n].pc /\ e.pc \in Commands /\ (e.ph = "wait" => n = Len(stack))
    BY <1>2
  <2> HIDE DEF n, f
  <2>2. QED
    BY <1>1, <1>2, <1>3, <1>4, <2>1, MarkIs
<1> HIDE DEF n
<1>6. ASSUME NEW i \in DOMAIN stack
      PROVE  /\ stack'[i].pc = stack[i].pc /\ stack'[i].complete = stack[i].complete
             /\ stack'[i].ph = stack[i].ph
             /\ (Submitted(stack'[i]) <=> Submitted(stack[i]))
             /\ \A bits : Says(bits, stack'[i]) <=> Says(bits, stack[i])
  <2>1. CASE i = n
    BY <1>2, <1>4, <1>5, <2>1 DEF Says
  <2>2. CASE i # n
    BY <1>5, <2>2
  <2>3. QED
    BY <2>1, <2>2
<1>7. \A k \in DOMAIN list : list[k] \in DOMAIN stack
  BY <1>1, Types, ElementOfSeq, LenProperties
<1>8. InList'
  BY <1>1, <1>5, <1>6, <1>7 DEF InList
<1>9. TruthfulAnswers'
  <2>1. ASSUME NEW i \in DOMAIN stack, stack'[i].complete = "ok"
        PROVE  stack'[i].end = "good"
    <3>1. stack[i].complete = "ok"
      BY <1>6, <2>1
    <3>2. i # n
      BY <1>2, <3>1
    <3>3. QED
      BY <1>1, <1>5, <3>1, <3>2 DEF TruthfulAnswers
  <2>2. QED
    BY <1>5, <2>1 DEF TruthfulAnswers
<1>10. list' \in Seq(DOMAIN stack')
  BY <1>1, <1>5, Types
<1>11. QED
  BY <1>2, <1>5, <1>6, <1>8, <1>9, <1>10 DEF n

\* What is said of the bits that are there, when others than the ones a
\* command ends with are added.
LEMMA SaysOf ==
  ASSUME NEW bits, NEW more, more \cap Ends = {}
  PROVE  /\ \A x : Says(pend \cup more \cup latch, x) <=> Says(pend \cup latch, x)
         /\ (pend \cup more) \cap Ends = pend \cap Ends
         /\ (pend \cup more \cup latch) \cap Ends = (pend \cup latch) \cap Ends
  BY DEF Says, Ends

LEMMA MoveCardKept ==
  ASSUME SdInv, MoveCard
  PROVE  SdInv'
<1> DEFINE n == wire.by
           more == {IF card.in THEN "CRM" ELSE "CINS"}
<1>1. /\ halted = "no" /\ card' = [NoCard EXCEPT !.in = ~card.in]
      /\ pend' = pend \cup more /\ flag' = TRUE
      /\ stack' = IF n = 0 THEN stack ELSE [stack EXCEPT ![n].end = "bad"]
      /\ UNCHANGED <<wire, latch, irqOn, host, list, driver, flaky>>
  BY DEF MoveCard, Raise
<1>2. /\ TypeOK /\ Shaped /\ Slot /\ InList /\ Wired /\ Orphans /\ Evidence /\ Removed
      /\ Seen /\ TruthfulAnswers /\ Going
  BY <1>1 DEF SdInv, Going
<1>3. UNCHANGED <<bdev, sdmmcRegistered, polling>>
  BY <1>1 DEF driver
<1>4. ~card'.known /\ card' \in [in : BOOLEAN, known : BOOLEAN, wide : BOOLEAN, hs : BOOLEAN]
  <2>1. card.in \in BOOLEAN
    BY <1>2, Types
  <2>2. card' = [in |-> ~card.in, known |-> FALSE, wide |-> FALSE, hs |-> FALSE]
    BY <1>1 DEF NoCard
  <2>3. QED
    BY <2>1, <2>2
<1>5. more \subseteq Bits /\ more \cap Ends = {} /\ "ERR" \notin more
  BY DEF Bits, Ends
<1> HIDE DEF more
<1>6. /\ \A x : Says(pend' \cup latch', x) <=> Says(pend \cup latch, x)
      /\ pend' \cap Ends = pend \cap Ends
      /\ (pend' \cup latch') \cap Ends = (pend \cup latch) \cap Ends
      /\ ("ERR" \in pend' \cup latch' <=> "ERR" \in pend \cup latch)
  <2>1. latch' = latch /\ pend' = pend \cup more
    BY <1>1
  <2>2. QED
    BY <1>5, <2>1, SaysOf
<1>7. /\ stack' \in Seq(Frame) /\ Len(stack') = Len(stack) /\ DOMAIN stack' = DOMAIN stack
      /\ \A i \in DOMAIN stack : i # n => stack'[i] = stack[i]
      /\ \A i \in DOMAIN stack :
           /\ stack'[i].pc = stack[i].pc /\ stack'[i].complete = stack[i].complete
           /\ stack'[i].ph = stack[i].ph
           /\ (Submitted(stack'[i]) <=> Submitted(stack[i]))
           /\ \A bits : Says(bits, stack'[i]) <=> Says(bits, stack[i])
      /\ (n # 0 => n \in DOMAIN stack /\ stack'[n].end = "bad")
      /\ Shaped' /\ Slot' /\ InList' /\ TruthfulAnswers' /\ list' \in Seq(DOMAIN stack')
      /\ \A i : Owner(stack, i) <=> Owner(stack', i)
  <2>1. CASE n = 0
    <3>1. stack' = stack
      BY <1>1, <2>1
    <3>2. list' = list /\ UNCHANGED <<bdev, sdmmcRegistered, polling>>
      BY <1>1, <1>3
    <3>3. Shaped' /\ InList' /\ TruthfulAnswers'
      BY <1>2, <3>1, <3>2 DEF Shaped, InList, TruthfulAnswers
    <3>4. Slot'
      BY <1>2, <3>1, <3>2 DEF Slot
    <3>5. stack \in Seq(Frame) /\ list' \in Seq(DOMAIN stack')
      BY <1>2, <3>1, <3>2, Types
    <3>6. QED
      BY <2>1, <3>1, <3>3, <3>4, <3>5
  <2>2. CASE n # 0
    <3>1. stack' = [stack EXCEPT ![wire.by].end = "bad"]
      BY <1>1, <2>2
    <3>2. QED
      BY <1>1, <2>2, <3>1, EndedIs
  <2>3. QED
    BY <2>1, <2>2
<1>8. n \notin DOMAIN stack => n = 0
  BY <1>7
<1>9. list # <<>> => Head(list) \in DOMAIN stack
  BY <1>2, Types, ListIs
<1>10. Wired'
  <2>1. n # 0 => /\ n \in DOMAIN stack' /\ Submitted(stack'[n]) /\ wire.await # "none"
                 /\ (wire.await = "data" => stack'[n].pc \in Data)
                 /\ (stack'[n].complete = "none" => list # <<>> /\ Head(list) = n)
                 /\ \A k \in DOMAIN list : list[k] >= n
    BY <1>2, <1>7 DEF Wired
  <2>2. \A i \in DOMAIN stack' : stack'[i].end = "good" => n = 0 \/ n > i
    BY <1>2, <1>7 DEF Wired
  <2>3. \A i \in DOMAIN stack' :
          /\ stack'[i].pc \in Bringing \ {"look", "reset", "appcmd"} /\ stack'[i].ph = "start"
          => n = 0 /\ list = <<>>
    BY <1>2, <1>7 DEF Wired
  <2>4. n = 0 => wire.await = "none"
    BY <1>2 DEF Wired
  <2>5. n # 0 => stack'[n].end # "good"
    BY <1>7
  <2> HIDE DEF n
  <2>6. wire'.by = n /\ wire'.await = wire.await /\ list' = list
    BY <1>1 DEF n
  <2>7. QED
    BY <1>4, <2>1, <2>2, <2>3, <2>4, <2>5, <2>6 DEF Wired
<1>11. Orphans'
  <2>1. SUFFICES ASSUME ~bdev', NEW i \in DOMAIN stack',
                        Submitted(stack'[i]), stack'[i].end = "none",
                        stack'[i].complete = "none" \/ wire'.by = i
                 PROVE  Owner(stack, i)
    BY <1>7 DEF Orphans
  <2>2. i # n
    BY <1>7, <2>1
  <2>3. i \in DOMAIN stack /\ stack'[i] = stack[i]
    BY <1>7, <2>1, <2>2
  <2>4. QED
    BY <1>1, <1>2, <1>3, <2>1, <2>3 DEF Orphans
<1>12. Evidence'
  <2>1. ASSUME list # <<>>
        PROVE  /\ Says(pend' \cup latch', stack'[Head(list)]) => stack'[Head(list)].end = "good"
               /\ Says(latch', stack'[Head(list)]) => pend' \cap Ends = {}
               /\ /\ ~Says(latch', stack'[Head(list)])
                  /\ latch' \cap {"ERR", "CRM"} # {} /\ pend' \cap Ends # {}
                  => Len(list) = 1 /\ ~bdev' /\ Owner(stack', Head(list))
    <3>1. Says(pend \cup latch, stack[Head(list)]) => stack[Head(list)].end = "good"
      BY <1>2, <2>1 DEF Evidence
    <3>2. Head(list) = n => stack[n].end # "good"
      <4>1. n = 0 => Head(list) # n
        BY <1>2, <1>9, <2>1, Types, StackIs
      <4>2. n # 0 => stack[n].end # "good"
        BY <1>2 DEF Wired
      <4>3. QED
        BY <4>1, <4>2
    <3>3. Says(pend' \cup latch', stack'[Head(list)]) => stack'[Head(list)].end = "good"
      BY <1>6, <1>7, <1>9, <2>1, <3>1, <3>2
    <3>4. latch' = latch
      BY <1>1
    <3>5. QED
      BY <1>2, <1>3, <1>6, <1>7, <1>9, <2>1, <3>3, <3>4 DEF Evidence
  <2>2. ASSUME list = <<>>, (pend' \cup latch') \cap Ends # {}
        PROVE  /\ ~bdev'
               /\ \E m \in DOMAIN stack' :
                    Owner(stack', m) /\ Submitted(stack'[m]) /\ stack'[m].complete = "bad"
    BY <1>2, <1>3, <1>6, <1>7, <2>2 DEF Evidence
  <2>3. list' = list
    BY <1>1
  <2>4. QED
    BY <1>4, <2>1, <2>2, <2>3 DEF Evidence
<1>13. Removed'
  BY <1>4 DEF Removed
<1>14. Seen'
  <2>1. SUFFICES ASSUME NEW i \in DOMAIN stack', stack'[i].end = "good", stack'[i].complete = "none"
                 PROVE  list # <<>> /\ Head(list) = i /\ Says(pend' \cup latch', stack'[i])
    BY <1>1 DEF Seen
  <2>2. i # n
    BY <1>7, <2>1
  <2>3. QED
    BY <1>2, <1>6, <1>7, <2>1, <2>2 DEF Seen
<1>15. TypeOK'
  <2>1. /\ flaky \in BOOLEAN /\ sizeless \in BOOLEAN /\ pend \subseteq Bits /\ latch \subseteq Bits
        /\ wire \in [by : 0..MaxNesting, await : {"none", "response", "data"}]
    BY <1>2, Types
  <2>2. pend' \subseteq Bits /\ latch' \subseteq Bits /\ flag' \in BOOLEAN
    BY <1>1, <1>5, <2>1
  <2>3. QED
    BY <1>1, <1>2, <1>4, <1>7, <2>1, <2>2, HardTypes
<1>16. QED
  BY <1>7, <1>10, <1>11, <1>12, <1>13, <1>14, <1>15 DEF SdInv, Going

\* A card that has done what it was told may have an address now: no device
\* is registered then, and the call is bringing it up.
LEMMA ToldIs ==
  ASSUME SdInv, Going, wire.by # 0, NEW c \in Told(stack[wire.by].pc), Removed
  PROVE  /\ c \in [in : BOOLEAN, known : BOOLEAN, wide : BOOLEAN, hs : BOOLEAN]
         /\ c.known = card.known \/ (~bdev /\ stack[wire.by].pc = "identify")
         /\ "CRM" \in pend \cup latch /\ c.known =>
              /\ ~bdev
              /\ \A i \in DOMAIN stack :
                   stack[i].pc \notin After /\ ~(stack[i].pc = "identify" /\ stack[i].complete = "ok")
<1> DEFINE n == wire.by
           f == stack[n]
<1>1. TypeOK /\ Slot
  BY DEF SdInv, Going
<1>2. /\ n \in DOMAIN stack /\ f.complete # "ok"
  BY WireIs
<1>3. card \in [in : BOOLEAN, known : BOOLEAN, wide : BOOLEAN, hs : BOOLEAN]
  BY <1>1, Types
<1>4. CASE f.pc = "identify"
  <2>1. c = [in |-> TRUE, known |-> TRUE, wide |-> FALSE, hs |-> FALSE]
    BY <1>4 DEF Told
  <2>2. ~bdev /\ n = Len(stack)
    BY <1>1, <1>2, <1>4 DEF Slot, Bringing, Commands
  <2>3. \A i \in DOMAIN stack :
          stack[i].pc \notin After /\ ~(stack[i].pc = "identify" /\ stack[i].complete = "ok")
    <3>1. TAKE i \in DOMAIN stack
    <3>2. CASE i = n
      BY <1>2, <1>4, <3>2 DEF After
    <3>3. CASE i # n
      BY <1>1, <2>2, <3>3 DEF Slot, Bringing, Commands, After
    <3>4. QED
      BY <3>2, <3>3
  <2>4. QED
    BY <1>4, <2>1, <2>2, <2>3
<1>5. CASE f.pc # "identify"
  <2>1. \/ c = card
        \/ c = [card EXCEPT !.wide = TRUE]
        \/ \E hs \in BOOLEAN : c = [card EXCEPT !.hs = hs]
    BY <1>5 DEF Told
  <2>2. c.known = card.known /\ c \in [in : BOOLEAN, known : BOOLEAN, wide : BOOLEAN, hs : BOOLEAN]
    BY <1>3, <2>1
  <2>3. QED
    BY <2>2 DEF Removed
<1>6. QED
  BY <1>4, <1>5

LEMMA FinishKept ==
  ASSUME SdInv, Finish
  PROVE  SdInv'
<1> DEFINE n == wire.by
           f == stack[n]
<1>1. /\ n # 0 /\ halted = "no" /\ Answers
      /\ UNCHANGED <<latch, irqOn, host, list, driver, flaky>>
  BY DEF Finish
<1>2. /\ TypeOK /\ Shaped /\ Slot /\ InList /\ Wired /\ Orphans /\ Evidence /\ Removed
      /\ Seen /\ TruthfulAnswers /\ Going
  BY <1>1 DEF SdInv, Going
<1>3. UNCHANGED <<bdev, sdmmcRegistered, polling>>
  BY <1>1 DEF driver
<1>4. /\ n \in DOMAIN stack /\ f \in Frame /\ Submitted(f) /\ f.pc \in Commands
      /\ f.end # "good" /\ f.complete # "ok"
  BY <1>1, <1>2, WireIs
<1>5. /\ f.end = "none"
      /\ ~card.known => ~bdev
      /\ ~bdev => Owner(stack, n) /\ (list # <<>> => Len(list) = 1)
      /\ \/ list # <<>> /\ Head(list) = n /\ f.complete = "none"
         \/ list = <<>> /\ f.complete = "bad" /\ ~bdev
  BY <1>1, <1>2, AnswersTo
<1>6. /\ flag \in BOOLEAN /\ flaky \in BOOLEAN /\ sizeless \in BOOLEAN /\ pend \subseteq Bits /\ latch \subseteq Bits
      /\ card \in [in : BOOLEAN, known : BOOLEAN, wide : BOOLEAN, hs : BOOLEAN]
      /\ wire \in [by : 0..MaxNesting, await : {"none", "response", "data"}]
      /\ stack \in Seq(Frame) /\ list \in Seq(DOMAIN stack)
  BY <1>2, Types
<1>7. wire.await \in {"response", "data"}
  <2>1. wire.await # "none"
    BY <1>1, <1>2 DEF Wired
  <2>2. QED
    BY <1>6, <2>1
\* Nothing says yet that the command is done; and if an error is being
\* worked on, no device is registered.
<1>8. list # <<>> => ~Says(latch, f) /\ ~Says(pend, f)
  <2>1. SUFFICES ASSUME list # <<>>, Says(latch, f) \/ Says(pend, f) PROVE FALSE
    OBVIOUS
  <2>2. Says(pend \cup latch, f)
    BY <2>1 DEF Says
  <2>3. QED
    BY <1>2, <1>5, <2>1, <2>2 DEF Evidence
<1>9. latch \cap {"ERR", "CRM"} # {} => ~bdev
  <2>1. "ERR" \in latch => ~bdev
    BY <1>1, <1>2, <1>5 DEF Wired
  <2>2. "CRM" \in latch => ~bdev
    BY <1>2, <1>5 DEF Removed
  <2>3. QED
    BY <2>1, <2>2
<1>10. CASE wire.await = "response" /\ f.pc \in Data
  <2>1. /\ wire' = [wire EXCEPT !.await = "data"] /\ pend' = pend \cup {"CC"} /\ flag' = TRUE
        /\ UNCHANGED <<card, stack>>
    BY <1>10 DEF Finish, Raise
  <2>2. wire'.by = n /\ wire'.await = "data"
        /\ wire' \in [by : 0..MaxNesting, await : {"none", "response", "data"}]
    BY <1>6, <2>1
  <2>3. Shaped' /\ Slot' /\ InList' /\ TruthfulAnswers'
    BY <1>1, <1>2, <1>3, <2>1 DEF Shaped, Slot, InList, TruthfulAnswers
  <2>4. "ERR" \in pend' \cup latch' <=> "ERR" \in pend \cup latch
    BY <1>1, <2>1
  <2>5. Wired'
    <3>1. card' = card /\ stack' = stack /\ list' = list /\ bdev' = bdev
      BY <1>1, <1>3, <2>1
    <3> HIDE DEF n, f
    <3>2. Wired
      BY <1>2
    <3>3. n = wire.by /\ f = stack[n] /\ n # 0
      BY <1>1 DEF n, f
    <3>4. QED
      BY <1>10, <2>2, <2>4, <3>1, <3>2, <3>3 DEF Wired
  <2>6. Orphans'
    BY <1>2, <1>3, <2>1, <2>2 DEF Orphans
  <2>7. Says(pend' \cup latch', f) <=> Says(pend \cup latch, f)
    BY <1>1, <1>10, <2>1 DEF Says
  <2>8. Evidence'
    <3>1. ASSUME list # <<>>
          PROVE  /\ ~Says(pend' \cup latch', f)
                 /\ ~Says(latch', f) /\ Head(list) = n
                 /\ latch' \cap {"ERR", "CRM"} # {} => Len(list) = 1 /\ ~bdev' /\ Owner(stack', Head(list))
      <4>1. ~Says(pend \cup latch, f)
        BY <1>8, <3>1 DEF Says
      <4>2. QED
        BY <1>1, <1>3, <1>5, <1>8, <1>9, <2>1, <2>7, <3>1, <4>1
    <3>2. ASSUME list = <<>>
          PROVE  /\ ~bdev'
                 /\ \E m \in DOMAIN stack' :
                      Owner(stack', m) /\ Submitted(stack'[m]) /\ stack'[m].complete = "bad"
      BY <1>3, <1>4, <1>5, <2>1, <3>2
    <3>3. list' = list /\ stack'[n] = f
      BY <1>1, <2>1
    <3>4. QED
      BY <3>1, <3>2, <3>3 DEF Evidence
  <2>9. Removed'
    <3>1. "CRM" \in pend' \cup latch' <=> "CRM" \in pend \cup latch
      BY <1>1, <2>1
    <3>2. QED
      BY <1>2, <1>3, <2>1, <3>1 DEF Removed
  <2>10. Seen'
    <3>1. \A i \in DOMAIN stack : ~(stack[i].end = "good" /\ stack[i].complete = "none")
      BY <1>2, <1>5 DEF Seen
    <3>2. QED
      BY <2>1, <3>1 DEF Seen
  <2>11. TypeOK'
    <3>1. pend' \subseteq Bits /\ latch' \subseteq Bits /\ flag' \in BOOLEAN
      BY <1>1, <1>6, <2>1 DEF Bits
    <3>2. stack' \in Seq(Frame) /\ Len(stack') = Len(stack) /\ list' \in Seq(DOMAIN stack')
      BY <1>1, <1>6, <2>1
    <3>3. card' \in [in : BOOLEAN, known : BOOLEAN, wide : BOOLEAN, hs : BOOLEAN]
      BY <1>6, <2>1
    <3>4. QED
      BY <1>1, <1>2, <1>6, <2>2, <3>1, <3>2, <3>3, HardTypes
  <2>12. QED
    BY <2>3, <2>5, <2>6, <2>8, <2>9, <2>10, <2>11 DEF SdInv, Going
<1>11. CASE ~(wire.await = "response" /\ f.pc \in Data)
  <2>1. PICK more \in {{"CC"}, {"TC"}, {"TC", "ERR"}} :
          /\ wire' = Idle /\ card' \in Told(f.pc)
          /\ stack' = [stack EXCEPT ![wire.by].end = "good"]
          /\ pend' = pend \cup more /\ flag' = TRUE
          /\ more = {"CC"} => wire.await # "data"
    BY <1>11 DEF Finish, Raise
  <2>2. Says(more, f) /\ "CRM" \notin more /\ more \subseteq Bits
    BY <1>7, <1>11, <2>1 DEF Says, Bits
  <2>3. /\ stack' \in Seq(Frame) /\ Len(stack') = Len(stack) /\ DOMAIN stack' = DOMAIN stack
        /\ \A i \in DOMAIN stack : i # n => stack'[i] = stack[i]
        /\ \A i \in DOMAIN stack :
             /\ stack'[i].pc = stack[i].pc /\ stack'[i].complete = stack[i].complete
             /\ stack'[i].ph = stack[i].ph
             /\ (Submitted(stack'[i]) <=> Submitted(stack[i]))
             /\ \A bits : Says(bits, stack'[i]) <=> Says(bits, stack[i])
        /\ stack'[n].end = "good"
        /\ Shaped' /\ Slot' /\ InList' /\ TruthfulAnswers' /\ list' \in Seq(DOMAIN stack')
        /\ \A i : Owner(stack, i) <=> Owner(stack', i)
    BY <1>1, <2>1, EndedIs
  <2>4. wire'.by = 0 /\ wire'.await = "none"
    BY <2>1 DEF Idle
  <2>5. card' \in [in : BOOLEAN, known : BOOLEAN, wide : BOOLEAN, hs : BOOLEAN]
        /\ ("CRM" \in pend \cup latch /\ card'.known =>
              /\ ~bdev
              /\ \A i \in DOMAIN stack :
                   stack[i].pc \notin After /\ ~(stack[i].pc = "identify" /\ stack[i].complete = "ok"))
    BY <1>1, <1>2, <2>1, ToldIs
  <2>6. Wired'
    <3>1. \A i \in DOMAIN stack' :
            ~(stack'[i].pc \in Bringing \ {"look", "reset", "appcmd"} /\ stack'[i].ph = "start")
      BY <1>1, <1>2, <2>3 DEF Wired
    <3>2. QED
      BY <2>4, <3>1 DEF Wired
  <2>7. Orphans'
    <3>1. SUFFICES ASSUME ~bdev', NEW i \in DOMAIN stack',
                          Submitted(stack'[i]), stack'[i].end = "none",
                          stack'[i].complete = "none" \/ wire'.by = i
                   PROVE  Owner(stack, i)
      BY <2>3 DEF Orphans
    <3>2. i # n /\ i # 0
      BY <1>6, <2>3, <3>1, StackIs
    <3>3. i \in DOMAIN stack /\ stack'[i] = stack[i] /\ stack[i].complete = "none"
      BY <2>3, <2>4, <3>1, <3>2
    <3>4. QED
      BY <1>2, <1>3, <3>1, <3>3 DEF Orphans
  <2>8. Says(pend' \cup latch', stack'[n])
    <3>1. Says(pend' \cup latch', f)
      BY <2>1, <2>2 DEF Says
    <3>2. QED
      BY <1>4, <2>3, <3>1
  <2>9. Evidence'
    <3>1. ASSUME list # <<>>
          PROVE  /\ stack'[n].end = "good" /\ Head(list) = n
                 /\ ~Says(latch', stack'[n])
                 /\ latch' \cap {"ERR", "CRM"} # {} => Len(list) = 1 /\ ~bdev' /\ Owner(stack', Head(list))
      BY <1>1, <1>3, <1>4, <1>5, <1>8, <1>9, <2>3, <3>1
    <3>2. ASSUME list = <<>>
          PROVE  /\ ~bdev'
                 /\ \E m \in DOMAIN stack' :
                      Owner(stack', m) /\ Submitted(stack'[m]) /\ stack'[m].complete = "bad"
      BY <1>3, <1>4, <1>5, <2>3, <3>2
    <3>3. list' = list
      BY <1>1
    <3>4. QED
      BY <3>1, <3>2, <3>3 DEF Evidence
  <2>10. Removed'
    <3>1. "CRM" \in pend' \cup latch' <=> "CRM" \in pend \cup latch
      BY <1>1, <2>1, <2>2
    <3>2. QED
      BY <1>3, <2>3, <2>5, <3>1 DEF Removed
  <2>11. Seen'
    <3>1. SUFFICES ASSUME NEW i \in DOMAIN stack', stack'[i].end = "good", stack'[i].complete = "none"
                   PROVE  list # <<>> /\ Head(list) = i /\ Says(pend' \cup latch', stack'[i])
      BY <1>1 DEF Seen
    <3>2. i = n
      BY <1>2, <1>5, <2>3, <3>1 DEF Seen
    <3>3. QED
      BY <1>4, <1>5, <2>3, <2>8, <3>1, <3>2
  <2>12. TypeOK'
    <3>1. pend' \subseteq Bits /\ latch' \subseteq Bits /\ flag' \in BOOLEAN
      BY <1>1, <1>6, <2>1, <2>2
    <3>2. wire' \in [by : 0..MaxNesting, await : {"none", "response", "data"}]
      BY <2>1, SdCardsAssumption DEF Idle
    <3>3. QED
      BY <1>1, <1>2, <1>6, <2>3, <2>5, <3>1, <3>2, HardTypes
  <2>13. QED
    BY <2>3, <2>6, <2>7, <2>9, <2>10, <2>11, <2>12 DEF SdInv, Going
<1>12. QED
  BY <1>10, <1>11

LEMMA GoWrongKept ==
  ASSUME SdInv, GoWrong
  PROVE  SdInv'
<1> DEFINE n == wire.by
           f == stack[n]
<1>1. /\ n # 0 /\ halted = "no" /\ stack' = [stack EXCEPT ![wire.by].end = "bad"]
      /\ UNCHANGED <<latch, irqOn, host, list, driver, flaky>>
      /\ card' = card \/ (Answers /\ card' \in Told(f.pc))
  BY DEF GoWrong
<1>2. /\ TypeOK /\ Shaped /\ Slot /\ InList /\ Wired /\ Orphans /\ Evidence /\ Removed
      /\ Seen /\ TruthfulAnswers /\ Going
  BY <1>1 DEF SdInv, Going
<1>3. UNCHANGED <<bdev, sdmmcRegistered, polling>>
  BY <1>1 DEF driver
<1>4. /\ n \in DOMAIN stack /\ f \in Frame /\ Submitted(f) /\ f.pc \in Commands
      /\ f.end # "good" /\ f.complete # "ok"
  BY <1>1, <1>2, WireIs
<1>5. PICK more \in {{}, {"ERR"}} :
        /\ pend' = pend \cup more
        /\ flag' = TRUE \/ flag' = flag
        /\ wire' = Idle \/ (wire' = wire /\ more = {})
  BY DEF GoWrong, Raise
<1>6. /\ flag \in BOOLEAN /\ flaky \in BOOLEAN /\ sizeless \in BOOLEAN /\ pend \subseteq Bits /\ latch \subseteq Bits
      /\ card \in [in : BOOLEAN, known : BOOLEAN, wide : BOOLEAN, hs : BOOLEAN]
      /\ wire \in [by : 0..MaxNesting, await : {"none", "response", "data"}]
      /\ stack \in Seq(Frame) /\ list \in Seq(DOMAIN stack)
  BY <1>2, Types
<1>7. /\ stack' \in Seq(Frame) /\ Len(stack') = Len(stack) /\ DOMAIN stack' = DOMAIN stack
      /\ \A i \in DOMAIN stack : i # n => stack'[i] = stack[i]
      /\ \A i \in DOMAIN stack :
           /\ stack'[i].pc = stack[i].pc /\ stack'[i].complete = stack[i].complete
           /\ stack'[i].ph = stack[i].ph
           /\ (Submitted(stack'[i]) <=> Submitted(stack[i]))
           /\ \A bits : Says(bits, stack'[i]) <=> Says(bits, stack[i])
      /\ stack'[n].end = "bad"
      /\ Shaped' /\ Slot' /\ InList' /\ TruthfulAnswers' /\ list' \in Seq(DOMAIN stack')
      /\ \A i : Owner(stack, i) <=> Owner(stack', i)
  BY <1>1, EndedIs
<1>8. card' \in [in : BOOLEAN, known : BOOLEAN, wide : BOOLEAN, hs : BOOLEAN]
      /\ (card'.known = card.known \/ (~bdev /\ f.pc = "identify" /\ Answers))
      /\ ("CRM" \in pend \cup latch /\ card'.known =>
            /\ ~bdev
            /\ \A i \in DOMAIN stack :
                 stack[i].pc \notin After /\ ~(stack[i].pc = "identify" /\ stack[i].complete = "ok"))
  <2>1. CASE card' = card
    BY <1>2, <1>6, <2>1 DEF Removed
  <2>2. CASE Answers /\ card' \in Told(f.pc)
    BY <1>1, <1>2, <2>2, ToldIs
  <2>3. QED
    BY <1>1, <2>1, <2>2
<1>9. more \cap Ends = {} /\ more \subseteq Bits /\ "CRM" \notin more
  BY DEF Ends, Bits
<1>10. /\ \A x : Says(pend' \cup latch', x) <=> Says(pend \cup latch, x)
       /\ pend' \cap Ends = pend \cap Ends
       /\ (pend' \cup latch') \cap Ends = (pend \cup latch) \cap Ends
       /\ ("CRM" \in pend' <=> "CRM" \in pend) /\ latch' = latch
  <2>1. latch' = latch /\ pend' = pend \cup more
    BY <1>1, <1>5
  <2>2. QED
    BY <1>9, <2>1, SaysOf
<1>11. list # <<>> => Head(list) \in DOMAIN stack
  BY <1>6, ListIs
<1>12. Wired'
  <2>1. \A i \in DOMAIN stack' :
          ~(stack'[i].pc \in Bringing \ {"look", "reset", "appcmd"} /\ stack'[i].ph = "start")
    BY <1>1, <1>2, <1>7 DEF Wired
  <2>2. CASE wire' = Idle
    <3>1. wire'.by = 0 /\ wire'.await = "none"
      BY <2>2 DEF Idle
    <3>2. QED
      BY <2>1, <3>1 DEF Wired
  <2>3. CASE wire' = wire /\ more = {}
    <3>1. pend' = pend /\ latch' = latch /\ list' = list
      BY <1>1, <1>5, <2>3
    <3>2. /\ n \in DOMAIN stack' /\ Submitted(stack'[n]) /\ wire.await # "none"
          /\ (wire.await = "data" => stack'[n].pc \in Data)
          /\ stack'[n].end # "good"
          /\ (stack'[n].complete = "none" => list # <<>> /\ Head(list) = n)
          /\ \A k \in DOMAIN list : list[k] >= n
      BY <1>1, <1>2, <1>4, <1>7 DEF Wired
    <3>3. stack'[n].complete # "none" \/ "ERR" \in pend \cup latch => ~card'.known \/ ~bdev'
      <4>1. f.complete # "none" \/ "ERR" \in pend \cup latch => ~card.known \/ ~bdev
        BY <1>1, <1>2 DEF Wired
      <4>2. QED
        BY <1>3, <1>4, <1>7, <1>8, <4>1
    <3>4. \A i \in DOMAIN stack' : stack'[i].end = "good" => n = 0 \/ n > i
      BY <1>2, <1>7 DEF Wired
    <3> HIDE DEF n, f
    <3>5. wire'.by = n /\ wire'.await = wire.await /\ n # 0
      BY <1>1, <2>3 DEF n
    <3>6. QED
      BY <2>1, <3>1, <3>2, <3>3, <3>4, <3>5 DEF Wired
  <2>4. QED
    BY <1>5, <2>2, <2>3
<1>13. Orphans'
  <2>1. SUFFICES ASSUME ~bdev', NEW i \in DOMAIN stack',
                        Submitted(stack'[i]), stack'[i].end = "none",
                        stack'[i].complete = "none" \/ wire'.by = i
                 PROVE  Owner(stack, i)
    BY <1>7 DEF Orphans
  <2>2. i # n /\ i # 0
    BY <1>6, <1>7, <2>1, StackIs
  <2>3. i \in DOMAIN stack /\ stack'[i] = stack[i] /\ stack[i].complete = "none"
    BY <1>5, <1>7, <2>1, <2>2 DEF Idle
  <2>4. QED
    BY <1>2, <1>3, <2>1, <2>3 DEF Orphans
<1>14. Evidence'
  <2>1. ASSUME list # <<>>
        PROVE  /\ Says(pend' \cup latch', stack'[Head(list)]) => stack'[Head(list)].end = "good"
               /\ Says(latch', stack'[Head(list)]) =>
                    pend' \cap Ends = {} /\ ("CRM" \in pend' => ~card'.known)
               /\ /\ ~Says(latch', stack'[Head(list)])
                  /\ latch' \cap {"ERR", "CRM"} # {} /\ pend' \cap Ends # {}
                  => Len(list) = 1 /\ ~bdev' /\ Owner(stack', Head(list))
    <3> DEFINE h == Head(list)
    <3>1. /\ Says(pend \cup latch, stack[h]) => stack[h].end = "good"
          /\ Says(latch, stack[h]) => pend \cap Ends = {} /\ ("CRM" \in pend => ~card.known)
          /\ /\ ~Says(latch, stack[h]) /\ latch \cap {"ERR", "CRM"} # {} /\ pend \cap Ends # {}
             => Len(list) = 1 /\ ~bdev /\ Owner(stack, h)
      BY <1>2, <2>1 DEF Evidence
    <3>2. /\ h \in DOMAIN stack
          /\ \A bits : Says(bits, stack'[h]) <=> Says(bits, stack[h])
      BY <1>7, <1>11, <2>1
    <3>3. h # n => stack'[h] = stack[h]
      BY <1>7, <3>2
    <3> HIDE DEF h
    <3>4. Says(pend' \cup latch', stack'[h]) => stack'[h].end = "good"
      <4>1. Says(pend' \cup latch', stack'[h]) => stack[h].end = "good"
        BY <1>10, <3>1, <3>2
      <4>2. h = n => stack[h].end # "good"
        BY <1>4
      <4>3. QED
        BY <3>3, <4>1, <4>2
    <3>5. Says(latch, stack[h]) => card'.known = card.known
      <4>1. SUFFICES ASSUME Says(latch, stack[h]), Answers PROVE FALSE
        BY <1>8
      <4>2. h = n
        BY <1>1, <1>2, <2>1, <4>1, AnswersTo DEF h
      <4>3. Says(pend \cup latch, stack[h])
        BY <4>1 DEF Says
      <4>4. QED
        BY <1>4, <3>1, <4>2, <4>3
    <3>6. QED
      BY <1>3, <1>7, <1>10, <3>1, <3>2, <3>4, <3>5 DEF h
  <2>2. ASSUME list = <<>>, (pend' \cup latch') \cap Ends # {}
        PROVE  /\ ~bdev'
               /\ \E m \in DOMAIN stack' :
                    Owner(stack', m) /\ Submitted(stack'[m]) /\ stack'[m].complete = "bad"
    BY <1>2, <1>3, <1>7, <1>10, <2>2 DEF Evidence
  <2>3. list' = list
    BY <1>1
  <2>4. QED
    BY <2>1, <2>2, <2>3 DEF Evidence
<1>15. Removed'
  <2>1. "CRM" \in pend' \cup latch' <=> "CRM" \in pend \cup latch
    BY <1>10
  <2>2. QED
    BY <1>3, <1>7, <1>8, <2>1 DEF Removed
<1>16. Seen'
  <2>1. SUFFICES ASSUME NEW i \in DOMAIN stack', stack'[i].end = "good", stack'[i].complete = "none"
                 PROVE  list # <<>> /\ Head(list) = i /\ Says(pend' \cup latch', stack'[i])
    BY <1>1 DEF Seen
  <2>2. i # n
    BY <1>7, <2>1
  <2>3. QED
    BY <1>2, <1>7, <1>10, <2>1, <2>2 DEF Seen
<1>17. TypeOK'
  <2>1. pend' \subseteq Bits /\ latch' \subseteq Bits /\ flag' \in BOOLEAN
    BY <1>1, <1>5, <1>6, <1>9
  <2>2. wire' \in [by : 0..MaxNesting, await : {"none", "response", "data"}]
    BY <1>5, <1>6, SdCardsAssumption DEF Idle
  <2>3. QED
    BY <1>1, <1>2, <1>6, <1>7, <1>8, <2>1, <2>2, HardTypes
<1>18. QED
  BY <1>7, <1>12, <1>13, <1>14, <1>15, <1>16, <1>17 DEF SdInv, Going

(***************************************************************************)
(* Every step, and the two theorems that need nothing else.                *)
(***************************************************************************)
LEMMA StutterKept ==
  ASSUME SdInv, UNCHANGED vars
  PROVE  SdInv'
<1>1. /\ UNCHANGED <<card, wire, pend, latch, flag, irqOn, host, list, stack, flaky>>
      /\ UNCHANGED <<mmcDev, bdev, emmc, sdmmcRegistered, checkConnected, polling, state, halted,
                     sizeless>>
  BY DEF vars, hardware, driver
<1>2. TypeOK'
  BY <1>1 DEF SdInv, TypeOK
<1>3. TruthfulAnswers' /\ Seen'
  BY <1>1 DEF SdInv, TruthfulAnswers, Seen
<1>4. halted = "no" => Shaped' /\ InList' /\ Removed'
  BY <1>1 DEF SdInv, Going, Shaped, InList, Removed
<1>5. halted = "no" => Slot'
  BY <1>1 DEF SdInv, Going, Slot
<1>6. halted = "no" => Wired'
  BY <1>1 DEF SdInv, Going, Wired
<1>7. halted = "no" => Orphans'
  BY <1>1 DEF SdInv, Going, Orphans
<1>8. halted = "no" => Evidence'
  BY <1>1 DEF SdInv, Going, Evidence
<1>9. QED
  BY <1>1, <1>2, <1>3, <1>4, <1>5, <1>6, <1>7, <1>8 DEF SdInv, Going

LEMMA NextSd == SdInv /\ [Next]_vars => SdInv'
<1> SUFFICES ASSUME SdInv, [Next]_vars PROVE SdInv'
  OBVIOUS
<1>1. CASE UNCHANGED vars
  BY <1>1, StutterKept
<1>2. CASE Step
  <2>1. CASE Submit
    BY <2>1, SubmitKept
  <2>2. CASE Wait
    BY <2>2, WaitKept
  <2>3. CASE Poll
    BY <2>3, AcknowledgeKept
  <2>4. CASE Look
    BY <2>4, LookKept
  <2>5. CASE Reset
    BY <2>5, ResetStepKept
  <2>6. CASE AppCmd \/ OpCond \/ Identify \/ SetWidth \/ ValidateWidth
             \/ CheckHighSpeed \/ SetHighSpeed \/ ProveHighSpeed
    BY <2>6, BringingSteps
  <2>7. CASE Register
    BY <2>7, RegisterKept
  <2>8. CASE Registered
    BY <2>8, RegisteredKept
  <2>9. CASE Watch
    BY <2>9, WatchKept
  <2>10. CASE Gone
    BY <2>10, GoneKept
  <2>11. CASE Unregister
    BY <2>11, UnregisterKept
  <2>12. CASE mmc_block_read
    BY <2>12, ReadKept
  <2>13. QED
    BY <1>2, <2>1, <2>2, <2>3, <2>4, <2>5, <2>6, <2>7, <2>8, <2>9, <2>10, <2>11, <2>12 DEF Step
<1>3. CASE Process
  BY <1>3, ProcessKept
<1>4. CASE sdmmcIRQ
  BY <1>4, AcknowledgeKept
<1>5. CASE sdmmcConnectionCheck
  BY <1>5, CheckKept
<1>6. CASE StartRead
  BY <1>6, StartReadKept
<1>7. CASE Handover
  BY <1>7, HandoverKept
<1>8. CASE MoveCard
  BY <1>8, MoveCardKept
<1>9. CASE Finish
  BY <1>9, FinishKept
<1>10. CASE GoWrong
  BY <1>10, GoWrongKept
<1>11. QED
  BY <1>1, <1>2, <1>3, <1>4, <1>5, <1>6, <1>7, <1>8, <1>9, <1>10 DEF Next

LEMMA SdKept == Spec => []SdInv
  BY InitSd, NextSd, PTL DEF Spec

\* sdhc_done (sdhc.c): a command is reported to have succeeded only if the
\* card has done it, whatever interrupts, resets and removals came before,
\* and however deeply the calls are nested.
THEOREM AnswersAreTrue == Spec => []TruthfulAnswers
<1>1. SdInv => TruthfulAnswers
  BY DEF SdInv
<1>2. QED
  BY <1>1, SdKept, PTL

\* sdhc_handle_irq (sdhc.c) loses no completion: for a command that the card
\* has done and whose caller still waits, INT_STATUS or the copy that the
\* handler is working on has a bit that says so.
THEOREM CompletionsAreSeen == Spec => []FinishedIsSeen
<1>1. SdInv => FinishedIsSeen
  BY DEF SdInv, Seen, Says, FinishedIsSeen
<1>2. QED
  BY <1>1, SdKept, PTL

(***************************************************************************)
(* Card and host agree.  While mmc_init runs, the host has the width and   *)
(* the clock of the step it is at, and the card, if it is still the one    *)
(* that got an address, has what it was told by the steps before.          *)
(***************************************************************************)
Tuning == {"appcmd", "opcond", "identify", "setwidth", "status", "hscheck", "hsset", "prove",
           "register"}

Suits(f, c, h) ==
  /\ f.pc \in {"appcmd", "opcond", "identify"} => h.wide = FALSE /\ h.clock = "init"
  /\ f.pc = "identify" /\ f.end = "good" /\ c.known => c.wide = FALSE /\ c.hs = FALSE
  /\ f.pc = "setwidth" => /\ h.wide = FALSE /\ h.clock = "default"
                          /\ c.known => c.hs = FALSE /\ (f.end = "good" => c.wide = TRUE)
  /\ f.pc \in {"status", "hscheck", "hsset"} =>
       h.wide = TRUE /\ h.clock = "default" /\ (c.known => c.wide = TRUE)
  /\ f.pc \in {"status", "hscheck"} /\ c.known => c.hs = FALSE
  /\ f.pc = "prove" =>
       h.wide = TRUE /\ h.clock = "fast" /\ (c.known => c.wide = TRUE /\ c.hs = TRUE)
  /\ f.pc = "register" =>
       /\ h.clock \in {"default", "fast", "off"}
       /\ c.known => h.wide = c.wide /\ (h.clock = "fast" => c.hs)

Tuned ==
  /\ RegisteredFits
  /\ halted = "no" => \A i \in DOMAIN stack : Suits(stack[i], card, host)

\* The calls at one of pcs are those that were there, and no command of
\* theirs has succeeded.
Alike(pcs) ==
  \A i \in DOMAIN stack' :
    \/ stack'[i].pc \notin pcs
    \/ /\ i \in DOMAIN stack /\ stack'[i].pc = stack[i].pc
       /\ stack'[i].end = "good" => stack[i].end = "good"

LEMMA AlikeTuned ==
  ASSUME Tuned, halted = "no", Alike(Tuning), UNCHANGED <<card, host>>, bdev' => bdev
  PROVE  Tuned'
<1>1. ASSUME NEW i \in DOMAIN stack'
      PROVE  Suits(stack'[i], card, host)
  <2>1. CASE stack'[i].pc \notin Tuning
    BY <2>1 DEF Suits, Tuning
  <2>2. CASE stack'[i].pc \in Tuning
    <3>1. /\ i \in DOMAIN stack /\ stack'[i].pc = stack[i].pc
          /\ stack'[i].end = "good" => stack[i].end = "good"
      BY <2>2 DEF Alike
    <3>2. Suits(stack[i], card, host)
      BY <3>1 DEF Tuned
    <3>3. QED
      BY <3>1, <3>2 DEF Suits
  <2>3. QED
    BY <2>1, <2>2
<1>2. RegisteredFits'
  BY DEF Tuned, RegisteredFits
<1>3. QED
  BY <1>1, <1>2 DEF Tuned

\* One call is changed, and is where it was; the last one is replaced,
\* returns, or another one begins.
LEMMA AlikeMark ==
  ASSUME NEW n \in DOMAIN stack, NEW e, stack' = [stack EXCEPT ![n] = e],
         e.pc = stack[n].pc, e.end = "good" => stack[n].end = "good",
         NEW pcs
  PROVE  Alike(pcs)
<1>1. DOMAIN stack' = DOMAIN stack
  OBVIOUS
<1>2. stack'[n] = e /\ \A i \in DOMAIN stack : i # n => stack'[i] = stack[i]
  OBVIOUS
<1>3. QED
  BY <1>1, <1>2 DEF Alike

LEMMA AlikeGoto ==
  ASSUME NEW n \in DOMAIN stack, NEW e, stack' = [stack EXCEPT ![n] = e], NEW pcs, e.pc \notin pcs
  PROVE  Alike(pcs)
<1>1. DOMAIN stack' = DOMAIN stack
  OBVIOUS
<1>2. stack'[n] = e /\ \A i \in DOMAIN stack : i # n => stack'[i] = stack[i]
  OBVIOUS
<1>3. QED
  BY <1>1, <1>2 DEF Alike

LEMMA AlikePop ==
  ASSUME stack \in Seq(Frame), stack # <<>>, stack' = Front(stack), NEW pcs
  PROVE  Alike(pcs)
  BY PopTop DEF Alike

LEMMA AlikePush ==
  ASSUME stack \in Seq(Frame), NEW e \in Frame, stack' = Append(stack, e), NEW pcs, e.pc \notin pcs
  PROVE  Alike(pcs)
<1>1. /\ DOMAIN stack' = 1..(Len(stack) + 1) /\ stack'[Len(stack) + 1] = e
      /\ \A i \in DOMAIN stack : stack'[i] = stack[i]
      /\ DOMAIN stack = 1..Len(stack) /\ Len(stack) \in Nat
  BY PushTop, StackIs
<1>2. \A i \in DOMAIN stack' : i \in DOMAIN stack \/ i = Len(stack) + 1
  BY <1>1
<1>3. QED
  BY <1>1, <1>2 DEF Alike

\* Where a card is brought up, registered and removed.
Placed == Tuning \cup {"registered", "unregister"}

LEMMA AlikeLess == Alike(Placed) => Alike(Tuning)
  BY DEF Alike, Placed

LEMMA FieldsKept ==
  ASSUME NEW f \in Frame, NEW ph, NEW c
  PROVE  /\ [f EXCEPT !.ph = ph].pc = f.pc /\ [f EXCEPT !.ph = ph].end = f.end
         /\ [f EXCEPT !.complete = c].pc = f.pc /\ [f EXCEPT !.complete = c].end = f.end
         /\ [f EXCEPT !.ph = ph, !.complete = c, !.end = "bad"].pc = f.pc
         /\ [f EXCEPT !.ph = ph, !.complete = c, !.end = "bad"].end = "bad"
  BY DEF Frame

LEMMA CallPc ==
  ASSUME NEW fn, NEW pc
  PROVE  Call(fn, pc).pc = pc /\ Call(fn, pc).end = "none"
  BY DEF Call

\* The steps that bring no card further do not touch card and host.
LEMMA QuietSteps ==
  ASSUME SdInv,
         Submit \/ Wait \/ Poll \/ sdmmcIRQ \/ Process \/ Look \/ Watch \/ Registered
         \/ sdmmcConnectionCheck \/ StartRead \/ mmc_block_read
  PROVE  halted = "no" /\ Alike(Placed) /\ UNCHANGED <<card, host, bdev, state, halted>>
<1>1. stack \in Seq(Frame) /\ list \in Seq(DOMAIN stack)
  BY Types DEF SdInv
<1>2. Running => /\ stack # <<>> /\ Me \in DOMAIN stack /\ stack[Me] \in Frame /\ Top = stack[Me]
                 /\ halted = "no"
  BY RunningIs DEF Me
<1>3. stack' = stack => Alike(Placed)
  BY DEF Alike
<1>4. CASE Submit
  <2> DEFINE w == [stack[Me] EXCEPT !.ph = "window"]
             b == [stack[Me] EXCEPT !.ph = "wait", !.complete = "bad", !.end = "bad"]
  <2>1. Me \in DOMAIN stack /\ stack[Me] \in Frame
    BY <1>2, <1>4 DEF Submit
  <2>2. stack' = [stack EXCEPT ![Me] = w] \/ stack' = [stack EXCEPT ![Me] = b]
    BY <1>4 DEF Submit
  <2>3. w.pc = stack[Me].pc /\ b.pc = stack[Me].pc /\ w.end = stack[Me].end /\ b.end # "good"
    BY <2>1, FieldsKept
  <2> HIDE DEF w, b
  <2>4. Alike(Placed)
    BY <2>1, <2>2, <2>3, AlikeMark
  <2>5. QED
    BY <1>2, <1>4, <2>4 DEF Submit, driver
<1>5. CASE Wait
  <2> DEFINE w == [stack[Me] EXCEPT !.ph = "wait"]
  <2>1. Me \in DOMAIN stack /\ stack[Me] \in Frame
    BY <1>2, <1>5 DEF Wait
  <2>2. stack' = [stack EXCEPT ![Me] = w]
    BY <1>5 DEF Wait
  <2>3. w.pc = stack[Me].pc /\ w.end = stack[Me].end
    BY <2>1, FieldsKept
  <2> HIDE DEF w
  <2>4. Alike(Placed)
    BY <2>1, <2>2, <2>3, AlikeMark
  <2>5. QED
    BY <1>2, <1>5, <2>4 DEF Wait, driver, hardware
<1>6. CASE Poll
  BY <1>2, <1>3, <1>6 DEF Poll, driver
<1>7. CASE sdmmcIRQ
  BY <1>3, <1>7 DEF sdmmcIRQ, Open
<1>8. CASE Process
  <2>1. halted = "no" /\ UNCHANGED <<card, host, driver>> /\ Work({})
    BY <1>8 DEF Process
  <2>2. CASE stack' = stack
    BY <1>3, <2>1, <2>2 DEF driver
  <2>3. CASE stack' # stack
    <3> DEFINE h == Head(list)
               v == Verdict(latch, stack[h])
               e == [stack[h] EXCEPT !.complete = v]
    <3>1. list # <<>> /\ stack' = [stack EXCEPT ![h] = e]
      BY <2>1, <2>3 DEF Work
    <3>2. h \in DOMAIN stack /\ stack[h] \in Frame
      BY <1>1, <3>1, ListIs, StackIs
    <3> HIDE DEF v
    <3>3. e.pc = stack[h].pc /\ e.end = stack[h].end
      BY <3>2, FieldsKept
    <3> HIDE DEF e, h
    <3>4. Alike(Placed)
      BY <3>1, <3>2, <3>3, AlikeMark
    <3>5. QED
      BY <2>1, <3>4 DEF driver
  <2>4. QED
    BY <2>2, <2>3
<1>9. ASSUME End, Running
      PROVE  Alike(Placed)
  <2>1. CASE Top.fn = "init"
    <3> DEFINE e == Call(Top.fn, "watch")
    <3>1. stack' = [stack EXCEPT ![Me] = e] /\ e.pc \notin Placed
      BY <1>9, <2>1, CallPc DEF End, Ended, Placed, Tuning
    <3> HIDE DEF e
    <3>2. QED
      BY <1>2, <1>9, <3>1, AlikeGoto
  <2>2. CASE Top.fn # "init"
    BY <1>1, <1>2, <1>9, <2>2, AlikePop DEF End, Ended
  <2>3. QED
    BY <2>1, <2>2
<1>10. CASE Look
  <2>1. Running /\ UNCHANGED <<hardware, driver>>
    BY <1>10 DEF Look
  <2>2. CASE card.in
    <3> DEFINE e == Call(Top.fn, "reset")
    <3>1. stack' = [stack EXCEPT ![Me] = e] /\ e.pc \notin Placed
      BY <1>10, <2>2, CallPc DEF Look, Goto, Placed, Tuning
    <3> HIDE DEF e
    <3>2. Alike(Placed)
      BY <1>2, <2>1, <3>1, AlikeGoto
    <3>3. QED
      BY <1>2, <2>1, <3>2 DEF driver, hardware
  <2>3. CASE ~card.in
    <3>1. Alike(Placed)
      BY <1>9, <1>10, <2>1, <2>3 DEF Look
    <3>2. QED
      BY <1>2, <2>1, <3>1 DEF driver, hardware
  <2>4. QED
    BY <2>2, <2>3
<1>11. CASE Watch
  <2>1. Running /\ stack' = Front(stack) /\ UNCHANGED <<card, host, bdev, state, halted>>
    BY <1>11 DEF Watch, Return
  <2>2. QED
    BY <1>1, <1>2, <2>1, AlikePop
<1>12. CASE Registered
  BY <1>2, <1>9, <1>12 DEF Registered, hardware
<1>13. CASE sdmmcConnectionCheck
  <2>1. /\ halted = "no" /\ UNCHANGED <<card, host, bdev, state, halted>>
        /\ stack' = Append(stack, Call("check", IF sdmmcRegistered THEN "gone" ELSE "look"))
    BY <1>13 DEF sdmmcConnectionCheck, Open, hardware
  <2>2. PICK pc \in {"gone", "look"} : stack' = Append(stack, Call("check", pc))
    BY <2>1
  <2> DEFINE e == Call("check", pc)
  <2>3. e \in Frame /\ e.pc = pc
    BY CallIs
  <2>4. e.pc \notin Placed
    BY <2>3 DEF Placed, Tuning
  <2> HIDE DEF e
  <2>5. Alike(Placed)
    BY <1>1, <2>2, <2>3, <2>4, AlikePush DEF e
  <2>6. QED
    BY <2>1, <2>5
<1>14. CASE StartRead
  <2> DEFINE e == Call("read", "read")
  <2>1. halted = "no" /\ UNCHANGED <<card, host, bdev, state, halted>> /\ stack' = Append(stack, e)
    BY <1>14 DEF StartRead, Open, hardware, driver
  <2>2. e \in Frame /\ e.pc = "read"
    BY CallIs DEF Commands
  <2>3. e.pc \notin Placed
    BY <2>2 DEF Placed, Tuning
  <2> HIDE DEF e
  <2>4. Alike(Placed)
    BY <1>1, <2>1, <2>2, <2>3, AlikePush
  <2>5. QED
    BY <2>1, <2>4
<1>15. CASE mmc_block_read
  <2>1. Running /\ stack' = Front(stack) /\ UNCHANGED <<card, host, bdev, state, halted>>
    BY <1>15 DEF mmc_block_read, Return, Returns, driver
  <2>2. QED
    BY <1>1, <1>2, <2>1, AlikePop
<1>16. QED
  BY <1>4, <1>5, <1>6, <1>7, <1>8, <1>10, <1>11, <1>12, <1>13, <1>14, <1>15

\* Only the last call brings a card up.
LEMMA OnlyTop ==
  ASSUME Slot
  PROVE  \A i \in DOMAIN stack : stack[i].pc \in Tuning => i = Len(stack) /\ ~bdev
  BY DEF Slot, Tuning, Bringing, Commands

LEMMA NoneTuned ==
  ASSUME ~bdev' \/ UNCHANGED <<card, host, bdev>>, RegisteredFits,
         \A i \in DOMAIN stack' : stack'[i].pc \notin Tuning
  PROVE  Tuned'
<1>1. \A i \in DOMAIN stack' : Suits(stack'[i], card', host')
  BY DEF Suits, Tuning
<1>2. RegisteredFits'
  BY DEF RegisteredFits
<1>3. QED
  BY <1>1, <1>2 DEF Tuned

LEMMA TopTuned ==
  ASSUME Slot, NEW e, Len(stack) \in DOMAIN stack, stack' = [stack EXCEPT ![Len(stack)] = e],
         Suits(e, card', host'), ~bdev'
  PROVE  Tuned'
<1>1. /\ DOMAIN stack' = DOMAIN stack /\ stack'[Len(stack)] = e
      /\ \A i \in DOMAIN stack : i # Len(stack) => stack'[i] = stack[i]
  OBVIOUS
<1>2. ASSUME NEW i \in DOMAIN stack', i # Len(stack)
      PROVE  Suits(stack'[i], card', host')
  <2>1. stack'[i].pc \notin Tuning
    BY <1>1, <1>2, OnlyTop
  <2>2. QED
    BY <2>1 DEF Suits, Tuning
<1>3. RegisteredFits'
  BY DEF RegisteredFits
<1>4. QED
  BY <1>1, <1>2, <1>3 DEF Tuned

\* The steps of mmc_init: the call ends, or goes on to a step that suits.
LEMMA StepTuned ==
  ASSUME SdInv, Tuned, NEW pc \in Tuning, NEW r, Returns(pc, r), UNCHANGED <<card, bdev>>,
         End \/ \E e : stack' = [stack EXCEPT ![Me] = e] /\ Suits(e, card, host')
  PROVE  Tuned'
<1>1. Running /\ Top.pc = pc
  BY DEF Returns
<1>2. /\ stack # <<>> /\ Slot /\ Top = stack[Len(stack)] /\ Len(stack) \in DOMAIN stack
      /\ stack \in Seq(Frame)
  BY <1>1, RunningIs
<1>3. ~bdev /\ ~bdev'
  BY <1>1, <1>2, OnlyTop
<1>4. CASE End
  <2>1. \A i \in DOMAIN stack' : stack'[i].pc \notin Tuning
    <3>1. CASE Top.fn = "init"
      <4> DEFINE e == Call(Top.fn, "watch")
      <4>1. stack' = [stack EXCEPT ![Len(stack)] = e] /\ e.pc \notin Tuning
        BY <1>4, <3>1, CallPc DEF End, Ended, Me, Tuning
      <4> HIDE DEF e
      <4>2. /\ DOMAIN stack' = DOMAIN stack /\ stack'[Len(stack)] = e
            /\ \A i \in DOMAIN stack : i # Len(stack) => stack'[i] = stack[i]
        BY <1>2, <4>1
      <4>3. QED
        BY <1>2, <4>1, <4>2, OnlyTop
    <3>2. CASE Top.fn # "init"
      <4>1. stack' = Front(stack)
        BY <1>4, <3>2 DEF End, Ended
      <4>2. QED
        BY <1>2, <4>1, PopTop, OnlyTop
    <3>3. QED
      BY <3>1, <3>2
  <2>2. QED
    BY <1>3, <2>1, NoneTuned DEF Tuned
<1>5. CASE \E e : stack' = [stack EXCEPT ![Me] = e] /\ Suits(e, card, host')
  <2>1. PICK e : stack' = [stack EXCEPT ![Len(stack)] = e] /\ Suits(e, card', host')
    BY <1>5 DEF Me
  <2>2. QED
    BY <1>2, <1>3, <2>1, TopTuned
<1>6. QED
  BY <1>4, <1>5

\* A call that is to begin a step.
LEMMA ProceedIs ==
  ASSUME NEW pc, NEW sd, Proceed(pc, sd)
  PROVE  \E e : stack' = [stack EXCEPT ![Me] = e] /\ e.pc = pc /\ e.end = "none"
<1> DEFINE c == Call(Top.fn, pc)
           e == [c EXCEPT !.sd = sd]
<1>1. c.pc = pc /\ c.end = "none" /\ {"pc", "end"} \subseteq DOMAIN c
  BY DEF Call
<1>2. stack' = [stack EXCEPT ![Me] = e]
  BY DEF Proceed
<1> HIDE DEF c
<1>3. e.pc = pc /\ e.end = "none"
  BY <1>1
<1>4. QED
  BY <1>2, <1>3

LEMMA DoneIs ==
  ASSUME Done
  PROVE  \E e : stack' = [stack EXCEPT ![Me] = e] /\ e.pc = "register" /\ e.end = "none"
<1> DEFINE e == Call(Top.fn, "register")
<1>1. stack' = [stack EXCEPT ![Me] = e] /\ e.pc = "register" /\ e.end = "none"
  BY CallPc DEF Done, Goto
<1> HIDE DEF e
<1>2. QED
  BY <1>1

LEMMA FreshSuits ==
  ASSUME NEW e, e.end = "none", NEW c, NEW h
  PROVE  /\ e.pc \in {"opcond", "identify"} /\ h.wide = FALSE /\ h.clock = "init" => Suits(e, c, h)
         /\ /\ e.pc = "setwidth" /\ h.wide = FALSE /\ h.clock = "default"
            /\ c.known => c.hs = FALSE
            => Suits(e, c, h)
         /\ /\ e.pc \in {"status", "hscheck"} /\ h.wide = TRUE /\ h.clock = "default"
            /\ c.known => c.wide = TRUE /\ c.hs = FALSE
            => Suits(e, c, h)
         /\ /\ e.pc = "hsset" /\ h.wide = TRUE /\ h.clock = "default"
            /\ c.known => c.wide = TRUE
            => Suits(e, c, h)
         /\ /\ e.pc = "prove" /\ h.wide = TRUE /\ h.clock = "fast"
            /\ c.known => c.wide = TRUE /\ c.hs = TRUE
            => Suits(e, c, h)
         /\ /\ e.pc = "register" /\ h.clock \in {"default", "fast", "off"}
            /\ c.known => h.wide = c.wide /\ (h.clock = "fast" => c.hs)
            => Suits(e, c, h)
  BY DEF Suits

LEMMA ClockIs ==
  ASSUME SdInv, NEW c, NEW d \in Clocks(c), sdhc_set_clock(d)
  PROVE  d \in {c, "off"} /\ host'.clock = d /\ host'.wide = host.wide
<1>1. host \in [wide : BOOLEAN, clock : {"off", "init", "default", "fast"}]
  BY StepTypes
<1>2. d \in {c, "off"}
  BY DEF Clocks
<1>3. QED
  BY <1>1, <1>2 DEF sdhc_set_clock

LEMMA BringingTuned ==
  ASSUME SdInv, Tuned,
         AppCmd \/ OpCond \/ Identify \/ SetWidth \/ ValidateWidth
         \/ CheckHighSpeed \/ SetHighSpeed \/ ProveHighSpeed
  PROVE  Tuned'
<1> DEFINE f == stack[Len(stack)]
           Rest == UNCHANGED <<card, bdev>>
           Next1(pc) == \E e : /\ stack' = [stack EXCEPT ![Me] = e]
                               /\ e.pc = pc /\ e.end = "none"
\* What is known of the call whose command has returned.
<1>1. ASSUME NEW pc, NEW r, Returns(pc, r)
      PROVE  /\ Suits(f, card, host) /\ f.pc = pc /\ (r = "ok" => f.end = "good")
             /\ card.wide \in BOOLEAN /\ card.hs \in BOOLEAN /\ host.wide \in BOOLEAN
  <2>1. /\ halted = "no" /\ f.pc = pc /\ (r = "ok" => f.complete = "ok")
    BY <1>1, ReturnsSettles
  <2>2. Running
    BY <1>1 DEF Returns
  <2>3. Len(stack) \in DOMAIN stack
    BY <2>2, RunningIs
  <2>4. Suits(f, card, host) /\ (f.complete = "ok" => f.end = "good")
    BY <2>1, <2>3 DEF Tuned, SdInv, TruthfulAnswers
  <2>5. /\ card \in [in : BOOLEAN, known : BOOLEAN, wide : BOOLEAN, hs : BOOLEAN]
        /\ host \in [wide : BOOLEAN, clock : {"off", "init", "default", "fast"}]
    BY Types DEF SdInv
  <2>6. QED
    BY <2>1, <2>4, <2>5
<1>2. \A pc, sd : Proceed(pc, sd) => Next1(pc)
  BY ProceedIs
<1>3. Done => Next1("register")
  BY DoneIs
<1> HIDE DEF f, Next1
<1>4. GiveUp => End
  BY DEF GiveUp
\* To go on is to suit the next step.
<1>5. ASSUME NEW pc \in Tuning, NEW r, Returns(pc, r), Rest, NEW to, Next1(to),
             \A e : e.pc = to /\ e.end = "none" => Suits(e, card, host')
      PROVE  Tuned'
  BY <1>5, StepTuned DEF Next1
<1>6. ASSUME NEW pc \in Tuning, NEW r, Returns(pc, r), Rest, End
      PROVE  Tuned'
  BY <1>6, StepTuned
<1>7. CASE AppCmd
  <2>1. PICK r \in Results : /\ Returns("appcmd", r) /\ Rest /\ UNCHANGED host
                             /\ Next1("opcond")
    BY <1>2, <1>7 DEF AppCmd
  <2>2. host'.wide = FALSE /\ host'.clock = "init"
    <3>1. f.pc = "appcmd" /\ Suits(f, card, host) /\ host' = host
      BY <1>1, <2>1
    <3>2. QED
      BY <3>1 DEF Suits
  <2>3. \A e : e.pc = "opcond" /\ e.end = "none" => Suits(e, card, host')
    BY <2>2, FreshSuits
  <2>4. "appcmd" \in Tuning
    BY DEF Tuning
  <2>5. QED
    BY <1>5, <2>1, <2>3, <2>4
<1>8. CASE OpCond
  <2>1. PICK r \in Results : /\ Returns("opcond", r) /\ Rest /\ UNCHANGED host
                             /\ Next1("identify") \/ End
    BY <1>2, <1>4, <1>8 DEF OpCond
  <2>2. host'.wide = FALSE /\ host'.clock = "init"
    <3>1. f.pc = "opcond" /\ Suits(f, card, host) /\ host' = host
      BY <1>1, <2>1
    <3>2. QED
      BY <3>1 DEF Suits
  <2>3. \A e : e.pc = "identify" /\ e.end = "none" => Suits(e, card, host')
    BY <2>2, FreshSuits
  <2>4. "opcond" \in Tuning
    BY DEF Tuning
  <2>5. QED
    BY <1>5, <1>6, <2>1, <2>3, <2>4
<1>9. CASE Identify
  <2>1. PICK r \in Results :
          /\ Returns("identify", r) /\ Rest
          /\ \/ GiveUp
             \/ /\ r = "ok"
                /\ \E c \in Clocks("default") :
                     /\ sdhc_set_clock(c)
                     /\ GiveUp \/ (c # "off" /\ (Proceed("setwidth", TRUE) \/ Done))
    BY <1>9 DEF Identify, Results
  <2>2. "identify" \in Tuning
    BY DEF Tuning
  <2>3. CASE End
    BY <1>6, <2>1, <2>2, <2>3
  <2>4. CASE ~End
    <3>1. r = "ok" /\ \E c \in Clocks("default") :
                        /\ sdhc_set_clock(c) /\ c # "off"
                        /\ Next1("setwidth") \/ Next1("register")
      BY <1>2, <1>3, <1>4, <2>1, <2>4
    <3>2. host'.clock = "default" /\ host'.wide = host.wide
      BY <3>1, ClockIs
    <3>3. host'.wide = FALSE /\ (card.known => card.wide = FALSE /\ card.hs = FALSE)
      BY <1>1, <2>1, <3>1, <3>2 DEF Suits
    <3>4. \A e : (e.pc = "setwidth" \/ e.pc = "register") /\ e.end = "none" => Suits(e, card, host')
      BY <3>2, <3>3, FreshSuits
    <3>5. QED
      BY <1>5, <2>1, <2>2, <3>1, <3>4
  <2>5. QED
    BY <2>3, <2>4
<1>10. CASE SetWidth
  <2>1. PICK r \in Results :
          /\ Returns("setwidth", r) /\ Rest
          /\ \/ GiveUp
             \/ r = "ok" /\ Proceed("status", TRUE) /\ host' = [host EXCEPT !.wide = TRUE]
    BY <1>10 DEF SetWidth
  <2>2. "setwidth" \in Tuning
    BY DEF Tuning
  <2>3. CASE End
    BY <1>6, <2>1, <2>2, <2>3
  <2>4. CASE ~End
    <3>1. r = "ok" /\ Next1("status") /\ host' = [host EXCEPT !.wide = TRUE]
      BY <1>2, <1>4, <2>1, <2>4
    <3>2. host \in [wide : BOOLEAN, clock : {"off", "init", "default", "fast"}]
      BY StepTypes
    <3>3. host'.wide = TRUE /\ host'.clock = host.clock
      BY <3>1, <3>2
    <3>4. host'.clock = "default" /\ (card.known => card.wide = TRUE /\ card.hs = FALSE)
      BY <1>1, <2>1, <3>1, <3>3 DEF Suits
    <3>5. \A e : e.pc = "status" /\ e.end = "none" => Suits(e, card, host')
      BY <3>3, <3>4, FreshSuits
    <3>6. QED
      BY <1>5, <2>1, <2>2, <3>1, <3>5
  <2>5. QED
    BY <2>3, <2>4
<1>11. CASE ValidateWidth
  <2>1. PICK r \in Results : /\ Returns("status", r) /\ Rest /\ UNCHANGED host
                             /\ Next1("hscheck") \/ End
    BY <1>2, <1>4, <1>11 DEF ValidateWidth
  <2>2. /\ host'.wide = TRUE /\ host'.clock = "default"
        /\ card.known => card.wide = TRUE /\ card.hs = FALSE
    BY <1>1, <2>1 DEF Suits
  <2>3. \A e : e.pc = "hscheck" /\ e.end = "none" => Suits(e, card, host')
    BY <2>2, FreshSuits
  <2>4. "status" \in Tuning
    BY DEF Tuning
  <2>5. QED
    BY <1>5, <1>6, <2>1, <2>3, <2>4
<1>12. CASE CheckHighSpeed
  <2>1. PICK r \in Results : /\ Returns("hscheck", r) /\ Rest /\ UNCHANGED host
                             /\ Next1("hsset") \/ Next1("register")
    BY <1>2, <1>3, <1>12 DEF CheckHighSpeed
  <2>2. host'.wide = TRUE /\ host'.clock = "default" /\ (card.known => card.wide = TRUE)
    BY <1>1, <2>1 DEF Suits
  <2>3. \A e : (e.pc = "hsset" \/ e.pc = "register") /\ e.end = "none" => Suits(e, card, host')
    BY <2>2, FreshSuits
  <2>4. "hscheck" \in Tuning
    BY DEF Tuning
  <2>5. QED
    BY <1>5, <2>1, <2>3, <2>4
<1>13. CASE SetHighSpeed
  <2>1. PICK r \in Results :
          /\ Returns("hsset", r) /\ Rest
          /\ \/ Next1("register") /\ UNCHANGED host
             \/ /\ card.hs
                /\ \E c \in Clocks("fast") :
                     /\ sdhc_set_clock(c)
                     /\ (c = "fast" /\ Next1("prove")) \/ Next1("register")
    BY <1>2, <1>3, <1>13 DEF SetHighSpeed
  <2>2. host.wide = TRUE /\ host.clock = "default" /\ (card.known => card.wide = TRUE)
    BY <1>1, <2>1 DEF Suits
  <2>3. "hsset" \in Tuning
    BY DEF Tuning
  <2>4. CASE Next1("register") /\ UNCHANGED host
    <3>1. \A e : e.pc = "register" /\ e.end = "none" => Suits(e, card, host')
      BY <2>2, <2>4, FreshSuits
    <3>2. QED
      BY <1>5, <2>1, <2>3, <2>4, <3>1
  <2>5. CASE /\ card.hs
             /\ \E c \in Clocks("fast") :
                  /\ sdhc_set_clock(c)
                  /\ (c = "fast" /\ Next1("prove")) \/ Next1("register")
    <3>0. PICK c \in Clocks("fast") :
            /\ sdhc_set_clock(c)
            /\ (c = "fast" /\ Next1("prove")) \/ Next1("register")
      BY <2>5
    <3>1. host'.clock = c /\ c \in {"fast", "off"} /\ host'.wide = TRUE
      BY <2>2, <3>0, ClockIs
    <3>2. card.hs = TRUE
      BY <1>1, <2>1, <2>5
    <3>3. \A e : ((e.pc = "prove" /\ c = "fast") \/ e.pc = "register") /\ e.end = "none"
                   => Suits(e, card, host')
      BY <2>2, <3>1, <3>2, FreshSuits
    <3>4. QED
      BY <1>5, <2>1, <2>3, <3>0, <3>3
  <2>6. QED
    BY <2>1, <2>4, <2>5
<1>14. CASE ProveHighSpeed
  <2>1. PICK r \in Results :
          /\ Returns("prove", r) /\ Rest /\ Next1("register")
          /\ UNCHANGED host \/ \E c \in Clocks("default") : sdhc_set_clock(c)
    BY <1>3, <1>14 DEF ProveHighSpeed
  <2>2. /\ host.wide = TRUE /\ host.clock = "fast"
        /\ card.known => card.wide = TRUE /\ card.hs = TRUE
    BY <1>1, <2>1 DEF Suits
  <2>3. host'.clock \in {"default", "fast", "off"} /\ host'.wide = TRUE
    BY <2>1, <2>2, ClockIs
  <2>4. \A e : e.pc = "register" /\ e.end = "none" => Suits(e, card, host')
    BY <2>2, <2>3, FreshSuits
  <2>5. "prove" \in Tuning
    BY DEF Tuning
  <2>6. QED
    BY <1>5, <2>1, <2>4, <2>5
<1>15. QED
  BY <1>7, <1>8, <1>9, <1>10, <1>11, <1>12, <1>13, <1>14

LEMMA ResetTuned ==
  ASSUME SdInv, Tuned, Reset
  PROVE  Tuned'
<1>1. Running /\ Top.pc = "reset" /\ UNCHANGED driver
  BY DEF Reset
<1>2. /\ Slot /\ Shaped /\ Top = stack[Len(stack)] /\ Top \in Frame /\ Len(stack) \in DOMAIN stack
      /\ stack \in Seq(Frame) /\ stack # <<>>
  BY <1>1, RunningIs
<1>3. ~bdev'
  BY <1>1, <1>2 DEF Slot, Bringing, driver
<1>4. PICK c \in Clocks("init"), frames \in Seq(Frame), pc \in {"appcmd", "watch"} :
        ResetOf(c, frames, pc)
  BY ResetIs
<1>5. DOMAIN stack' = DOMAIN frames /\ \A i \in DOMAIN stack' : stack'[i].pc = frames[i].pc
  BY <1>4, CutIs DEF ResetOf
<1>6. host'.wide = FALSE /\ host'.clock = c /\ c \in {"init", "off"}
  BY <1>4 DEF ResetOf, sdhc_reset, Clocks
<1> DEFINE e == Call(Top.fn, pc)
<1>7. e.pc = pc
  BY CallPc
<1> HIDE DEF e
<1>8. /\ DOMAIN frames \subseteq DOMAIN stack
      /\ \A i \in DOMAIN frames : i # Len(stack) => frames[i] = stack[i]
      /\ Len(stack) \in DOMAIN frames
           => frames[Len(stack)] = e /\ (pc = "appcmd" => c # "off")
  BY <1>4 DEF ResetOf, e
<1>9. ASSUME NEW i \in DOMAIN stack'
      PROVE  Suits(stack'[i], card', host')
  <2>1. CASE i = Len(stack)
    <3>1. stack'[i].pc = pc /\ (pc = "appcmd" => c # "off")
      BY <1>5, <1>7, <1>8, <2>1
    <3>2. QED
      BY <1>6, <3>1 DEF Suits
  <2>2. CASE i # Len(stack)
    <3>1. stack'[i].pc \notin Tuning
      BY <1>2, <1>5, <1>8, <2>2, OnlyTop
    <3>2. QED
      BY <3>1 DEF Suits, Tuning
  <2>3. QED
    BY <2>1, <2>2
<1>10. QED
  BY <1>3, <1>9 DEF Tuned, RegisteredFits

LEMMA RegisterTuned ==
  ASSUME SdInv, Tuned, Register
  PROVE  Tuned'
<1> DEFINE e == Call(Top.fn, "registered")
<1>1. /\ Running /\ Top.pc = "register" /\ stack' = [stack EXCEPT ![Len(stack)] = e]
      /\ UNCHANGED <<card, host>>
  BY DEF Register, Goto, Me, hardware
<1>2. /\ Slot /\ Top = stack[Len(stack)] /\ Len(stack) \in DOMAIN stack /\ halted = "no"
  BY <1>1, RunningIs
<1>3. /\ host.clock \in {"default", "fast", "off"}
      /\ card.known => host.wide = card.wide /\ (host.clock = "fast" => card.hs)
  <2>1. Suits(Top, card, host)
    BY <1>2 DEF Tuned
  <2>2. QED
    BY <1>1, <2>1 DEF Suits
<1>4. e.pc \notin Tuning
  BY CallPc DEF Tuning
<1> HIDE DEF e
<1>5. Alike(Tuning)
  BY <1>1, <1>2, <1>4, AlikeGoto
<1>6. RegisteredFits'
  BY <1>1, <1>3 DEF RegisteredFits
<1>7. ASSUME NEW i \in DOMAIN stack'
      PROVE  Suits(stack'[i], card', host')
  <2>1. stack' [i].pc \in Tuning => i \in DOMAIN stack /\ i = Len(stack)
    BY <1>2, <1>5, OnlyTop DEF Alike
  <2>2. stack'[Len(stack)] = e
    BY <1>1, <1>2
  <2>3. stack'[i].pc \notin Tuning
    BY <1>4, <2>1, <2>2
  <2>4. QED
    BY <2>3 DEF Suits, Tuning
<1>8. QED
  BY <1>6, <1>7 DEF Tuned

LEMMA GoneTuned ==
  ASSUME SdInv, Tuned, Gone
  PROVE  Tuned'
<1>1. Running /\ UNCHANGED <<card, host, bdev>>
  BY DEF Gone, hardware
<1>2. Len(stack) \in DOMAIN stack /\ halted = "no" /\ stack \in Seq(Frame) /\ stack # <<>>
  BY <1>1, RunningIs
<1>3. Alike(Tuning)
  <2>1. CASE card.in
    BY <1>2, <2>1, AlikePop DEF Gone, Return
  <2>2. CASE ~card.in
    <3> DEFINE e == Call(Top.fn, "unregister")
    <3>1. stack' = [stack EXCEPT ![Len(stack)] = e] /\ e.pc \notin Tuning
      BY <2>2, CallPc DEF Gone, Goto, Me, Tuning
    <3> HIDE DEF e
    <3>2. QED
      BY <1>2, <3>1, AlikeGoto
  <2>3. QED
    BY <2>1, <2>2
<1>4. QED
  BY <1>1, <1>2, <1>3, AlikeTuned

LEMMA UnregisterTuned ==
  ASSUME SdInv, Tuned, Unregister
  PROVE  Tuned'
<1> DEFINE frames == Front(stack)
<1>1. Running /\ Top.pc = "unregister" /\ bdev' = FALSE
  BY DEF Unregister
<1>0. PICK c \in Clocks("init") : sdhc_reset(c, frames)
  BY DEF Unregister
<1>2. /\ Slot /\ stack \in Seq(Frame) /\ stack # <<>> /\ Len(stack) \in DOMAIN stack
  BY <1>1, RunningIs
<1>3. /\ frames \in Seq(Frame)
      /\ \A i \in DOMAIN frames : i \in DOMAIN stack /\ i # Len(stack) /\ frames[i] = stack[i]
  BY <1>2, PopTop
<1> HIDE DEF frames
<1>4. DOMAIN stack' = DOMAIN frames /\ \A i \in DOMAIN stack' : stack'[i].pc = frames[i].pc
  BY <1>0, <1>3, CutIs
<1>5. \A i \in DOMAIN stack' : stack'[i].pc \notin Tuning
  BY <1>2, <1>3, <1>4, OnlyTop
<1>6. QED
  BY <1>1, <1>5, NoneTuned DEF Tuned

LEMMA HandoverTuned ==
  ASSUME SdInv, Tuned, Handover
  PROVE  Tuned'
<1>1. UNCHANGED <<card, host>> /\ (bdev' => bdev) /\ halted' # "no"
  BY DEF Handover
<1>2. QED
  BY <1>1 DEF Tuned, RegisteredFits

\* What the card does as it is told suits the step that told it.
LEMMA ToldSuits ==
  ASSUME TypeOK, NEW f, NEW e, e.pc = f.pc, Suits(f, card, host), NEW c \in Told(f.pc)
  PROVE  Suits(e, c, host) /\ (c = card \/ f.pc \in Tuning)
<1>1. card \in [in : BOOLEAN, known : BOOLEAN, wide : BOOLEAN, hs : BOOLEAN]
  BY Types
<1>2. CASE f.pc = "identify"
  <2>1. c = [in |-> TRUE, known |-> TRUE, wide |-> FALSE, hs |-> FALSE]
    BY <1>2 DEF Told
  <2>2. c.wide = FALSE /\ c.hs = FALSE
    BY <2>1
  <2>3. QED
    BY <1>2, <2>2 DEF Suits, Tuning
<1>3. CASE f.pc = "setwidth"
  <2>1. c = [card EXCEPT !.wide = TRUE]
    BY <1>3 DEF Told
  <2>2. c.wide = TRUE /\ c.hs = card.hs /\ c.known = card.known
    BY <1>1, <2>1
  <2>3. QED
    BY <1>3, <2>2 DEF Suits, Tuning
<1>4. CASE f.pc = "hsset"
  <2>1. PICK hs \in BOOLEAN : c = [card EXCEPT !.hs = hs]
    BY <1>4 DEF Told
  <2>2. c.wide = card.wide /\ c.known = card.known
    BY <1>1, <2>1
  <2>3. QED
    BY <1>4, <2>2 DEF Suits, Tuning
<1>5. CASE f.pc \notin {"identify", "setwidth", "hsset"}
  <2>1. c = card
    BY <1>5 DEF Told
  <2>2. QED
    BY <1>5, <2>1 DEF Suits
<1>6. QED
  BY <1>2, <1>3, <1>4, <1>5

LEMMA EndTuned ==
  ASSUME SdInv, halted = "no", Tuned, wire.by # 0, NEW end \in {"good", "bad"},
         stack' = [stack EXCEPT ![wire.by].end = end],
         card' \in Told(stack[wire.by].pc) \/ (card' = card /\ end = "bad"),
         UNCHANGED <<host, bdev>>
  PROVE  Tuned'
<1> DEFINE n == wire.by
           f == stack[n]
           e == [f EXCEPT !.end = end]
<1>1. /\ n \in DOMAIN stack /\ e.pc = f.pc /\ e.end = end
  BY WireIs DEF SdInv
<1>2. stack' = [stack EXCEPT ![n] = e]
  OBVIOUS
<1> HIDE DEF e, n
<1>3. /\ DOMAIN stack' = DOMAIN stack /\ stack'[n] = e
      /\ \A i \in DOMAIN stack : i # n => stack'[i] = stack[i]
  BY <1>1, <1>2
<1>4. Suits(f, card, host) /\ TypeOK /\ Slot
  BY <1>1 DEF Tuned, SdInv, Going
<1>5. Suits(e, card', host) /\ (card' = card \/ f.pc \in Tuning)
  <2>1. CASE card' \in Told(f.pc)
    BY <1>1, <1>4, <2>1, ToldSuits
  <2>2. CASE card' = card /\ end = "bad"
    BY <1>1, <1>4, <2>2 DEF Suits
  <2>3. QED
    BY <2>1, <2>2 DEF n
<1>6. ASSUME NEW i \in DOMAIN stack', i # n
      PROVE  Suits(stack'[i], card', host)
  <2>1. stack'[i] = stack[i] /\ i \in DOMAIN stack
    BY <1>3, <1>6
  <2>2. CASE card' = card
    BY <2>1, <2>2 DEF Tuned
  <2>3. CASE f.pc \in Tuning
    <3>1. stack[i].pc \notin Tuning
      BY <1>1, <1>4, <1>6, <2>1, <2>3, OnlyTop
    <3>2. QED
      BY <2>1, <3>1 DEF Suits, Tuning
  <2>4. QED
    BY <1>5, <2>2, <2>3
<1>7. RegisteredFits'
  <2>1. f.pc \in Tuning => ~bdev
    BY <1>1, <1>4, OnlyTop
  <2>2. QED
    BY <1>5, <2>1 DEF Tuned, RegisteredFits
<1>8. QED
  BY <1>3, <1>5, <1>6, <1>7 DEF Tuned

LEMMA FinishTuned ==
  ASSUME SdInv, Tuned, Finish
  PROVE  Tuned'
<1>1. halted = "no" /\ wire.by # 0 /\ UNCHANGED <<host, bdev>>
  BY DEF Finish, driver
<1>2. CASE UNCHANGED <<card, stack>>
  <2>1. Alike(Tuning)
    BY <1>2 DEF Alike
  <2>2. QED
    BY <1>1, <1>2, <2>1, AlikeTuned
<1>3. CASE card' \in Told(stack[wire.by].pc) /\ stack' = [stack EXCEPT ![wire.by].end = "good"]
  BY <1>1, <1>3, EndTuned
<1>4. QED
  BY <1>2, <1>3 DEF Finish

LEMMA GoWrongTuned ==
  ASSUME SdInv, Tuned, GoWrong
  PROVE  Tuned'
<1>1. /\ halted = "no" /\ wire.by # 0 /\ UNCHANGED <<host, bdev>>
      /\ stack' = [stack EXCEPT ![wire.by].end = "bad"]
      /\ card' = card \/ card' \in Told(stack[wire.by].pc)
  BY DEF GoWrong, driver
<1>2. QED
  BY <1>1, EndTuned

LEMMA MoveCardTuned ==
  ASSUME SdInv, Tuned, MoveCard
  PROVE  Tuned'
<1>1. halted = "no" /\ UNCHANGED <<host, bdev>> /\ card' = [NoCard EXCEPT !.in = ~card.in]
  BY DEF MoveCard, driver
<1>2. ~card'.known
  BY <1>1 DEF NoCard
<1>3. \A i \in DOMAIN stack' : i \in DOMAIN stack /\ stack'[i].pc = stack[i].pc
  <2>1. CASE wire.by = 0
    BY <2>1 DEF MoveCard
  <2>2. CASE wire.by # 0
    <3>1. UNCHANGED <<latch, irqOn, host, list, driver, flaky>>
          /\ stack' = [stack EXCEPT ![wire.by].end = "bad"]
      BY <2>2 DEF MoveCard
    <3>2. QED
      BY <1>1, <2>2, <3>1, EndedIs
  <2>3. QED
    BY <2>1, <2>2
<1>4. ASSUME NEW i \in DOMAIN stack'
      PROVE  Suits(stack'[i], card', host)
  <2>1. Suits(stack[i], card, host) /\ stack'[i].pc = stack[i].pc
    BY <1>1, <1>3 DEF Tuned
  <2>2. QED
    BY <1>2, <2>1 DEF Suits
<1>5. QED
  BY <1>1, <1>2, <1>4 DEF Tuned, RegisteredFits

LEMMA TunedKept == SdInv /\ Tuned /\ [Next]_vars => Tuned'
<1> SUFFICES ASSUME SdInv, Tuned, [Next]_vars PROVE Tuned'
  OBVIOUS
<1>1. CASE UNCHANGED vars
  BY <1>1 DEF vars, hardware, driver, Tuned, RegisteredFits
<1>2. CASE Submit \/ Wait \/ Poll \/ sdmmcIRQ \/ Process \/ Look \/ Watch \/ Registered
           \/ sdmmcConnectionCheck \/ StartRead \/ mmc_block_read
  BY <1>2, QuietSteps, AlikeLess, AlikeTuned
<1>3. CASE AppCmd \/ OpCond \/ Identify \/ SetWidth \/ ValidateWidth
           \/ CheckHighSpeed \/ SetHighSpeed \/ ProveHighSpeed
  BY <1>3, BringingTuned
<1>4. CASE Reset
  BY <1>4, ResetTuned
<1>5. CASE Register
  BY <1>5, RegisterTuned
<1>6. CASE Gone
  BY <1>6, GoneTuned
<1>7. CASE Unregister
  BY <1>7, UnregisterTuned
<1>8. CASE Handover
  BY <1>8, HandoverTuned
<1>9. CASE MoveCard
  BY <1>9, MoveCardTuned
<1>10. CASE Finish
  BY <1>10, FinishTuned
<1>11. CASE GoWrong
  BY <1>11, GoWrongTuned
<1>12. QED
  BY <1>1, <1>2, <1>3, <1>4, <1>5, <1>6, <1>7, <1>8, <1>9, <1>10, <1>11 DEF Next, Step

\* mmc_card_registry and sd_switch_high_speed (mmc.c): a registered card
\* that has not been replaced is driven with the width and the timing that
\* it was told, however far the switch to high speed got, or its clock has
\* been stopped by a change that failed; and every variable keeps its type.
THEOREM CardsAreTuned == Spec => []CardKept
<1>1. Init => Tuned
  <2>1. SUFFICES ASSUME Init PROVE Tuned
    OBVIOUS
  <2>2. \A i \in DOMAIN stack : stack[i].pc \notin Tuning
    BY <2>1, CallPc DEF Init, Tuning
  <2>3. QED
    BY <2>1, <2>2 DEF Tuned, Suits, Tuning, RegisteredFits, Init
<1>2. SdInv /\ Tuned /\ [Next]_vars => Tuned'
  BY TunedKept
<1>3. SdInv /\ Tuned => CardKept
  BY DEF SdInv, Tuned, CardKept
<1>4. QED
  BY <1>1, <1>2, <1>3, SdKept, PTL DEF Spec

(***************************************************************************)
(* Nothing is left registered.  Unless there was a card without a size, a  *)
(* device is registered whenever the watch believes so, and whoever        *)
(* registers or unregisters it finds it; the driver is ready while there   *)
(* is a device, so that only the internal one can be left.                 *)
(***************************************************************************)
Sized ==
  /\ NoneLeft
  /\ halted = "no" =>
       /\ state # "notready" /\ (bdev => state = "ready")
       /\ sdmmcRegistered => bdev \/ sizeless
       /\ \A i \in DOMAIN stack :
            /\ stack[i].pc = "register" => state = "ready"
            /\ stack[i].pc \in {"registered", "unregister"} => bdev \/ sizeless

LEMMA AlikeSized ==
  ASSUME Sized, halted = "no", Alike(Placed), UNCHANGED <<bdev, state, halted, sizeless>>,
         sdmmcRegistered' => bdev \/ sizeless
  PROVE  Sized'
<1>1. ASSUME NEW i \in DOMAIN stack'
      PROVE  /\ stack'[i].pc = "register" => state = "ready"
             /\ stack'[i].pc \in {"registered", "unregister"} => bdev \/ sizeless
  <2>1. CASE stack'[i].pc \notin Placed
    BY <2>1 DEF Placed, Tuning
  <2>2. CASE stack'[i].pc \in Placed
    BY <2>2 DEF Alike, Sized
  <2>3. QED
    BY <2>1, <2>2
<1>2. QED
  BY <1>1 DEF Sized, NoneLeft

\* The last call is replaced, and the device, if it has changed, is the one
\* this call is about.
LEMMA TopSized ==
  ASSUME Sized, halted = "no", Shaped, Slot, TypeOK, Len(stack) \in DOMAIN stack,
         NEW e, stack' = [stack EXCEPT ![Len(stack)] = e], stack[Len(stack)].fn # "read",
         UNCHANGED halted, sizeless => sizeless', sdmmcRegistered' => bdev' \/ sizeless',
         bdev' => state' = "ready", state' # "notready",
         e.pc = "register" => state' = "ready",
         e.pc \in {"registered", "unregister"} => bdev' \/ sizeless'
  PROVE  Sized'
<1>1. /\ DOMAIN stack' = DOMAIN stack /\ stack'[Len(stack)] = e
      /\ \A i \in DOMAIN stack : i # Len(stack) => stack'[i] = stack[i]
  OBVIOUS
<1>2. \A i \in DOMAIN stack : i # Len(stack) => stack'[i].pc = "read"
  BY <1>1, OthersRead
<1>3. QED
  BY <1>1, <1>2 DEF Sized, NoneLeft

LEMMA BringingSized ==
  ASSUME SdInv, Sized,
         AppCmd \/ OpCond \/ Identify \/ SetWidth \/ ValidateWidth
         \/ CheckHighSpeed \/ SetHighSpeed \/ ProveHighSpeed
  PROVE  Sized'
<1>1. PICK pc \in Bringing, r \in Results : Returns(pc, r)
  BY DEF AppCmd, OpCond, Identify, SetWidth, ValidateWidth, CheckHighSpeed, SetHighSpeed,
         ProveHighSpeed, Bringing, Commands
<1>2. Running /\ Top.pc = pc
  BY <1>1 DEF Returns
<1>3. /\ halted = "no" /\ Slot /\ Shaped /\ TypeOK /\ Top = stack[Len(stack)]
      /\ Len(stack) \in DOMAIN stack /\ stack \in Seq(Frame) /\ stack # <<>>
  BY <1>2, RunningIs
<1>4. ~bdev /\ ~sdmmcRegistered /\ Top.fn # "read"
  <2>1. Top.pc # "read"
    BY <1>2 DEF Bringing
  <2>2. QED
    BY <1>2, <1>3, <2>1 DEF Slot, Shaped
<1>5. UNCHANGED <<bdev, emmc, sdmmcRegistered, halted, sizeless>>
  BY DEF AppCmd, OpCond, Identify, SetWidth, ValidateWidth, CheckHighSpeed, SetHighSpeed,
         ProveHighSpeed
<1>0. state # "notready"
  BY <1>3 DEF Sized
<1>6. GiveUp \/ Done \/ \E to \in Commands : \E sd : Proceed(to, sd)
  BY DEF AppCmd, OpCond, Identify, SetWidth, ValidateWidth, CheckHighSpeed, SetHighSpeed,
         ProveHighSpeed, Commands
<1>7. CASE GiveUp
  <2>1. \A i \in DOMAIN stack' : stack'[i].pc \notin {"register", "registered", "unregister"}
    <3>1. \A i \in DOMAIN stack : i # Len(stack) => stack[i].pc = "read"
      BY <1>3, <1>4, OthersRead
    <3>2. CASE Top.fn = "init"
      <4> DEFINE e == Call(Top.fn, "watch")
      <4>1. stack' = [stack EXCEPT ![Len(stack)] = e] /\ e.pc = "watch"
        BY <1>7, <3>2, CallPc DEF GiveUp, End, Ended, Me
      <4> HIDE DEF e
      <4>2. /\ DOMAIN stack' = DOMAIN stack /\ stack'[Len(stack)] = e
            /\ \A i \in DOMAIN stack : i # Len(stack) => stack'[i] = stack[i]
        BY <1>3, <4>1
      <4>3. QED
        BY <3>1, <4>1, <4>2
    <3>3. CASE Top.fn # "init"
      <4>1. stack' = Front(stack)
        BY <1>7, <3>3 DEF GiveUp, End, Ended
      <4>2. QED
        BY <1>3, <3>1, <4>1, PopTop
    <3>4. QED
      BY <3>2, <3>3
  <2>2. state' = state
    BY <1>7 DEF GiveUp
  <2>3. QED
    BY <1>3, <1>4, <1>5, <2>1, <2>2 DEF Sized, NoneLeft
<1>8. CASE Done
  <2>1. PICK e : stack' = [stack EXCEPT ![Len(stack)] = e] /\ e.pc = "register"
    BY <1>8, DoneIs DEF Me
  <2>2. state' = "ready"
    BY <1>8 DEF Done
  <2>3. QED
    BY <1>3, <1>4, <1>5, <2>1, <2>2, TopSized
<1>9. CASE \E to \in Commands : \E sd : Proceed(to, sd)
  <2>1. PICK to \in Commands : \E sd : Proceed(to, sd)
    BY <1>9
  <2>2. PICK e : stack' = [stack EXCEPT ![Len(stack)] = e] /\ e.pc = to
    BY <2>1, ProceedIs DEF Me
  <2>3. e.pc \notin {"register", "registered", "unregister"}
    BY <2>2 DEF Commands
  <2>4. state' = state
    BY <2>1 DEF Proceed
  <2>5. QED
    BY <1>0, <1>3, <1>4, <1>5, <2>2, <2>3, <2>4, TopSized
<1>10. QED
  BY <1>6, <1>7, <1>8, <1>9

LEMMA ResetSized ==
  ASSUME SdInv, Sized, Reset
  PROVE  Sized'
<1>1. Running /\ Top.pc = "reset" /\ UNCHANGED driver
  BY DEF Reset
<1>2. halted = "no" /\ Len(stack) \in DOMAIN stack
  BY <1>1, RunningIs
<1>3. PICK c \in Clocks("init"), frames \in Seq(Frame), pc \in {"appcmd", "watch"} :
        ResetOf(c, frames, pc)
  BY ResetIs
<1>4. DOMAIN stack' = DOMAIN frames /\ \A i \in DOMAIN stack' : stack'[i].pc = frames[i].pc
  BY <1>3, CutIs DEF ResetOf
<1> DEFINE e == Call(Top.fn, pc)
<1>5. e.pc = pc
  BY CallPc
<1> HIDE DEF e
<1>6. /\ DOMAIN frames \subseteq DOMAIN stack
      /\ \A i \in DOMAIN frames : i # Len(stack) => frames[i] = stack[i]
      /\ Len(stack) \in DOMAIN frames => frames[Len(stack)] = e
  BY <1>3 DEF ResetOf, e
<1>7. \A i \in DOMAIN stack' :
        stack'[i].pc \in {"appcmd", "watch"} \/ (i \in DOMAIN stack /\ stack'[i].pc = stack[i].pc)
  BY <1>4, <1>5, <1>6
<1>8. UNCHANGED <<bdev, emmc, sdmmcRegistered, state, halted, sizeless>>
  BY <1>1 DEF driver
<1>9. QED
  BY <1>2, <1>7, <1>8 DEF Sized, NoneLeft

LEMMA RegisterSized ==
  ASSUME SdInv, Sized, Register
  PROVE  Sized'
<1> DEFINE e == Call(Top.fn, "registered")
<1>1. /\ Running /\ Top.pc = "register" /\ stack' = [stack EXCEPT ![Len(stack)] = e]
      /\ sizeless' = (sizeless \/ ~bdev')
      /\ UNCHANGED <<emmc, sdmmcRegistered, state, halted>>
  BY DEF Register, Goto, Me
<1>2. /\ halted = "no" /\ Slot /\ Shaped /\ TypeOK /\ Top = stack[Len(stack)]
      /\ Len(stack) \in DOMAIN stack
  BY <1>1, RunningIs
<1>3. state = "ready" /\ Top.fn # "read"
  BY <1>1, <1>2 DEF Sized, Shaped
<1>4. e.pc = "registered"
  BY CallPc
<1>5. bdev' \/ sizeless'
  BY <1>1
<1>6. sizeless => sizeless'
  BY <1>1
<1> HIDE DEF e
<1>7. QED
  BY <1>1, <1>2, <1>3, <1>4, <1>5, <1>6, TopSized

LEMMA GoneSized ==
  ASSUME SdInv, Sized, Gone
  PROVE  Sized'
<1>1. Running /\ Top.pc = "gone" /\ UNCHANGED <<bdev, emmc, state, halted, sizeless>>
  BY DEF Gone
<1>2. /\ halted = "no" /\ Slot /\ Shaped /\ TypeOK /\ Top = stack[Len(stack)]
      /\ Len(stack) \in DOMAIN stack /\ stack \in Seq(Frame) /\ stack # <<>>
  BY <1>1, RunningIs
<1>3. /\ sdmmcRegistered
      /\ bdev \/ sizeless
      /\ state # "notready" /\ (bdev => state = "ready") /\ Top.fn # "read"
  BY <1>1, <1>2 DEF Slot, Sized, Shaped
<1>4. CASE card.in
  <2>1. stack' = Front(stack) /\ UNCHANGED sdmmcRegistered
    BY <1>4 DEF Gone, Return
  <2>2. Alike(Placed)
    BY <1>2, <2>1, AlikePop
  <2>3. QED
    BY <1>1, <1>2, <1>3, <2>1, <2>2, AlikeSized DEF Sized
<1>5. CASE ~card.in
  <2> DEFINE e == Call(Top.fn, "unregister")
  <2>1. stack' = [stack EXCEPT ![Len(stack)] = e] /\ sdmmcRegistered' = FALSE
    BY <1>5 DEF Gone, Goto, Me
  <2>2. e.pc = "unregister"
    BY CallPc
  <2> HIDE DEF e
  <2>3. QED
    BY <1>1, <1>2, <1>3, <2>1, <2>2, TopSized
<1>6. QED
  BY <1>4, <1>5

LEMMA UnregisterSized ==
  ASSUME SdInv, Sized, Unregister
  PROVE  Sized'
<1> DEFINE frames == Front(stack)
<1>1. /\ Running /\ Top.pc = "unregister" /\ bdev' = FALSE /\ state' = "nohardware"
      /\ halted' = IF bdev THEN "no" ELSE "missing"
      /\ UNCHANGED <<emmc, sdmmcRegistered, sizeless>>
  BY DEF Unregister
<1>0. PICK c \in Clocks("init") : sdhc_reset(c, frames)
  BY DEF Unregister
<1>2. /\ halted = "no" /\ Slot /\ Shaped /\ TypeOK /\ Top = stack[Len(stack)]
      /\ Len(stack) \in DOMAIN stack /\ stack \in Seq(Frame) /\ stack # <<>>
  BY <1>1, RunningIs
<1>3. (bdev \/ sizeless) /\ ~sdmmcRegistered /\ Top.fn # "read"
  BY <1>1, <1>2 DEF Slot, Sized, Shaped
<1>4. /\ frames \in Seq(Frame)
      /\ \A i \in DOMAIN frames : i \in DOMAIN stack /\ i # Len(stack) /\ frames[i] = stack[i]
  BY <1>2, PopTop
<1> HIDE DEF frames
<1>5. DOMAIN stack' = DOMAIN frames /\ \A i \in DOMAIN stack' : stack'[i].pc = frames[i].pc
  BY <1>0, <1>4, CutIs
<1>6. \A i \in DOMAIN stack' : stack'[i].pc = "read"
  BY <1>2, <1>3, <1>4, <1>5, OthersRead
<1>7. QED
  BY <1>1, <1>2, <1>3, <1>6 DEF Sized, NoneLeft

LEMMA HandoverSized ==
  ASSUME SdInv, Sized, Handover
  PROVE  Sized'
<1> DEFINE clean == state = "ready"
           sd == bdev /\ ~(clean /\ sdmmcRegistered)
           other == emmc /\ ~clean
<1>1. halted = "no"
  BY DEF Handover, Open
<1>2. /\ Shaped /\ Slot /\ TypeOK /\ state \in {"ready", "nohardware"}
      /\ (bdev => state = "ready") /\ (sdmmcRegistered => bdev \/ sizeless)
  <2>1. Shaped /\ Slot /\ TypeOK
    BY <1>1 DEF SdInv, Going
  <2>2. state \in {"ready", "nohardware", "notready"}
    BY <2>1, Types
  <2>3. QED
    BY <1>1, <2>1, <2>2 DEF Sized
<1>3. bdev => sdmmcRegistered
  <2>1. \A i \in DOMAIN stack : stack[i].pc \notin {"registered", "unregister"}
    BY DEF Handover, Registering
  <2>2. QED
    BY <1>2, <2>1, ToldOf
<1>4. ~sd
  BY <1>2, <1>3
<1>5. /\ bdev' = sd /\ emmc' = other /\ UNCHANGED sizeless
      /\ halted' = IF clean /\ sdmmcRegistered /\ ~bdev THEN "missing"
                   ELSE IF sd \/ other THEN "left" ELSE "handover"
      /\ state' = IF clean THEN "notready" ELSE state
  BY DEF Handover
<1>6. halted' = "missing" => sizeless'
  BY <1>2, <1>5
<1>7. halted' = "left" => emmc' /\ ~bdev' /\ state' = "nohardware"
  BY <1>2, <1>4, <1>5
<1>8. halted' # "no"
  BY <1>5
<1>9. QED
  BY <1>6, <1>7, <1>8 DEF Sized, NoneLeft

\* The hardware does not touch the driver, or move a call on.
LEMMA HardwareSized ==
  ASSUME SdInv, Sized, MoveCard \/ Finish \/ GoWrong
  PROVE  Sized'
<1>1. halted = "no" /\ UNCHANGED <<latch, irqOn, host, list, driver, flaky>>
      /\ UNCHANGED <<bdev, emmc, sdmmcRegistered, state, halted, sizeless>>
  BY DEF MoveCard, Finish, GoWrong, driver
<1>2. \/ stack' = stack
      \/ /\ wire.by # 0
         /\ \E end \in {"good", "bad"} : stack' = [stack EXCEPT ![wire.by].end = end]
  BY DEF MoveCard, Finish, GoWrong
<1>3. \A i \in DOMAIN stack' : i \in DOMAIN stack /\ stack'[i].pc = stack[i].pc
  <2>1. CASE stack' = stack
    BY <2>1
  <2>2. CASE /\ wire.by # 0
             /\ \E end \in {"good", "bad"} : stack' = [stack EXCEPT ![wire.by].end = end]
    BY <1>1, <2>2, EndedIs
  <2>3. QED
    BY <1>2, <2>1, <2>2
<1>4. QED
  BY <1>1, <1>3 DEF Sized, NoneLeft

LEMMA SizedKept == SdInv /\ Sized /\ [Next]_vars => Sized'
<1> SUFFICES ASSUME SdInv, Sized, [Next]_vars PROVE Sized'
  OBVIOUS
<1>1. CASE UNCHANGED vars
  BY <1>1 DEF vars, driver, Sized, NoneLeft
<1>2. CASE Submit \/ Wait \/ Poll \/ sdmmcIRQ \/ Process \/ Look \/ Watch \/ Registered
           \/ sdmmcConnectionCheck \/ StartRead \/ mmc_block_read
  <2>1. halted = "no" /\ Alike(Placed) /\ UNCHANGED <<bdev, state, halted>>
    BY <1>2, QuietSteps
  <2>2. sdmmcRegistered => bdev \/ sizeless
    BY <2>1 DEF Sized
  <2>3. sizeless' = sizeless
    BY <1>2 DEF Submit, Wait, Poll, sdmmcIRQ, Process, Look, Watch, Registered,
                sdmmcConnectionCheck, StartRead, mmc_block_read, driver
  <2>4. sdmmcRegistered' => bdev \/ sizeless
    <3>1. CASE Registered
      <4>1. Running /\ Top.pc = "registered"
        BY <3>1 DEF Registered
      <4>2. Top = stack[Len(stack)] /\ Len(stack) \in DOMAIN stack
        BY <4>1, RunningIs
      <4>3. QED
        BY <2>1, <4>1, <4>2 DEF Sized
    <3>2. CASE ~Registered
      BY <1>2, <2>2, <3>2 DEF Submit, Wait, Poll, sdmmcIRQ, Process, Look, Watch,
                              sdmmcConnectionCheck, StartRead, mmc_block_read, driver
    <3>3. QED
      BY <3>1, <3>2
  <2>5. QED
    BY <2>1, <2>3, <2>4, AlikeSized
<1>3. CASE AppCmd \/ OpCond \/ Identify \/ SetWidth \/ ValidateWidth
           \/ CheckHighSpeed \/ SetHighSpeed \/ ProveHighSpeed
  BY <1>3, BringingSized
<1>4. CASE Reset
  BY <1>4, ResetSized
<1>5. CASE Register
  BY <1>5, RegisterSized
<1>6. CASE Gone
  BY <1>6, GoneSized
<1>7. CASE Unregister
  BY <1>7, UnregisterSized
<1>8. CASE Handover
  BY <1>8, HandoverSized
<1>9. CASE MoveCard \/ Finish \/ GoWrong
  BY <1>9, HardwareSized
<1>10. QED
  BY <1>1, <1>2, <1>3, <1>4, <1>5, <1>6, <1>7, <1>8, <1>9 DEF Next, Step

\* B_Shutdown and B_Unregister (block.c): whenever the card is moved and
\* whatever commands fail, a boot finds the card unregistered by
\* sdmmcCleanup, and only the internal device of a Wii U whose slot has lost
\* its card can be left; who unregisters a device finds it registered, unless
\* there was a card without a size.
THEOREM NothingIsLeft == Spec => []NoneLeft
<1>1. Init => Sized
  <2>1. SUFFICES ASSUME Init PROVE Sized
    OBVIOUS
  <2>2. \A i \in DOMAIN stack : stack[i].pc = "look"
    BY <2>1, CallPc DEF Init
  <2>3. QED
    BY <2>1, <2>2 DEF Sized, NoneLeft, Init
<1>2. SdInv /\ Sized /\ [Next]_vars => Sized'
  BY SizedKept
<1>3. Sized => NoneLeft
  BY DEF Sized
<1>4. QED
  BY <1>1, <1>2, <1>3, SdKept, PTL DEF Spec
=============================================================================

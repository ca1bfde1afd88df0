----------------------------- MODULE TimerProofs -----------------------------
(****************************************************************************)
(* Theorems about Timer for any number of events, array size, nesting depth *)
(* and caller of T_CancelRepeatingEvent.                                    *)
(****************************************************************************)
EXTENDS Timer, SequenceTheorems, FiniteSetTheorems, TLAPS

(* What the array operations return, element by element.                   *)

(* InsertAt puts one element in and moves those behind it up by one.        *)
LEMMA InsertAtElements ==
  ASSUME NEW S, NEW s \in Seq(S), NEW i \in 1..(Len(s) + 1), NEW e \in S
  PROVE  /\ InsertAt(s, i, e) \in Seq(S)
         /\ Len(InsertAt(s, i, e)) = Len(s) + 1
         /\ \A j \in 1..(Len(s) + 1) :
              InsertAt(s, i, e)[j] = IF j < i THEN s[j] ELSE IF j = i THEN e ELSE s[j - 1]
<1>0. Len(s) \in Nat /\ i \in Int
  OBVIOUS
<1> USE <1>0
<1> DEFINE a == SubSeq(s, 1, i - 1)  b == SubSeq(s, i, Len(s))
<1>1. /\ a \in Seq(S) /\ Len(a) = i - 1 /\ \A j \in 1..(i - 1) : a[j] = s[j]
      /\ b \in Seq(S) /\ Len(b) = Len(s) - i + 1
      /\ \A j \in 1..(Len(s) - i + 1) : b[j] = s[i + j - 1]
  OBVIOUS
<1> DEFINE c == <<e>>
<1>2. c \in Seq(S) /\ Len(c) = 1 /\ c[1] = e
  OBVIOUS
<1> HIDE DEF a, b, c
<1>3. /\ a \o c \in Seq(S) /\ Len(a \o c) = i
      /\ \A j \in 1..i : (a \o c)[j] = IF j < i THEN a[j] ELSE e
  <2>1. /\ a \o c \in Seq(S) /\ Len(a \o c) = Len(a) + Len(c)
        /\ \A j \in 1..(Len(a) + Len(c)) :
             (a \o c)[j] = IF j <= Len(a) THEN a[j] ELSE c[j - Len(a)]
    BY <1>1, <1>2, ConcatProperties
  <2>2. Len(a) + Len(c) = i
    BY <1>1, <1>2
  <2>3. ASSUME NEW j \in 1..i
        PROVE  (a \o c)[j] = IF j < i THEN a[j] ELSE e
    <3>1. (a \o c)[j] = IF j <= Len(a) THEN a[j] ELSE c[j - Len(a)]
      BY <2>1, <2>2
    <3>2. CASE j < i
      BY <1>1, <3>1, <3>2
    <3>3. CASE j = i
      BY <1>1, <1>2, <3>1, <3>3
    <3>4. j \in Int /\ (j < i \/ j = i)
      BY <1>0
    <3>5. QED
      BY <3>2, <3>3, <3>4
  <2>4. QED
    BY <2>1, <2>2, <2>3
<1>4. /\ (a \o c) \o b \in Seq(S) /\ Len((a \o c) \o b) = Len(s) + 1
      /\ \A j \in 1..(Len(s) + 1) :
           ((a \o c) \o b)[j] = IF j <= i THEN (a \o c)[j] ELSE b[j - i]
  <2> DEFINE t == a \o c
  <2>2. t \in Seq(S) /\ Len(t) = i
    BY <1>3
  <2> HIDE DEF t
  <2>3. /\ t \o b \in Seq(S) /\ Len(t \o b) = Len(t) + Len(b)
        /\ \A j \in 1..(Len(t) + Len(b)) : (t \o b)[j] = IF j <= Len(t) THEN t[j] ELSE b[j - Len(t)]
    BY <1>1, <2>2, ConcatProperties
  <2>4. /\ t \o b \in Seq(S) /\ Len(t \o b) = Len(s) + 1
        /\ \A j \in 1..(Len(s) + 1) : (t \o b)[j] = IF j <= i THEN t[j] ELSE b[j - i]
    BY <1>1, <2>2, <2>3
  <2>5. QED
    BY <2>4 DEF t
<1>5. InsertAt(s, i, e) = (a \o c) \o b
  BY DEF InsertAt, a, b, c
<1>6. ASSUME NEW j \in 1..(Len(s) + 1)
      PROVE  InsertAt(s, i, e)[j] = IF j < i THEN s[j] ELSE IF j = i THEN e ELSE s[j - 1]
  <2>1. CASE j < i
    BY <1>1, <1>3, <1>4, <1>5, <2>1
  <2>2. CASE j = i
    BY <1>1, <1>3, <1>4, <1>5, <2>2
  <2>3. CASE j > i
    <3>1. InsertAt(s, i, e)[j] = b[j - i]
      <4>1. InsertAt(s, i, e)[j] = IF j <= i THEN (a \o c)[j] ELSE b[j - i]
        BY <1>4, <1>5
      <4>2. ~(j <= i)
        BY <2>3
      <4>3. QED
        BY <4>1, <4>2
    <3>2. b[j - i] = s[i + (j - i) - 1]
      BY <1>1, <2>3
    <3>3. i + (j - i) - 1 = j - 1
      OBVIOUS
    <3>4. QED
      BY <2>3, <3>1, <3>2, <3>3
  <2>4. QED
    BY <2>1, <2>2, <2>3
<1>7. QED
  BY <1>4, <1>5, <1>6

(* RemoveAt takes one element out and moves those behind it down by one.    *)
LEMMA RemoveAtElements ==
  ASSUME NEW S, NEW s \in Seq(S), NEW i \in 1..Len(s)
  PROVE  /\ RemoveAt(s, i) \in Seq(S)
         /\ Len(RemoveAt(s, i)) = Len(s) - 1
         /\ \A j \in 1..(Len(s) - 1) : RemoveAt(s, i)[j] = IF j < i THEN s[j] ELSE s[j + 1]
<1>0. Len(s) \in Nat /\ i \in Int
  OBVIOUS
<1> USE <1>0
<1> DEFINE a == SubSeq(s, 1, i - 1)  b == SubSeq(s, i + 1, Len(s))
<1>1. /\ a \in Seq(S) /\ Len(a) = i - 1 /\ \A j \in 1..(i - 1) : a[j] = s[j]
      /\ b \in Seq(S) /\ Len(b) = Len(s) - i
      /\ \A j \in 1..(Len(s) - i) : b[j] = s[i + j]
  OBVIOUS
<1> HIDE DEF a, b
<1>2. RemoveAt(s, i) = a \o b
  BY DEF RemoveAt, a, b
<1>3. /\ a \o b \in Seq(S) /\ Len(a \o b) = Len(a) + Len(b)
      /\ \A j \in 1..(Len(a) + Len(b)) : (a \o b)[j] = IF j <= Len(a) THEN a[j] ELSE b[j - Len(a)]
  BY <1>1, ConcatProperties
<1>4. ASSUME NEW j \in 1..(Len(s) - 1)
      PROVE  RemoveAt(s, i)[j] = IF j < i THEN s[j] ELSE s[j + 1]
  <2>1. CASE j < i
    BY <1>1, <1>2, <1>3, <2>1
  <2>2. CASE j >= i
    <3>1. RemoveAt(s, i)[j] = b[j - (i - 1)]
      BY <1>1, <1>2, <1>3, <2>2
    <3>2. b[j - (i - 1)] = s[i + (j - (i - 1))]
      <4>1. j - (i - 1) \in 1..(Len(s) - i)
        BY <2>2
      <4>2. \A k \in 1..(Len(s) - i) : b[k] = s[i + k]
        BY <1>1
      <4>3. QED
        BY <4>1, <4>2
    <3>3. i + (j - (i - 1)) = j + 1
      OBVIOUS
    <3>4. QED
      BY <2>2, <3>1, <3>2, <3>3
  <2>3. QED
    BY <2>1, <2>2
<1>5. Len(a) + Len(b) = Len(s) - 1
  BY <1>1
<1>6. QED
  BY <1>2, <1>3, <1>4, <1>5

(* Tail drops the first element.                                            *)
LEMMA TailElements ==
  ASSUME NEW S, NEW s \in Seq(S), s # <<>>
  PROVE  /\ Len(s) \in Nat /\ Len(s) >= 1 /\ Tail(s) \in Seq(S) /\ Len(Tail(s)) = Len(s) - 1
         /\ \A j \in 1..(Len(s) - 1) : Tail(s)[j] = s[j + 1]
  BY HeadTailProperties

(* Front drops the last element.                                            *)
LEMMA FrontElements ==
  ASSUME NEW S, NEW s \in Seq(S), s # <<>>
  PROVE  /\ Front(s) \in Seq(S) /\ Len(Front(s)) = Len(s) - 1
         /\ \A j \in 1..(Len(s) - 1) : Front(s)[j] = s[j]
<1>1. PICK n \in Nat : n = Len(s) - 1
  BY EmptySeq, LenProperties
<1>2. Front(s) = SubSeq(s, 1, n) /\ \A j \in 1..n : s[j] \in S
  BY <1>1, ElementOfSeq DEF Front
<1>3. Front(s) \in Seq(S) /\ Len(Front(s)) = IF 1 <= n THEN n - 1 + 1 ELSE 0
  BY <1>2, SubSeqProperties
<1>4. Len(Front(s)) = n
  BY <1>3
<1>5. \A j \in 1..n : j \in 1..(n - 1 + 1) /\ s[1 + j - 1] = s[j]
  OBVIOUS
<1>6. \A j \in 1..n : Front(s)[j] = s[j]
  BY <1>2, <1>5, SubSeqProperties
<1>7. QED
  BY <1>1, <1>3, <1>4, <1>6

-----------------------------------------------------------------------------
Event == [id : Ids, rem : Int]

(* A repeating event that was never registered is nowhere.                  *)
FreeOut == \A r \in Repeating : slot[r] = "free" => ~Queued(r) /\ ~Held(r)

(* The inductive invariant. *)
TimerInv == TypeOK /\ Sorted /\ OneInstance /\ FreeOut

-----------------------------------------------------------------------------
(* What the helpers of the actions do.                                      *)

LEMMA StackTop ==
  ASSUME TypeOK
  PROVE  /\ Depth \in Nat /\ Depth >= 1 /\ DOMAIN frames = 1..Depth
         /\ Top \in Frame /\ \A i \in 1..Depth : frames[i] \in Frame
<1>1. frames \in Seq(Frame) /\ frames # <<>>
  BY DEF TypeOK
<1> HIDE DEF Frame
<1>2. Len(frames) \in Nat /\ Len(frames) >= 1 /\ DOMAIN frames = 1..Len(frames)
  BY <1>1, EmptySeq, LenProperties
<1>3. \A i \in 1..Len(frames) : frames[i] \in Frame
  BY <1>1, ElementOfSeq
<1>4. QED
  BY <1>2, <1>3 DEF Depth, Top

LEMMA SetTopFrames ==
  ASSUME TypeOK, NEW f \in Frame, SetTop(f)
  PROVE  /\ frames' \in Seq(Frame) /\ frames' # <<>>
         /\ Len(frames') = Depth /\ DOMAIN frames' = 1..Depth
         /\ \A i \in 1..Depth : frames'[i] = IF i = Depth THEN f ELSE frames[i]
<1> HIDE DEF Frame
<1>1. frames \in Seq(Frame)
  BY DEF TypeOK
<1>2. Depth \in Nat /\ Depth >= 1 /\ DOMAIN frames = 1..Depth
  BY StackTop
<1>3. frames' = [frames EXCEPT ![Depth] = f]
  BY DEF SetTop
<1>4. frames' \in Seq(Frame) /\ Len(frames') = Len(frames)
  BY <1>1, <1>2, <1>3, ExceptSeq DEF Depth
<1>5. DOMAIN frames' = 1..Depth /\ \A i \in 1..Depth : frames'[i] = IF i = Depth THEN f ELSE frames[i]
  BY <1>2, <1>3
<1>6. frames' # <<>>
  BY <1>2, <1>4 DEF Depth
<1>7. QED
  BY <1>4, <1>5, <1>6 DEF Depth

LEMMA EventsSeq ==
  ASSUME TypeOK
  PROVE  /\ events \in Seq(Event) /\ Len(events) \in Nat /\ DOMAIN events = 1..Len(events)
         /\ \A i \in 1..Len(events) : events[i].id \in Ids /\ events[i].rem \in Int
<1>1. events \in Seq(Event)
  BY DEF TypeOK, Event
<1> HIDE DEF Event
<1>2. Len(events) \in Nat /\ DOMAIN events = 1..Len(events) /\ \A i \in 1..Len(events) : events[i] \in Event
  BY <1>1, LenProperties, ElementOfSeq
<1>3. QED
  BY <1>1, <1>2 DEF Event

(* Whatever programNextDEC writes, the decrementer stays in range and       *)
(* expires by the time the first event is due.                              *)
LEMMA ProgramArms ==
  ASSUME TypeOK, NEW q \in Seq(Event), programNextDEC(q)
  PROVE  /\ dec' \in 0..DEC_IDLE /\ decPending' \in BOOLEAN
         /\ q # <<>> => dec' <= q[1].rem \/ dec' <= 1
<1>1. decPending' \in BOOLEAN
  BY TimerAssumption DEF programNextDEC, mtdec, TypeOK
<1>2. q # <<>> => q[1].rem \in Int
  <2> HIDE DEF Event
  <2>1. q # <<>> => Len(q) \in Nat /\ Len(q) >= 1
    BY EmptySeq, LenProperties
  <2>2. q # <<>> => q[1] \in Event
    BY <2>1, ElementOfSeq
  <2>3. QED
    BY <2>2 DEF Event
<1>3. CASE q = <<>>
  BY <1>1, <1>3, TimerAssumption DEF programNextDEC, mtdec
<1>4. CASE q # <<>>
  <2>1. q[1].rem \in Int
    BY <1>2, <1>4
  <2>2. dec' = IF q[1].rem <= 0 THEN 1 ELSE IF q[1].rem > DEC_IDLE THEN DEC_IDLE ELSE q[1].rem
    BY <1>4 DEF programNextDEC, mtdec
  <2>3. QED
    BY <1>1, <2>1, <2>2, TimerAssumption
<1>5. QED
  BY <1>3, <1>4

(* The locked part of T_QueueEvent, given an event that is not queued.      *)
LEMMA QueueLockedAdds ==
  ASSUME TypeOK, Sorted, OneInstance, NEW id \in Ids, NEW rem \in Int, ~Queued(id),
         QueueLocked(id, rem)
  PROVE  /\ events' \in Seq(Event) /\ Sorted'
         /\ dec' \in -1..DEC_IDLE /\ decPending' \in BOOLEAN
         /\ panic' \in {"no", "overflow", "recursion"}
         /\ \A i, j \in DOMAIN events' : events'[i].id = events'[j].id => i = j
         /\ \A i \in DOMAIN events' : events'[i].id = id \/ Queued(events'[i].id)
<1> DEFINE e == [id |-> id, rem |-> rem]
<1>1. /\ events \in Seq(Event) /\ Len(events) \in Nat /\ DOMAIN events = 1..Len(events)
      /\ \A i \in 1..Len(events) : events[i].id \in Ids /\ events[i].rem \in Int
  BY EventsSeq
<1>2. e \in Event /\ e.id = id /\ e.rem = rem
  BY DEF Event
<1>3. CASE UNCHANGED <<events, dec, decPending>> /\ panic' = "overflow"
  <2>1. \A i \in DOMAIN events' : Queued(events'[i].id)
    BY <1>3 DEF Queued
  <2>2. Sorted'
    BY <1>3 DEF Sorted
  <2>3. QED
    BY <1>1, <1>3, <2>1, <2>2 DEF TypeOK, OneInstance
<1>4. ASSUME NEW k \in 1..(Len(events) + 1), IsIndex(k, rem),
             events' = InsertAt(events, k, e),
             IF eventsEnabled /\ k = 1 THEN programNextDEC(events')
                                       ELSE UNCHANGED <<dec, decPending>>,
             UNCHANGED panic
      PROVE  /\ events' \in Seq(Event) /\ Sorted'
             /\ dec' \in -1..DEC_IDLE /\ decPending' \in BOOLEAN
             /\ panic' \in {"no", "overflow", "recursion"}
             /\ \A i, j \in DOMAIN events' : events'[i].id = events'[j].id => i = j
             /\ \A i \in DOMAIN events' : events'[i].id = id \/ Queued(events'[i].id)
  <2> HIDE DEF e, Event
  <2>0. /\ InsertAt(events, k, e) \in Seq(Event)
        /\ Len(InsertAt(events, k, e)) = Len(events) + 1
        /\ \A j \in 1..(Len(events) + 1) :
             InsertAt(events, k, e)[j]
               = IF j < k THEN events[j] ELSE IF j = k THEN e ELSE events[j - 1]
    <3>1. events \in Seq(Event) /\ e \in Event /\ k \in 1..(Len(events) + 1)
      BY <1>1, <1>2, <1>4
    <3>2. QED
      BY ONLY <3>1, InsertAtElements, SMT
  <2>1. /\ events' \in Seq(Event) /\ Len(events') = Len(events) + 1
        /\ \A j \in 1..(Len(events) + 1) :
             events'[j] = IF j < k THEN events[j] ELSE IF j = k THEN e ELSE events[j - 1]
    BY <1>4, <2>0
  <2>2. DOMAIN events' = 1..(Len(events) + 1)
    BY <2>1, LenProperties
  <2>3. /\ \A j \in 1..(k - 1) : events[j].rem <= rem
        /\ \A j \in k..Len(events) : events[j].rem > rem
    <3>1. \A j \in 1..(k - 1) : events[j].rem <= rem
      BY <1>4 DEF IsIndex
    <3>2. k <= Len(events) => events[k].rem > rem
      BY <1>4 DEF IsIndex
    <3>3. \A j \in k..Len(events) : k = j \/ events[k].rem <= events[j].rem
      BY <1>1 DEF Sorted
    <3>4. QED
      BY <1>1, <3>1, <3>2, <3>3
  <2>4. Sorted'
    <3> SUFFICES ASSUME NEW i \in 1..(Len(events) + 1), NEW j \in 1..(Len(events) + 1), i < j
                 PROVE  events'[i].rem <= events'[j].rem
      BY <2>2 DEF Sorted
    <3>1. \A a, b \in 1..Len(events) : a < b => events[a].rem <= events[b].rem
      BY <1>1 DEF Sorted
    <3>2. CASE j < k
      BY <1>1, <2>1, <3>1, <3>2
    <3>3. CASE j = k
      <4>1. events'[i] = events[i] /\ events'[j] = e
        BY <1>1, <2>1, <3>3
      <4>2. QED
        BY <1>1, <1>2, <2>3, <3>3, <4>1
    <3>4. CASE j > k /\ i < k
      BY <1>1, <2>1, <3>1, <3>4
    <3>5. CASE j > k /\ i = k
      <4>1. events'[j] = events[j - 1] /\ events'[i] = e /\ j - 1 \in k..Len(events)
        BY <1>1, <2>1, <3>5
      <4>2. QED
        BY <1>1, <1>2, <2>3, <4>1
    <3>6. CASE j > k /\ i > k
      <4>1. events'[j] = events[j - 1] /\ events'[i] = events[i - 1]
        BY <1>1, <2>1, <3>6
      <4>2. QED
        BY <1>1, <3>1, <3>6, <4>1
    <3>7. QED
      BY <1>1, <3>2, <3>3, <3>4, <3>5, <3>6
  <2>5. dec' \in -1..DEC_IDLE /\ decPending' \in BOOLEAN
    <3>1. CASE eventsEnabled /\ k = 1
      <4>1. dec' \in 0..DEC_IDLE /\ decPending' \in BOOLEAN
        BY <1>4, <2>1, <3>1, ProgramArms
      <4>2. QED
        BY <4>1, TimerAssumption
    <3>2. CASE ~(eventsEnabled /\ k = 1)
      BY <1>4, <3>2 DEF TypeOK
    <3>3. QED
      BY <3>1, <3>2
  <2>6. \A j \in 1..Len(events) : events[j].id # id
    BY <1>1 DEF Queued
  <2>7. ASSUME NEW i \in DOMAIN events'
        PROVE  events'[i].id = id \/ Queued(events'[i].id)
    <3>1. CASE i = k
      BY <1>2, <2>1, <2>2, <3>1
    <3>2. CASE i # k
      <4>1. PICK j \in 1..Len(events) : events'[i] = events[j]
        <5>1. CASE i < k
          BY <1>1, <2>1, <2>2, <3>2, <5>1
        <5>2. CASE i > k
          <6>1. i - 1 \in 1..Len(events) /\ events'[i] = events[i - 1]
            BY <1>1, <2>1, <2>2, <5>2
          <6>2. QED
            BY <6>1
        <5>3. QED
          BY <1>1, <2>2, <3>2, <5>1, <5>2
      <4>2. QED
        BY <1>1, <4>1 DEF Queued
    <3>3. QED
      BY <3>1, <3>2
  <2>8. ASSUME NEW i \in DOMAIN events', NEW j \in DOMAIN events', events'[i].id = events'[j].id
        PROVE  i = j
    <3>1. \A a, b \in 1..Len(events) : events[a].id = events[b].id => a = b
      BY <1>1 DEF OneInstance
    <3>2. i \in 1..(Len(events) + 1) /\ j \in 1..(Len(events) + 1)
      BY <2>2, <2>8
    <3>3. CASE i = k
      BY <1>1, <1>2, <2>1, <2>6, <2>8, <3>2, <3>3
    <3>4. CASE j = k
      BY <1>1, <1>2, <2>1, <2>6, <2>8, <3>2, <3>4
    <3>5. CASE i # k /\ j # k
      <4> DEFINE a == IF i < k THEN i ELSE i - 1
                 b == IF j < k THEN j ELSE j - 1
      <4>1. a \in 1..Len(events) /\ b \in 1..Len(events)
        BY <1>1, <3>2, <3>5
      <4>2. events'[i] = events[a] /\ events'[j] = events[b]
        BY <1>1, <2>1, <3>2, <3>5
      <4>3. a = b
        <5> HIDE DEF a, b
        <5>1. QED
          BY <2>8, <3>1, <4>1, <4>2
      <4>4. QED
        BY <1>1, <3>2, <3>5, <4>3
    <3>6. QED
      BY <3>3, <3>4, <3>5
  <2>9. panic' \in {"no", "overflow", "recursion"}
    BY <1>4 DEF TypeOK
  <2>10. QED
    BY <2>1, <2>4, <2>5, <2>7, <2>8, <2>9
<1>5. QED
  BY <1>3, <1>4 DEF QueueLocked

(* A change of the top frame, if what the new one holds was held by the old *)
(* one or by nobody.                                                        *)
LEMMA SetTopHolds ==
  ASSUME TimerInv, NEW f \in Frame, SetTop(f), FrameOK(f, Depth),
         \A id \in Ids : (f.ev = id \/ f.arg = id) => Holds(Depth, id) \/ ~Held(id)
  PROVE  /\ frames' \in Seq(Frame) /\ frames' # <<>>
         /\ \A i \in DOMAIN frames' : FrameOK(frames'[i], i)
         /\ \A i, j \in DOMAIN frames', id \in Ids : Holds(i, id)' /\ Holds(j, id)' => i = j
         /\ \A id \in Ids : Held(id)' => f.ev = id \/ f.arg = id \/ Held(id)
         /\ \A id \in Ids : Held(id)' /\ Holds(Depth, id) => f.ev = id \/ f.arg = id
<1>1. TypeOK /\ OneInstance
  BY DEF TimerInv
<1>2. /\ frames' \in Seq(Frame) /\ frames' # <<>> /\ DOMAIN frames' = 1..Depth
      /\ \A i \in 1..Depth : frames'[i] = IF i = Depth THEN f ELSE frames[i]
  BY <1>1, SetTopFrames
<1>3. DOMAIN frames = 1..Depth /\ Depth \in Nat /\ Depth >= 1
  BY <1>1, StackTop
<1>4. \A i \in DOMAIN frames' : FrameOK(frames'[i], i)
  BY <1>1, <1>2, <1>3 DEF TypeOK
<1>5. \A i \in 1..Depth, id \in Ids :
        Holds(i, id)' <=> IF i = Depth THEN f.ev = id \/ f.arg = id ELSE Holds(i, id)
  BY <1>2 DEF Holds
<1>6. \A i, j \in 1..Depth, id \in Ids : Holds(i, id)' /\ Holds(j, id)' => i = j
  BY <1>1, <1>3, <1>5 DEF OneInstance, Held
<1>7. \A id \in Ids : Held(id)' => f.ev = id \/ f.arg = id \/ Held(id)
  BY <1>2, <1>3, <1>5 DEF Held
<1>8. ASSUME NEW id \in Ids, Held(id)', Holds(Depth, id)
      PROVE  f.ev = id \/ f.arg = id
  <2>1. PICK i \in 1..Depth : Holds(i, id)'
    BY <1>2, <1>8 DEF Held, Holds
  <2>2. \A a, b \in 1..Depth, x \in Ids : Holds(a, x) /\ Holds(b, x) => a = b
    BY <1>1, <1>3 DEF OneInstance
  <2>3. i = Depth
    <3>1. i # Depth => Holds(i, id)
      BY <1>5, <2>1
    <3>2. Depth \in 1..Depth
      BY <1>3
    <3>3. QED
      BY <1>8, <2>2, <3>1, <3>2
  <2>4. QED
    BY <1>5, <2>1, <2>3
<1>9. QED
  BY <1>2, <1>4, <1>6, <1>7, <1>8

-----------------------------------------------------------------------------
(* The steps.                                                               *)

LEMMA InitInv == Init => TimerInv
<1> SUFFICES ASSUME Init PROVE TimerInv
  OBVIOUS
<1>1. MainFrame \in Frame /\ FrameOK(MainFrame, 1)
  BY DEF MainFrame, Frame, FrameOK
<1>2. frames = <<MainFrame>> /\ events = <<>>
  BY DEF Init
<1>3. /\ frames \in Seq(Frame) /\ frames # <<>> /\ DOMAIN frames = {1} /\ frames[1] = MainFrame
  BY <1>1, <1>2
<1>4. events \in Seq([id : Ids, rem : Int]) /\ DOMAIN events = {}
  BY <1>2
<1>5. eventsEnabled \in BOOLEAN /\ decPending \in BOOLEAN /\ panic \in {"no", "overflow", "recursion"}
  BY DEF Init
<1>6. slot \in [Repeating -> {"free", "set", "cancelled"}] /\ dec \in -1..DEC_IDLE
  BY TimerAssumption DEF Init
<1>7. TypeOK
  BY <1>1, <1>3, <1>4, <1>5, <1>6 DEF TypeOK
<1>8. Sorted /\ OneInstance
  BY <1>3, <1>4 DEF Sorted, OneInstance
<1>9. \A id \in Ids : ~Queued(id) /\ ~Held(id)
  BY <1>3, <1>4, TimerAssumption DEF Queued, Held, Holds, MainFrame
<1>10. QED
  BY <1>7, <1>8, <1>9 DEF TimerInv, FreeOut, Ids

LEMMA TickInv == ASSUME TimerInv, Tick PROVE TimerInv'
<1>1. TypeOK /\ Sorted /\ OneInstance /\ FreeOut
  BY DEF TimerInv
<1>2. /\ Len(events) \in Nat /\ DOMAIN events = 1..Len(events)
      /\ \A i \in 1..Len(events) : events[i].id \in Ids /\ events[i].rem \in Int /\ events[i] \in Event
  BY <1>1, EventsSeq, ElementOfSeq
<1>3. \A r \in Int : Later(r) \in Int
  BY DEF Later
<1>4. DOMAIN frames = 1..Depth /\ Depth \in Nat /\ Depth >= 1 /\ \A i \in 1..Depth : frames[i] \in Frame
  BY <1>1, StackTop
<1>5. /\ events' = [i \in 1..Len(events) |-> [events[i] EXCEPT !.rem = Later(@)]]
      /\ frames' = [i \in 1..Depth |->
                      IF frames[i].pc = "queue" THEN [frames[i] EXCEPT !.rem = Later(@)] ELSE frames[i]]
      /\ UNCHANGED <<slot, eventsEnabled, panic>>
  BY <1>2, <1>4 DEF Tick
<1>6. /\ DOMAIN events' = DOMAIN events
      /\ \A i \in DOMAIN events : events'[i].id = events[i].id /\ events'[i].rem = Later(events[i].rem)
                                  /\ events'[i] \in Event
  BY <1>2, <1>3, <1>5 DEF Event
<1>7. /\ DOMAIN frames' = DOMAIN frames
      /\ \A i \in DOMAIN frames : frames'[i].ev = frames[i].ev /\ frames'[i].arg = frames[i].arg
                                  /\ frames'[i].pc = frames[i].pc /\ frames'[i] \in Frame
  BY <1>3, <1>4, <1>5 DEF Frame
<1>8. events' \in Seq(Event)
  <2> DEFINE e(i) == [events[i] EXCEPT !.rem = Later(@)]
  <2>1. \A i \in 1..Len(events) : e(i) \in Event
    BY <1>2, <1>5, <1>6
  <2>2. events' = [i \in 1..Len(events) |-> e(i)]
    BY <1>5
  <2> HIDE DEF e
  <2>3. QED
    BY <1>2, <2>1, <2>2
<1>9. frames' \in Seq(Frame) /\ frames' # <<>>
  <2> HIDE DEF Frame
  <2>1. frames' \in Seq(Frame)
    BY <1>4, <1>5, <1>7
  <2>2. QED
    BY <2>1, <1>4, <1>7
<1>10. dec' \in -1..DEC_IDLE
  BY <1>1, TimerAssumption DEF Tick, TypeOK
<1>11. decPending' \in BOOLEAN
  BY <1>1 DEF Tick, TypeOK
<1>12. TypeOK'
  <2>1. \A i \in DOMAIN frames' : FrameOK(frames'[i], i)
    BY <1>1, <1>7 DEF TypeOK, FrameOK
  <2>2. events' \in Seq([id : Ids, rem : Int])
    BY <1>8 DEF Event
  <2>3. QED
    BY <1>1, <1>5, <1>9, <1>10, <1>11, <2>1, <2>2 DEF TypeOK
<1>13. Sorted'
  BY <1>1, <1>2, <1>6 DEF Sorted, Later
<1>14. \A id \in Ids : Queued(id)' = Queued(id) /\ Held(id)' = Held(id)
  BY <1>6, <1>7 DEF Queued, Held, Holds
<1>15. OneInstance'
  BY <1>1, <1>2, <1>6, <1>7, <1>14 DEF OneInstance, Holds
<1>16. FreeOut'
  BY <1>1, <1>5, <1>14 DEF FreeOut, Ids
<1>17. QED
  BY <1>12, <1>13, <1>15, <1>16 DEF TimerInv

(* A step that changes the top frame and leaves the queue alone.            *)
LEMMA TopStep ==
  ASSUME TimerInv, NEW f \in Frame, SetTop(f), FrameOK(f, Depth),
         \A id \in Ids : (f.ev = id \/ f.arg = id) =>
                            Holds(Depth, id) \/ (~Held(id) /\ ~Queued(id)),
         UNCHANGED <<events, eventsEnabled, dec, decPending, panic>>,
         slot' \in [Repeating -> {"free", "set", "cancelled"}],
         \A r \in Repeating : slot'[r] = "free" => slot[r] = "free" /\ f.ev # r /\ f.arg # r
  PROVE  TimerInv'
<1>1. TypeOK /\ Sorted /\ OneInstance /\ FreeOut
  BY DEF TimerInv
<1>2. /\ frames' \in Seq(Frame) /\ frames' # <<>>
      /\ \A i \in DOMAIN frames' : FrameOK(frames'[i], i)
      /\ \A i, j \in DOMAIN frames', id \in Ids : Holds(i, id)' /\ Holds(j, id)' => i = j
      /\ \A id \in Ids : Held(id)' => f.ev = id \/ f.arg = id \/ Held(id)
  BY SetTopHolds
<1>3. TypeOK'
  BY <1>1, <1>2 DEF TypeOK
<1>4. Sorted'
  BY <1>1 DEF Sorted
<1>5. \A id \in Ids : Queued(id)' = Queued(id)
  BY DEF Queued
<1>6. \A id \in Ids : Holds(Depth, id) => Held(id)
  BY <1>1, StackTop DEF Held
<1>7. \A i \in DOMAIN events : Queued(events[i].id) /\ events[i].id \in Ids /\ ~Held(events[i].id)
  BY <1>1, EventsSeq DEF Queued, OneInstance
<1>8. OneInstance'
  BY <1>1, <1>2, <1>5, <1>6, <1>7 DEF OneInstance
<1>9. FreeOut'
  BY <1>1, <1>2, <1>5 DEF FreeOut, Ids
<1>10. QED
  BY <1>3, <1>4, <1>8, <1>9 DEF TimerInv

LEMMA ReturnOneShotInv == ASSUME TimerInv, ReturnOneShot PROVE TimerInv'
<1>1. HandlerFrame \in Frame /\ FrameOK(HandlerFrame, Depth)
  <2>1. Depth > 1
    BY StackTop DEF TimerInv, ReturnOneShot, TypeOK, FrameOK, Top
  <2>2. QED
    BY <2>1 DEF HandlerFrame, Frame, FrameOK
<1>2. HandlerFrame.ev \notin Ids /\ HandlerFrame.arg \notin Ids
  BY TimerAssumption DEF HandlerFrame
<1>3. QED
  BY <1>1, <1>2, TopStep DEF ReturnOneShot, TimerInv, TypeOK, FreeOut, Ids

LEMMA ReturnRepeatingInv == ASSUME TimerInv, ReturnRepeating PROVE TimerInv'
<1> DEFINE f == [Top EXCEPT !.pc = "check"]
<1>1. Top \in Frame /\ FrameOK(Top, Depth)
  BY StackTop DEF TimerInv, TypeOK, Top
<1>2. f \in Frame /\ f.ev = Top.ev /\ f.arg = Top.arg /\ f.pc = "check"
  BY <1>1 DEF Frame
<1>3. FrameOK(f, Depth)
  BY <1>1, <1>2 DEF FrameOK, ReturnRepeating
<1>4. \A id \in Ids : (f.ev = id \/ f.arg = id) => Holds(Depth, id)
  BY <1>2 DEF Holds, Top
<1>5. \A r \in Repeating : slot[r] = "free" => f.ev # r /\ f.arg # r
  BY <1>4, StackTop DEF TimerInv, FreeOut, Held, Ids
<1>6. SetTop(f) /\ UNCHANGED <<events, eventsEnabled, dec, decPending, panic, slot>>
  BY DEF ReturnRepeating
<1> HIDE DEF f
<1>7. slot' \in [Repeating -> {"free", "set", "cancelled"}]
  BY <1>6 DEF TimerInv, TypeOK
<1>8. QED
  BY <1>2, <1>3, <1>4, <1>5, <1>6, <1>7, TopStep

LEMMA CheckRepeatingInv == ASSUME TimerInv, CheckRepeating PROVE TimerInv'
<1> DEFINE f == [Top EXCEPT !.pc = "queue", !.arg = Top.ev, !.rem = Period[Top.ev]]
<1>1. Top \in Frame /\ FrameOK(Top, Depth) /\ Top.pc = "check"
  BY StackTop DEF TimerInv, TypeOK, Top, CheckRepeating
<1>2. Top.ev \in Repeating /\ Depth > 1
  BY <1>1, StackTop DEF FrameOK, TimerInv
<1>3. slot' \in [Repeating -> {"free", "set", "cancelled"}] /\ UNCHANGED slot
  BY DEF TimerInv, TypeOK, CheckRepeating
<1>4. CASE StillSet(Top.ev)
  <2>1. f \in Frame /\ f.ev = Top.ev /\ f.arg = Top.ev /\ f.pc = "queue"
    BY <1>1, <1>2, TimerAssumption, Period[Top.ev] \in Int DEF Frame, Ids
  <2>2. FrameOK(f, Depth)
    BY <1>1, <1>2, <2>1, TimerAssumption DEF FrameOK, Ids
  <2>3. \A id \in Ids : (f.ev = id \/ f.arg = id) => Holds(Depth, id)
    BY <2>1 DEF Holds, Top
  <2>4. \A r \in Repeating : slot[r] = "free" => f.ev # r /\ f.arg # r
    BY <2>3, StackTop DEF TimerInv, FreeOut, Held, Ids
  <2>5. SetTop(f) /\ UNCHANGED <<events, eventsEnabled, dec, decPending, panic>>
    BY <1>4 DEF CheckRepeating
  <2> HIDE DEF f
  <2>6. QED
    BY <1>3, <2>1, <2>2, <2>3, <2>4, <2>5, TopStep
<1>5. CASE ~StillSet(Top.ev)
  <2>1. HandlerFrame \in Frame /\ FrameOK(HandlerFrame, Depth)
    BY <1>2 DEF HandlerFrame, Frame, FrameOK
  <2>2. HandlerFrame.ev \notin Ids /\ HandlerFrame.arg \notin Ids
    BY TimerAssumption DEF HandlerFrame
  <2>3. SetTop(HandlerFrame) /\ UNCHANGED <<events, eventsEnabled, dec, decPending, panic>>
    BY <1>5 DEF CheckRepeating
  <2>4. \A r \in Repeating : HandlerFrame.ev # r /\ HandlerFrame.arg # r
    BY <2>2 DEF Ids
  <2>5. QED
    BY <1>3, <2>1, <2>2, <2>3, <2>4, TopStep
<1>6. QED
  BY <1>4, <1>5

LEMMA CallQueueEventInv ==
  ASSUME TimerInv, NEW o \in OneShot, NEW d \in Delays, CallQueueEvent(o, d)
  PROVE  TimerInv'
<1> DEFINE f == [Top EXCEPT !.pc = "queue", !.arg = o, !.rem = d]
<1>1. Top \in Frame /\ FrameOK(Top, Depth) /\ Top.pc \in {"main", "call"}
  BY StackTop DEF TimerInv, TypeOK, Top, CallQueueEvent
<1>2. o \in Ids /\ d \in Int /\ o # None /\ o \notin Repeating
  BY TimerAssumption DEF Ids
<1>3. f \in Frame /\ f.ev = Top.ev /\ f.arg = o /\ f.pc = "queue"
  BY <1>1, <1>2 DEF Frame
<1>4. FrameOK(f, Depth)
  BY <1>1, <1>2, <1>3 DEF FrameOK
<1>5. \A id \in Ids : (f.ev = id \/ f.arg = id) =>
        Holds(Depth, id) \/ (~Held(id) /\ ~Queued(id))
  BY <1>3 DEF Holds, Top, CallQueueEvent
<1>6. \A r \in Repeating : slot[r] = "free" => f.ev # r /\ f.arg # r
  BY <1>2, <1>3, StackTop DEF TimerInv, FreeOut, Held, Holds, Top, Ids
<1>7. SetTop(f) /\ UNCHANGED <<events, eventsEnabled, dec, decPending, panic, slot>>
  BY DEF CallQueueEvent
<1> HIDE DEF f
<1>8. slot' \in [Repeating -> {"free", "set", "cancelled"}]
  BY <1>7 DEF TimerInv, TypeOK
<1>9. QED
  BY <1>3, <1>4, <1>5, <1>6, <1>7, <1>8, TopStep

LEMMA RegisterInv == ASSUME TimerInv, NEW r \in Repeating, Register(r) PROVE TimerInv'
<1> DEFINE f == [Top EXCEPT !.pc = "queue", !.arg = r, !.rem = Period[r]]
<1>1. Top \in Frame /\ FrameOK(Top, Depth) /\ Top.pc = "main"
  BY StackTop DEF TimerInv, TypeOK, Top, Register
<1>2. r \in Ids /\ Period[r] \in Int /\ r # None
  BY TimerAssumption DEF Ids
<1>3. f \in Frame /\ f.ev = Top.ev /\ f.arg = r /\ f.pc = "queue"
  BY <1>1, <1>2 DEF Frame
<1>4. FrameOK(f, Depth) /\ f.ev = None
  BY <1>1, <1>2, <1>3 DEF FrameOK
<1>5. ~Held(r) /\ ~Queued(r) /\ None \notin Ids
  BY TimerAssumption DEF TimerInv, FreeOut, Register
<1>6. slot' \in [Repeating -> {"free", "set", "cancelled"}]
  BY DEF TimerInv, TypeOK, Register
<1>7. \A q \in Repeating : slot'[q] = "free" => slot[q] = "free" /\ f.ev # q /\ f.arg # q
  BY <1>3, <1>4, TimerAssumption DEF Register, TimerInv, TypeOK, Ids
<1>8. SetTop(f) /\ UNCHANGED <<events, eventsEnabled, dec, decPending, panic>>
  BY DEF Register
<1> HIDE DEF f
<1>9. QED
  BY <1>3, <1>4, <1>5, <1>6, <1>7, <1>8, TopStep

LEMMA TakeDECInv == ASSUME TimerInv, TakeDEC PROVE TimerInv'
<1>1. TypeOK /\ Sorted /\ OneInstance /\ FreeOut
  BY DEF TimerInv
<1>2. /\ frames \in Seq(Frame) /\ frames # <<>> /\ Depth = Len(frames)
      /\ DOMAIN frames = 1..Depth /\ Depth \in Nat /\ Depth >= 1
  BY <1>1, StackTop DEF TypeOK, Depth
<1>3. UNCHANGED <<events, slot, eventsEnabled, dec>> /\ decPending' = FALSE
  BY DEF TakeDEC
<1>4. Sorted' /\ \A id \in Ids : Queued(id)' = Queued(id)
  BY <1>1, <1>3 DEF Sorted, Queued
<1>5. CASE panic' = "recursion" /\ UNCHANGED frames
  <2>1. TypeOK'
    BY <1>1, <1>3, <1>5 DEF TypeOK
  <2>2. OneInstance'
    BY <1>1, <1>3, <1>5 DEF OneInstance, Held, Holds
  <2>3. FreeOut'
    BY <1>1, <1>3, <1>4, <1>5 DEF FreeOut, Held, Holds, Ids
  <2>4. QED
    BY <1>4, <2>1, <2>2, <2>3 DEF TimerInv
<1>6. CASE frames' = Append(frames, HandlerFrame) /\ UNCHANGED panic
  <2>1. HandlerFrame \in Frame /\ HandlerFrame.ev = None /\ HandlerFrame.arg = None
    BY DEF HandlerFrame, Frame
  <2>2. FrameOK(HandlerFrame, Depth + 1)
    BY <1>2 DEF HandlerFrame, FrameOK
  <2> HIDE DEF Frame
  <2>3. /\ frames' \in Seq(Frame) /\ Len(frames') = Depth + 1
        /\ DOMAIN frames' = 1..(Depth + 1)
        /\ \A i \in 1..Depth : frames'[i] = frames[i]
        /\ frames'[Depth + 1] = HandlerFrame
    BY <1>2, <1>6, <2>1
  <2>4. frames' # <<>>
    BY <1>2, <2>3
  <2>5. \A i \in DOMAIN frames' : FrameOK(frames'[i], i)
    BY <1>1, <1>2, <2>2, <2>3 DEF TypeOK
  <2>6. TypeOK'
    BY <1>1, <1>3, <1>6, <2>3, <2>4, <2>5 DEF TypeOK
  <2>7. \A i \in 1..(Depth + 1), id \in Ids : Holds(i, id)' <=> i \in 1..Depth /\ Holds(i, id)
    BY <1>2, <2>1, <2>3, TimerAssumption DEF Holds
  <2>8. \A id \in Ids : Held(id)' = Held(id)
    BY <1>2, <2>3, <2>7 DEF Held
  <2>9. OneInstance'
    BY <1>1, <1>2, <1>3, EventsSeq, <2>3, <2>7, <2>8 DEF OneInstance
  <2>10. FreeOut'
    BY <1>1, <1>3, <1>4, <2>8 DEF FreeOut, Ids
  <2>11. QED
    BY <1>4, <2>6, <2>9, <2>10 DEF TimerInv
<1>7. QED
  BY <1>5, <1>6 DEF TakeDEC

LEMMA HandlerReturnInv == ASSUME TimerInv, HandlerReturn PROVE TimerInv'
<1>1. TypeOK /\ Sorted /\ OneInstance /\ FreeOut
  BY DEF TimerInv
<1>2. /\ frames \in Seq(Frame) /\ frames # <<>> /\ Depth = Len(frames)
      /\ DOMAIN frames = 1..Depth /\ Depth \in Nat /\ Depth >= 1
  BY <1>1, StackTop DEF TypeOK, Depth
<1>3. UNCHANGED <<events, slot, eventsEnabled, panic>>
  BY DEF HandlerReturn
<1>4. Sorted' /\ \A id \in Ids : Queued(id)' = Queued(id)
  BY <1>1, <1>3 DEF Sorted, Queued
<1>5. Depth >= 2
  BY <1>1, <1>2 DEF HandlerReturn, TypeOK, FrameOK, Top
<1>6. frames' \in Seq(Frame) /\ Len(frames') = Depth - 1 /\ \A i \in 1..(Depth - 1) : frames'[i] = frames[i]
  <2> HIDE DEF Frame
  <2>1. frames' = Front(frames)
    BY DEF HandlerReturn
  <2>2. QED
    BY <1>2, <2>1, FrontElements
<1>7. DOMAIN frames' = 1..(Depth - 1) /\ frames' # <<>>
  <2> HIDE DEF Frame
  <2>1. DOMAIN frames' = 1..Len(frames')
    BY <1>6, LenProperties
  <2>2. QED
    BY <1>2, <1>5, <1>6, <2>1
<1>8. dec' \in -1..DEC_IDLE /\ decPending' \in BOOLEAN
  <2>1. CASE programNextDEC(events)
    <3>1. dec' \in 0..DEC_IDLE /\ decPending' \in BOOLEAN
      BY <1>1, <2>1, EventsSeq, ProgramArms
    <3>2. QED
      BY <3>1, TimerAssumption
  <2>2. CASE mtdec(DEC_IDLE)
    BY <1>1, <2>2, TimerAssumption DEF mtdec, TypeOK
  <2>3. QED
    BY <2>1, <2>2 DEF HandlerReturn
<1>9. \A i \in DOMAIN frames' : FrameOK(frames'[i], i)
  <2>1. \A i \in 1..(Depth - 1) : i \in DOMAIN frames /\ frames'[i] = frames[i]
    BY <1>2, <1>6
  <2>2. QED
    BY <1>1, <1>7, <2>1 DEF TypeOK
<1>10. TypeOK'
  BY <1>1, <1>3, <1>6, <1>7, <1>8, <1>9 DEF TypeOK
<1>11. \A i \in 1..(Depth - 1), id \in Ids : i \in DOMAIN frames /\ (Holds(i, id)' <=> Holds(i, id))
  BY <1>2, <1>6 DEF Holds
<1>12. \A id \in Ids : Held(id)' => Held(id)
  BY <1>7, <1>11 DEF Held
<1>13. OneInstance'
  BY <1>1, <1>2, <1>3, EventsSeq, <1>7, <1>11, <1>12 DEF OneInstance
<1>14. FreeOut'
  BY <1>1, <1>3, <1>4, <1>12 DEF FreeOut, Ids
<1>15. QED
  BY <1>4, <1>10, <1>13, <1>14 DEF TimerInv

LEMMA HandlerPopInv == ASSUME TimerInv, HandlerPop PROVE TimerInv'
<1>1. TypeOK /\ Sorted /\ OneInstance /\ FreeOut
  BY DEF TimerInv
<1>2. /\ events \in Seq(Event) /\ Len(events) \in Nat /\ DOMAIN events = 1..Len(events)
      /\ \A i \in 1..Len(events) : events[i].id \in Ids /\ events[i].rem \in Int
  BY <1>1, EventsSeq
<1>3. events # <<>> /\ events' = Tail(events) /\ UNCHANGED <<slot, eventsEnabled, panic>>
  BY DEF HandlerPop, Due, Shifted
<1>4. /\ Len(events) >= 1 /\ events' \in Seq(Event) /\ Len(events') = Len(events) - 1
      /\ \A j \in 1..(Len(events) - 1) : events'[j] = events[j + 1]
  <2> HIDE DEF Event
  <2>1. QED
    BY <1>2, <1>3, TailElements
<1>5. DOMAIN events' = 1..(Len(events) - 1)
  <2> HIDE DEF Event
  <2>1. QED
    BY <1>4, LenProperties
<1>6. Sorted'
  <2>1. \A i, j \in 1..Len(events) : i < j => events[i].rem <= events[j].rem
    BY <1>1, <1>2 DEF Sorted
  <2>2. \A i \in 1..(Len(events) - 1) : i + 1 \in 1..Len(events) /\ events'[i] = events[i + 1]
    BY <1>2, <1>4
  <2>3. \A i, j \in 1..(Len(events) - 1) : i < j => i + 1 < j + 1
    BY <1>2
  <2>4. QED
    BY <1>5, <2>1, <2>2, <2>3 DEF Sorted
<1> DEFINE n == IF Due(events') THEN events'[1].id ELSE None
           f == [Top EXCEPT !.pc = "call", !.ev = events[1].id, !.next = n]
<1>7. n \in Ids \cup {None}
  <2>1. Due(events') => Len(events') >= 1
    <3> HIDE DEF Event
    <3>1. events' # <<>> => Len(events') >= 1
      BY <1>4, EmptySeq, LenProperties
    <3>2. QED
      BY <3>1 DEF Due
  <2>2. Due(events') => events'[1] = events[2] /\ 2 \in 1..Len(events)
    BY <1>2, <1>4, <2>1
  <2>3. QED
    BY <1>2, <2>2
<1>8. /\ Top \in Frame /\ FrameOK(Top, Depth) /\ Top.pc = "loop" /\ SetTop(f)
  BY <1>1, StackTop DEF TypeOK, Top, HandlerPop
<1>9. events[1].id \in Ids /\ ~Held(events[1].id) /\ events[1].id # None
  BY <1>1, <1>2, <1>4, TimerAssumption DEF OneInstance
<1>10. f \in Frame /\ f.pc = "call" /\ f.ev = events[1].id /\ f.arg = Top.arg
  <2> HIDE DEF n
  <2>1. QED
    BY <1>7, <1>8, <1>9 DEF Frame
<1>11. FrameOK(f, Depth) /\ f.arg = None
  BY <1>8, <1>9, <1>10 DEF FrameOK
<1> HIDE DEF f
<1>12. /\ frames' \in Seq(Frame) /\ frames' # <<>>
       /\ \A i \in DOMAIN frames' : FrameOK(frames'[i], i)
       /\ \A i, j \in DOMAIN frames', id \in Ids : Holds(i, id)' /\ Holds(j, id)' => i = j
       /\ \A id \in Ids : Held(id)' => id = events[1].id \/ Held(id)
  BY <1>8, <1>9, <1>10, <1>11, TimerAssumption, SetTopHolds
<1>13. dec' \in -1..DEC_IDLE /\ decPending' \in BOOLEAN
  <2>1. CASE programNextDEC(events')
    <3>1. dec' \in 0..DEC_IDLE /\ decPending' \in BOOLEAN
      BY <1>1, <1>4, <2>1, ProgramArms
    <3>2. QED
      BY <3>1, TimerAssumption
  <2>2. CASE mtdec(DEC_IDLE)
    BY <1>1, <2>2, TimerAssumption DEF mtdec, TypeOK
  <2>3. QED
    BY <2>1, <2>2 DEF HandlerPop, ArmForCallback
<1>14. TypeOK'
  BY <1>1, <1>3, <1>4, <1>12, <1>13 DEF TypeOK, Event
<1>15. \A j \in DOMAIN events' : j + 1 \in 1..Len(events) /\ events'[j].id = events[j + 1].id
                                /\ events'[j].id # events[1].id
  BY <1>1, <1>2, <1>4, <1>5 DEF OneInstance
<1>16. ASSUME NEW j \in DOMAIN events', NEW id \in Ids, id = events'[j].id
       PROVE  ~Held(id)'
  <2>1. ~Held(id) /\ id # events[1].id
    BY <1>1, <1>2, <1>15, <1>16 DEF OneInstance
  <2>2. QED
    BY <1>12, <2>1
<1>17. OneInstance'
  <2>1. ASSUME NEW i \in DOMAIN events', NEW j \in DOMAIN events', events'[i].id = events'[j].id
        PROVE  i = j
    <3>1. i + 1 = j + 1
      BY <1>1, <1>2, <1>15, <2>1 DEF OneInstance
    <3>2. QED
      BY <1>2, <1>5, <3>1
  <2>2. \A j \in DOMAIN events' : events'[j].id \in Ids
    BY <1>2, <1>15
  <2>3. ASSUME NEW j \in DOMAIN events'
        PROVE  (~Held(events[j].id))'
    BY <1>16, <2>2 DEF Held, Holds
  <2>4. QED
    BY <1>12, <2>1, <2>3 DEF OneInstance
<1>18. \A id \in Ids : Queued(id)' => Queued(id)
  BY <1>2, <1>15 DEF Queued
<1>19. FreeOut'
  BY <1>1, <1>2, <1>3, <1>4, <1>12, <1>18 DEF FreeOut, Ids, Queued
<1>20. QED
  BY <1>6, <1>14, <1>17, <1>19 DEF TimerInv

LEMMA AfterQueueFrame ==
  ASSUME NEW t \in Frame
  PROVE  /\ AfterQueue(t) \in Frame /\ AfterQueue(t).arg = None
         /\ AfterQueue(t).ev = IF t.arg = t.ev THEN None ELSE t.ev
         /\ AfterQueue(t).pc = IF t.arg = t.ev THEN "loop" ELSE IF Depth = 1 THEN "main" ELSE "call"
<1> DEFINE g(p, z) == [t EXCEPT !.pc = p, !.arg = None, !.rem = z]
<1>1. CASE t.arg = t.ev
  BY <1>1 DEF AfterQueue, HandlerFrame, Frame
<1>2. ASSUME NEW p \in {"main", "call"}, NEW z \in Int
      PROVE  g(p, z) \in Frame /\ g(p, z).arg = None /\ g(p, z).ev = t.ev /\ g(p, z).pc = p
  BY DEF Frame
<1>3. CASE t.arg # t.ev
  <2>1. AfterQueue(t) = IF Depth = 1 THEN g("main", 0) ELSE g("call", 0)
    BY <1>3 DEF AfterQueue
  <2> HIDE DEF g
  <2>2. QED
    BY <1>2, <1>3, <2>1
<1>4. QED
  BY <1>1, <1>3

LEMMA QueueEventInv == ASSUME TimerInv, QueueEvent PROVE TimerInv'
<1> DEFINE f == AfterQueue(Top)
<1>1. TypeOK /\ Sorted /\ OneInstance /\ FreeOut
  BY DEF TimerInv
<1>2. /\ Top \in Frame /\ FrameOK(Top, Depth) /\ Top.pc = "queue" /\ SetTop(f)
      /\ DOMAIN frames = 1..Depth /\ Depth \in Nat /\ Depth >= 1
  BY <1>1, StackTop DEF TypeOK, Top, QueueEvent
<1>3. UNCHANGED <<slot, eventsEnabled>>
  BY DEF QueueEvent
<1>18. Top.arg \in Ids /\ Top.arg # None /\ Top.rem \in Int /\ Top.ev \in Ids \cup {None}
  BY <1>2 DEF Frame, FrameOK
<1>4. PICK id \in Ids : id = Top.arg /\ id # None
  BY <1>18
<1>5. Holds(Depth, id) /\ Held(id) /\ ~Queued(id)
  <2>1. Holds(Depth, id)
    BY <1>4 DEF Holds, Top
  <2>2. Held(id)
    BY <1>2, <2>1 DEF Held
  <2>3. ~Queued(id)
    BY <1>1, <2>2 DEF OneInstance, Queued
  <2>4. QED
    BY <2>1, <2>2, <2>3
<1>6. /\ events' \in Seq(Event) /\ Sorted'
      /\ dec' \in -1..DEC_IDLE /\ decPending' \in BOOLEAN
      /\ panic' \in {"no", "overflow", "recursion"}
      /\ \A i, j \in DOMAIN events' : events'[i].id = events'[j].id => i = j
      /\ \A i \in DOMAIN events' : events'[i].id = id \/ Queued(events'[i].id)
  <2>1. QueueLocked(id, Top.rem)
    BY <1>4 DEF QueueEvent
  <2> HIDE DEF f
  <2>2. QED
    BY <1>1, <1>18, <1>5, <2>1, QueueLockedAdds
<1>7. /\ f \in Frame /\ f.arg = None
      /\ f.ev = IF Top.arg = Top.ev THEN None ELSE Top.ev
      /\ f.pc = IF Top.arg = Top.ev THEN "loop" ELSE IF Depth = 1 THEN "main" ELSE "call"
  BY <1>2, AfterQueueFrame
<1>8. FrameOK(f, Depth)
  BY <1>2, <1>18, <1>7 DEF FrameOK
<1>9. \A x \in Ids : (f.ev = x \/ f.arg = x) => Holds(Depth, x) /\ x # id
  BY <1>4, <1>7, TimerAssumption DEF Holds, Top
<1> HIDE DEF f
<1>10. /\ frames' \in Seq(Frame) /\ frames' # <<>>
       /\ \A i \in DOMAIN frames' : FrameOK(frames'[i], i)
       /\ \A i, j \in DOMAIN frames', x \in Ids : Holds(i, x)' /\ Holds(j, x)' => i = j
       /\ \A x \in Ids : Held(x)' => f.ev = x \/ f.arg = x \/ Held(x)
       /\ \A x \in Ids : Held(x)' /\ Holds(Depth, x) => f.ev = x \/ f.arg = x
  BY <1>2, <1>7, <1>8, <1>9, SetTopHolds
<1>11. /\ \A x \in Ids : Held(x)' => Held(x)
       /\ ~Held(id)'
  <2>1. \A x \in Ids : Holds(Depth, x) => Held(x)
    BY <1>2 DEF Held
  <2>2. QED
    BY <1>4, <1>5, <1>9, <1>10, <2>1
<1>12. TypeOK'
  BY <1>1, <1>3, <1>6, <1>10 DEF TypeOK, Event
<1>13. \A j \in DOMAIN events' : events'[j].id \in Ids
  <2>1. \A j \in DOMAIN events' : events'[j] \in Event
    <3> HIDE DEF Event
    <3>1. QED
      BY <1>6, LenProperties, ElementOfSeq
  <2>2. QED
    BY <2>1 DEF Event
<1>14. OneInstance'
  <2>1. ASSUME NEW j \in DOMAIN events', NEW x \in Ids, x = events'[j].id
        PROVE  ~Held(x)'
    <3>1. CASE x = id
      BY <1>11, <3>1
    <3>2. CASE x # id
      <4>1. Queued(x)
        BY <1>6, <2>1, <3>2
      <4>2. ~Held(x)
        BY <1>1, <4>1 DEF OneInstance, Queued
      <4>3. QED
        BY <1>11, <4>2
    <3>3. QED
      BY <3>1, <3>2
  <2>2. ASSUME NEW j \in DOMAIN events'
        PROVE  (~Held(events[j].id))'
    BY <1>13, <2>1 DEF Held, Holds
  <2>3. QED
    BY <1>6, <1>10, <2>2 DEF OneInstance
<1>15. FreeOut'
  <2>1. ASSUME NEW r \in Repeating, slot[r] = "free"
        PROVE  ~Queued(r)' /\ ~Held(r)'
    <3>1. ~Queued(r) /\ ~Held(r) /\ r \in Ids
      BY <1>1, <2>1 DEF FreeOut, Ids
    <3>2. ~Queued(r)'
      BY <1>5, <1>6, <3>1 DEF Queued
    <3>3. QED
      BY <1>11, <3>1, <3>2
  <2>2. QED
    BY <1>3, <2>1 DEF FreeOut
<1>16. QED
  BY <1>6, <1>12, <1>14, <1>15 DEF TimerInv

LEMMA IrqQueueEventInv ==
  ASSUME TimerInv, NEW o \in OneShot, NEW d \in Delays, IrqQueueEvent(o, d)
  PROVE  TimerInv'
<1>1. TypeOK /\ Sorted /\ OneInstance /\ FreeOut
  BY DEF TimerInv
<1>2. o \in Ids /\ d \in Int /\ o \notin Repeating
  BY TimerAssumption DEF Ids
<1>3. /\ ~Queued(o) /\ ~Held(o) /\ QueueLocked(o, d)
      /\ UNCHANGED <<slot, eventsEnabled, frames>>
  BY DEF IrqQueueEvent
<1>4. /\ events' \in Seq(Event) /\ Sorted'
      /\ dec' \in -1..DEC_IDLE /\ decPending' \in BOOLEAN
      /\ panic' \in {"no", "overflow", "recursion"}
      /\ \A i, j \in DOMAIN events' : events'[i].id = events'[j].id => i = j
      /\ \A i \in DOMAIN events' : events'[i].id = o \/ Queued(events'[i].id)
  BY <1>1, <1>2, <1>3, QueueLockedAdds
<1>5. TypeOK'
  BY <1>1, <1>3, <1>4 DEF TypeOK, Event
<1>6. OneInstance'
  <2>1. ASSUME NEW j \in DOMAIN events'
        PROVE  ~Held(events'[j].id)
    <3>1. CASE events'[j].id = o
      BY <1>3, <3>1
    <3>2. CASE Queued(events'[j].id)
      BY <1>1, <3>2 DEF OneInstance, Queued
    <3>3. QED
      BY <1>4, <3>1, <3>2
  <2>2. ASSUME NEW j \in DOMAIN events'
        PROVE  (~Held(events[j].id))'
    BY <1>3, <2>1 DEF Held, Holds
  <2>3. \A i, j \in DOMAIN frames, id \in Ids : Holds(i, id) /\ Holds(j, id) => i = j
    BY <1>1 DEF OneInstance
  <2>4. (\A i, j \in DOMAIN frames, id \in Ids : Holds(i, id) /\ Holds(j, id) => i = j)'
    BY <1>3, <2>3 DEF Holds
  <2>5. QED
    BY <1>4, <2>2, <2>4 DEF OneInstance
<1>7. FreeOut'
  <2>1. ASSUME NEW r \in Repeating, slot[r] = "free"
        PROVE  ~Queued(r)' /\ ~Held(r)'
    <3>1. ~Queued(r) /\ ~Held(r)
      BY <1>1, <2>1 DEF FreeOut
    <3>2. ~Queued(r)'
      BY <1>2, <1>4, <3>1 DEF Queued
    <3>3. ~Held(r)'
      BY <1>3, <3>1 DEF Held, Holds
    <3>4. QED
      BY <3>2, <3>3
  <2>2. QED
    BY <1>3, <2>1 DEF FreeOut
<1>8. QED
  BY <1>4, <1>5, <1>6, <1>7 DEF TimerInv

LEMMA EnableEventsInv == ASSUME TimerInv, T_EnableEvents PROVE TimerInv'
<1>1. TypeOK /\ Sorted /\ OneInstance /\ FreeOut
  BY DEF TimerInv
<1>2. UNCHANGED <<events, slot, frames, panic>> /\ eventsEnabled' = TRUE /\ programNextDEC(events)
  BY DEF T_EnableEvents
<1>3. dec' \in 0..DEC_IDLE /\ decPending' \in BOOLEAN
  BY <1>1, <1>2, EventsSeq, ProgramArms
<1>4. dec' \in -1..DEC_IDLE
  BY <1>3, TimerAssumption
<1>5. TypeOK'
  BY <1>1, <1>2, <1>3, <1>4 DEF TypeOK
<1>6. Sorted' /\ OneInstance' /\ FreeOut'
  BY <1>1, <1>2 DEF Sorted, OneInstance, FreeOut, Queued, Held, Holds
<1>7. QED
  BY <1>5, <1>6 DEF TimerInv

LEMMA CancelInv ==
  ASSUME TimerInv, NEW r \in Repeating, T_CancelRepeatingEvent(r)
  PROVE  TimerInv'
<1>1. TypeOK /\ Sorted /\ OneInstance /\ FreeOut
  BY DEF TimerInv
<1>2. /\ events \in Seq(Event) /\ Len(events) \in Nat /\ DOMAIN events = 1..Len(events)
      /\ \A i \in 1..Len(events) : events[i].id \in Ids /\ events[i].rem \in Int
  BY <1>1, EventsSeq
<1>3. /\ UNCHANGED <<eventsEnabled, frames, panic>>
      /\ slot' = [slot EXCEPT ![r] = "cancelled"]
  BY DEF T_CancelRepeatingEvent
<1>4. /\ events' \in Seq(Event) /\ Sorted'
      /\ \A i, j \in DOMAIN events' : events'[i].id = events'[j].id => i = j
      /\ \A i \in DOMAIN events' : \E j \in DOMAIN events : events'[i].id = events[j].id
  <2>1. CASE UNCHANGED events
    BY <1>1, <1>2, <2>1 DEF Sorted, OneInstance
  <2>2. ASSUME NEW k \in DOMAIN events, events' = RemoveAt(events, k)
        PROVE  /\ events' \in Seq(Event) /\ Sorted'
               /\ \A i, j \in DOMAIN events' : events'[i].id = events'[j].id => i = j
               /\ \A i \in DOMAIN events' : \E j \in DOMAIN events : events'[i].id = events[j].id
    <3>1. /\ events' \in Seq(Event) /\ Len(events') = Len(events) - 1
          /\ \A j \in 1..(Len(events) - 1) : events'[j] = IF j < k THEN events[j] ELSE events[j + 1]
      <4> HIDE DEF Event
      <4>1. events \in Seq(Event) /\ k \in 1..Len(events)
        BY <1>2
      <4>2. /\ RemoveAt(events, k) \in Seq(Event) /\ Len(RemoveAt(events, k)) = Len(events) - 1
            /\ \A j \in 1..(Len(events) - 1) :
                 RemoveAt(events, k)[j] = IF j < k THEN events[j] ELSE events[j + 1]
        BY ONLY <4>1, RemoveAtElements, Zenon
      <4>3. QED
        BY <2>2, <4>2
    <3>2. DOMAIN events' = 1..(Len(events) - 1)
      <4> HIDE DEF Event
      <4>1. QED
        BY <3>1, LenProperties
    <3> DEFINE at(j) == IF j < k THEN j ELSE j + 1
    <3>3. \A j \in DOMAIN events' : at(j) \in DOMAIN events /\ events'[j] = events[at(j)]
      BY <1>2, <3>1, <3>2
    <3>4. \A i, j \in DOMAIN events' : (i < j => at(i) < at(j)) /\ (at(i) = at(j) => i = j)
      BY <1>2, <3>2
    <3> HIDE DEF at
    <3>5. Sorted'
      BY <1>1, <3>3, <3>4 DEF Sorted
    <3>6. \A i, j \in DOMAIN events' : events'[i].id = events'[j].id => i = j
      BY <1>1, <3>3, <3>4 DEF OneInstance
    <3>7. QED
      BY <3>1, <3>3, <3>5, <3>6
  <2>3. QED
    BY <2>1, <2>2 DEF T_CancelRepeatingEvent, RemoveQueued
<1>5. dec' \in -1..DEC_IDLE /\ decPending' \in BOOLEAN
  <2>1. CASE programNextDEC(events')
    <3>1. dec' \in 0..DEC_IDLE /\ decPending' \in BOOLEAN
      BY <1>1, <1>4, <2>1, ProgramArms
    <3>2. QED
      BY <3>1, TimerAssumption
  <2>2. CASE UNCHANGED <<dec, decPending>>
    BY <1>1, <2>2 DEF TypeOK
  <2>3. QED
    BY <2>1, <2>2 DEF T_CancelRepeatingEvent
<1>6. slot' \in [Repeating -> {"free", "set", "cancelled"}]
      /\ \A q \in Repeating : slot'[q] = "free" => slot[q] = "free"
  BY <1>1, <1>3 DEF TypeOK
<1>7. TypeOK'
  BY <1>1, <1>3, <1>4, <1>5, <1>6 DEF TypeOK, Event
<1>8. OneInstance'
  <2>1. ASSUME NEW j \in DOMAIN events'
        PROVE  ~Held(events'[j].id)
    BY <1>1, <1>4 DEF OneInstance
  <2>2. ASSUME NEW j \in DOMAIN events'
        PROVE  (~Held(events[j].id))'
    BY <1>3, <2>1 DEF Held, Holds
  <2>3. (\A i, j \in DOMAIN frames, id \in Ids : Holds(i, id) /\ Holds(j, id) => i = j)'
    <3>1. \A i, j \in DOMAIN frames, id \in Ids : Holds(i, id) /\ Holds(j, id) => i = j
      BY <1>1 DEF OneInstance
    <3>2. QED
      BY <1>3, <3>1 DEF Holds
  <2>4. QED
    BY <1>4, <2>2, <2>3 DEF OneInstance
<1>9. FreeOut'
  <2>1. ASSUME NEW q \in Repeating, slot'[q] = "free"
        PROVE  ~Queued(q)' /\ ~Held(q)'
    <3>1. ~Queued(q) /\ ~Held(q)
      BY <1>1, <1>6, <2>1 DEF FreeOut
    <3>2. QED
      BY <1>3, <1>4, <3>1 DEF Queued, Held, Holds
  <2>2. QED
    BY <2>1 DEF FreeOut
<1>10. QED
  BY <1>4, <1>7, <1>8, <1>9 DEF TimerInv

LEMMA StepInv == TimerInv /\ [Next]_vars => TimerInv'
<1> SUFFICES ASSUME TimerInv, [Next]_vars PROVE TimerInv'
  OBVIOUS
<1>1. CASE Tick
  BY <1>1, TickInv
<1>2. CASE TakeDEC
  BY <1>2, TakeDECInv
<1>3. CASE Handler
  BY <1>3, HandlerReturnInv, HandlerPopInv, ReturnOneShotInv, ReturnRepeatingInv,
     CheckRepeatingInv, QueueEventInv DEF Handler
<1>4. CASE Callers
  BY <1>4, RegisterInv, CancelInv, CallQueueEventInv, IrqQueueEventInv, EnableEventsInv DEF Callers
<1>5. CASE UNCHANGED vars
  <2>1. UNCHANGED <<events, slot, eventsEnabled, dec, decPending, frames, panic>>
    BY <1>5 DEF vars
  <2>2. TypeOK' /\ Sorted' /\ OneInstance' /\ FreeOut'
    BY <2>1 DEF TimerInv, TypeOK, Sorted, OneInstance, FreeOut, Queued, Held, Holds
  <2>3. QED
    BY <2>2 DEF TimerInv
<1>6. QED
  BY <1>1, <1>2, <1>3, <1>4, <1>5 DEF Next

LEMMA InvHolds == Spec => []TimerInv
<1>1. QED
  BY InitInv, StepInv, PTL DEF Spec

-----------------------------------------------------------------------------
(* The queue is in order and no event is in two places, whatever the        *)
(* nesting of handlers and whoever cancels (timer.c:121-170, 215-262).      *)
THEOREM TimerCorrect == Spec => []OrderKept
<1>1. TimerInv => OrderKept
  BY DEF TimerInv, OrderKept
<1>2. QED
  BY <1>1, InvHolds, PTL

-----------------------------------------------------------------------------
(* The array never overflows.                                               *)

LEMMA FullQueueHoldsAll ==
  ASSUME TimerInv, NEW id \in Ids, ~Queued(id), Cardinality(Ids) <= MAX_EVENTS
  PROVE  Len(events) # MAX_EVENTS
<1> SUFFICES ASSUME Len(events) = MAX_EVENTS PROVE FALSE
  OBVIOUS
<1> DEFINE S == 1..MAX_EVENTS
           T == Ids \ {id}
           f == [i \in S |-> events[i].id]
<1>1. /\ DOMAIN events = S
      /\ \A i \in S : events[i].id \in Ids
  BY EventsSeq DEF TimerInv
<1>2. \A i \in S : events[i].id # id
  BY <1>1 DEF Queued
<1>3. f \in [S -> T]
  BY <1>1, <1>2
<1>4. IsFiniteSet(T) /\ Cardinality(T) = Cardinality(Ids) - 1 /\ Cardinality(Ids) \in Nat
  BY TimerAssumption, FS_RemoveElement, FS_CardinalityType
<1>5. IsFiniteSet(S) /\ Cardinality(S) = MAX_EVENTS
  <2>1. MAX_EVENTS \in Int /\ MAX_EVENTS >= 1
    BY TimerAssumption
  <2>2. QED
    BY <2>1, FS_Interval, 1 \in Int
<1>6. Cardinality(T) < Cardinality(S)
  BY <1>4, <1>5, TimerAssumption
<1>7. PICK i \in S, j \in S : i # j /\ f[i] = f[j]
  <2> HIDE DEF S, T, f
  <2>1. QED
    BY <1>3, <1>4, <1>5, <1>6, FS_PigeonHole
<1>8. QED
  BY <1>1, <1>7 DEF TimerInv, OneInstance

(* The assertion of T_QueueEvent (timer.c:135) never fails when there are   *)
(* no more events than slots.                                               *)
THEOREM NeverOverflows == Spec => []NoOverflow
<1>1. Init => NoOverflow
  BY DEF Init, NoOverflow
<1>2. TimerInv /\ NoOverflow /\ [Next]_vars => NoOverflow'
  <2> SUFFICES ASSUME TimerInv, panic # "overflow", Cardinality(Ids) <= MAX_EVENTS, [Next]_vars
               PROVE  panic' # "overflow"
    BY DEF NoOverflow
  <2>1. ASSUME NEW id \in Ids, NEW rem, ~Queued(id), QueueLocked(id, rem)
        PROVE  panic' # "overflow"
    BY <2>1, FullQueueHoldsAll DEF QueueLocked
  <2>2. CASE QueueEvent
    <3>1. Top.arg \in Ids /\ Held(Top.arg)
      BY <2>2, StackTop DEF TimerInv, TypeOK, QueueEvent, FrameOK, Frame, Top, Held, Holds
    <3>2. ~Queued(Top.arg)
      BY <3>1 DEF TimerInv, OneInstance, Queued
    <3>3. QED
      BY <2>1, <2>2, <3>1, <3>2 DEF QueueEvent
  <2>3. ASSUME NEW o \in OneShot, NEW d \in Delays, IrqQueueEvent(o, d)
        PROVE  panic' # "overflow"
    BY <2>1, <2>3 DEF IrqQueueEvent, Ids
  <2>4. CASE Tick
    BY <2>4 DEF Tick
  <2>5. CASE TakeDEC
    BY <2>5 DEF TakeDEC
  <2>6. CASE Handler /\ ~QueueEvent
    BY <2>6 DEF Handler, HandlerReturn, HandlerPop, ReturnOneShot, ReturnRepeating, CheckRepeating
  <2>7. ASSUME Callers, \A o \in OneShot, d \in Delays : ~IrqQueueEvent(o, d)
        PROVE  panic' # "overflow"
    BY <2>7 DEF Callers, Register, T_CancelRepeatingEvent, CallQueueEvent, T_EnableEvents
  <2>8. CASE UNCHANGED vars
    BY <2>8 DEF vars
  <2>9. QED
    BY <2>2, <2>3, <2>4, <2>5, <2>6, <2>7, <2>8 DEF Next
<1>3. QED
  BY <1>1, <1>2, InvHolds, PTL DEF Spec

-----------------------------------------------------------------------------
(* The first event is never forgotten.                                      *)

(* Some handler will look at the queue without being told to.               *)
Watched == \E i \in DOMAIN frames : frames[i].pc = "loop" \/ frames[i].next # None

(* A change of the top frame keeps the queue watched, if the top frame was  *)
(* not watching or the new one does.                                        *)
LEMMA SetTopWatched ==
  ASSUME TypeOK, NEW f \in Frame, SetTop(f), Watched,
         f.pc = "loop" \/ f.next # None \/ (Top.pc # "loop" /\ f.next = Top.next)
  PROVE  Watched'
<1>1. /\ DOMAIN frames' = 1..Depth
      /\ \A i \in 1..Depth : frames'[i] = IF i = Depth THEN f ELSE frames[i]
  BY SetTopFrames
<1>2. DOMAIN frames = 1..Depth /\ Depth \in 1..Depth
  BY StackTop
<1>3. PICK i \in 1..Depth : frames[i].pc = "loop" \/ frames[i].next # None
  BY <1>2 DEF Watched
<1>4. CASE i = Depth
  BY <1>1, <1>2, <1>3, <1>4 DEF Watched, Top
<1>5. CASE i # Depth
  BY <1>1, <1>3, <1>5 DEF Watched
<1>6. QED
  BY <1>4, <1>5

LEMMA ProgramArmed ==
  ASSUME TypeOK, events' \in Seq(Event), programNextDEC(events')
  PROVE  events' # <<>> => dec' >= 0 /\ (dec' <= events'[1].rem \/ dec' <= 1)
<1>1. /\ dec' \in 0..DEC_IDLE
      /\ events' # <<>> => dec' <= events'[1].rem \/ dec' <= 1
  BY ProgramArms
<1>2. QED
  BY <1>1, TimerAssumption

(* The locked part of T_QueueEvent arms the decrementer or leaves the first *)
(* event and the decrementer alone.                                         *)
LEMMA QueueLockedArms ==
  ASSUME TypeOK, NEW id \in Ids, NEW rem \in Int, QueueLocked(id, rem)
  PROVE  \/ panic' = "overflow"
         \/ eventsEnabled /\ programNextDEC(events')
         \/ ~eventsEnabled
         \/ /\ events # <<>> /\ events'[1] = events[1]
            /\ UNCHANGED <<dec, decPending, panic>>
<1> DEFINE e == [id |-> id, rem |-> rem]
<1>1. ASSUME NEW k \in 1..(Len(events) + 1), events' = InsertAt(events, k, e), k # 1
      PROVE  events # <<>> /\ events'[1] = events[1]
  <2>1. /\ events \in Seq(Event) /\ e \in Event /\ k \in 1..(Len(events) + 1) /\ Len(events) \in Nat
    BY EventsSeq DEF Event
  <2> HIDE DEF e, Event
  <2>2. \A j \in 1..(Len(events) + 1) :
          InsertAt(events, k, e)[j] = IF j < k THEN events[j] ELSE IF j = k THEN e ELSE events[j - 1]
    <3>1. events \in Seq(Event) /\ e \in Event /\ k \in 1..(Len(events) + 1)
      BY <2>1
    <3>2. /\ InsertAt(events, k, e) \in Seq(Event)
          /\ Len(InsertAt(events, k, e)) = Len(events) + 1
          /\ \A j \in 1..(Len(events) + 1) :
               InsertAt(events, k, e)[j]
                 = IF j < k THEN events[j] ELSE IF j = k THEN e ELSE events[j - 1]
      BY ONLY <3>1, InsertAtElements, SMT
    <3>3. QED
      BY <3>2
  <2>3. 1 \in 1..(Len(events) + 1) /\ 1 < k /\ Len(events) # 0
    BY <1>1, <2>1
  <2>4. QED
    BY <1>1, <2>2, <2>3
<1>2. QED
  BY <1>1 DEF QueueLocked

LEMMA StepNotLost ==
  ASSUME IdleExpires, TimerInv, NoLostEvent, [Next]_vars
  PROVE  NoLostEvent'
<1> DEFINE Armed == decPending \/ (dec >= 0 /\ (dec <= events[1].rem \/ dec <= 1))
<1>1. TypeOK /\ TypeOK'
  BY StepInv DEF TimerInv
<1>2. events' \in Seq(Event)
  BY <1>1 DEF TypeOK, Event
<1> SUFFICES ASSUME panic' = "no", eventsEnabled', events' # <<>>
             PROVE  Armed' \/ Watched'
  BY DEF NoLostEvent, Watched
<1>3. panic = "no" /\ eventsEnabled /\ events # <<>> => Armed \/ Watched
  BY DEF NoLostEvent, Watched
<1>4. programNextDEC(events') => Armed'
  BY <1>1, <1>2, ProgramArmed
<1>5. Top \in Frame /\ FrameOK(Top, Depth)
  BY <1>1, StackTop DEF TypeOK, Top
<1>6. ASSUME NEW f \in Frame, SetTop(f), Top.pc # "loop", f.pc = "loop" \/ f.next = Top.next, Watched
      PROVE  Watched'
  BY <1>1, <1>6, SetTopWatched
<1>7. ASSUME NEW f \in Frame, SetTop(f), f.pc = "loop" \/ f.next # None
      PROVE  Watched'
  BY <1>1, <1>7, SetTopFrames, StackTop DEF Watched
<1>8. ASSUME NEW f \in Frame, SetTop(f), Top.pc # "loop", f.pc = "loop" \/ f.next = Top.next,
             UNCHANGED <<events, eventsEnabled, dec, decPending, panic>>
      PROVE  Armed' \/ Watched'
  BY <1>3, <1>6, <1>8
<1>9. ASSUME NEW id \in Ids, NEW rem \in Int, QueueLocked(id, rem), UNCHANGED eventsEnabled,
             Watched => Watched', panic = "no"
      PROVE  Armed' \/ Watched'
  BY <1>1, <1>3, <1>4, <1>9, QueueLockedArms
<1>10. CASE Tick
  <2>1. /\ events # <<>> /\ events'[1].rem = Later(events[1].rem) /\ events[1].rem \in Int
    <3>1. DOMAIN events = 1..Len(events) /\ Len(events) \in Nat
          /\ \A i \in 1..Len(events) : events[i].rem \in Int /\ events[i] \in Event
      BY <1>1, EventsSeq, ElementOfSeq
    <3>2. events' = [i \in 1..Len(events) |-> [events[i] EXCEPT !.rem = Later(@)]]
      BY <1>10, <3>1 DEF Tick
    <3>3. Len(events) # 0
      BY <3>1, <3>2
    <3>4. 1 \in 1..Len(events)
      BY <3>1, <3>3
    <3>5. QED
      BY <3>1, <3>2, <3>4 DEF Event
  <2>2. Later(events[1].rem) \in Int /\ Later(events[1].rem) >= events[1].rem - 1
    BY <2>1 DEF Later
  <2>3. Armed \/ Watched
    BY <1>3, <1>10, <2>1 DEF Tick
  <2>4. CASE Watched
    <3>1. /\ DOMAIN frames' = DOMAIN frames
          /\ \A i \in DOMAIN frames : frames'[i].pc = frames[i].pc /\ frames'[i].next = frames[i].next
      BY <1>1, <1>10, StackTop DEF Tick, Frame
    <3>2. QED
      BY <2>4, <3>1 DEF Watched
  <2>5. CASE decPending
    BY <1>1, <1>10, <2>5 DEF Tick, TypeOK
  <2>6. CASE dec >= 0 /\ (dec <= events[1].rem \/ dec <= 1)
    <3>1. dec \in Int
      BY <1>1, TimerAssumption DEF TypeOK
    <3>2. CASE dec = 0
      BY <1>10, <3>2 DEF Tick
    <3>3. CASE dec # 0
      <4>1. dec' = dec - 1
        BY <1>10, <2>6, <3>3 DEF Tick
      <4>2. QED
        BY <2>1, <2>2, <2>6, <3>1, <3>3, <4>1
    <3>4. QED
      BY <3>2, <3>3
  <2>7. QED
    BY <2>3, <2>4, <2>5, <2>6
<1>11. CASE TakeDEC
  <2>1. frames' = Append(frames, HandlerFrame)
    BY <1>11 DEF TakeDEC
  <2>2. frames \in Seq(Frame) /\ HandlerFrame \in Frame /\ HandlerFrame.pc = "loop"
    BY <1>1 DEF TypeOK, HandlerFrame, Frame
  <2> HIDE DEF Frame
  <2>3. Len(frames) + 1 \in DOMAIN frames' /\ frames'[Len(frames) + 1] = HandlerFrame
    BY <2>1, <2>2
  <2>4. QED
    BY <2>2, <2>3 DEF Watched
<1>12. CASE HandlerReturn
  BY <1>4, <1>12 DEF HandlerReturn
<1>13. CASE HandlerPop
  <2>1. CASE Due(events')
    <3> DEFINE f == [Top EXCEPT !.pc = "call", !.ev = events[1].id, !.next = events'[1].id]
    <3>1. events'[1].id \in Ids /\ events[1].id \in Ids
      <4> HIDE DEF Event
      <4>1. events # <<>> /\ events \in Seq(Event)
        BY <1>1, <1>13, EventsSeq DEF HandlerPop, Due
      <4>2. events[1] \in Event /\ events'[1] \in Event
        BY <1>2, <4>1, EmptySeq, ElementOfSeq, LenProperties
      <4>3. QED
        BY <4>2 DEF Event
    <3>2. f \in Frame /\ f.next = events'[1].id
      BY <1>5, <3>1 DEF Frame
    <3>3. SetTop(f)
      BY <1>13, <2>1 DEF HandlerPop
    <3>4. f.next # None
      BY <3>1, <3>2, TimerAssumption
    <3> HIDE DEF f
    <3>5. QED
      BY <1>7, <3>2, <3>3, <3>4
  <2>2. CASE ~Due(events')
    BY <1>4, <1>13, <2>2 DEF HandlerPop, ArmForCallback
  <2>3. QED
    BY <2>1, <2>2
<1>14. CASE ReturnOneShot
  <2>1. HandlerFrame \in Frame /\ HandlerFrame.pc = "loop"
    BY DEF HandlerFrame, Frame
  <2>2. QED
    BY <1>7, <1>14, <2>1 DEF ReturnOneShot
<1>15. CASE ReturnRepeating
  <2> DEFINE f == [Top EXCEPT !.pc = "check"]
  <2>1. f \in Frame /\ f.next = Top.next /\ SetTop(f) /\ Top.pc # "loop"
    BY <1>5, <1>15 DEF ReturnRepeating, Frame
  <2> HIDE DEF f
  <2>2. QED
    BY <1>8, <1>15, <2>1 DEF ReturnRepeating
<1>16. CASE CheckRepeating
  <2>1. CASE StillSet(Top.ev)
    <3> DEFINE f == [Top EXCEPT !.pc = "queue", !.arg = Top.ev, !.rem = Period[Top.ev]]
    <3>1. Top.ev \in Repeating /\ Top.pc # "loop"
      BY <1>5, <1>16 DEF CheckRepeating, FrameOK
    <3>2. f \in Frame /\ f.next = Top.next
      BY <1>5, <3>1, TimerAssumption, Period[Top.ev] \in Int DEF Frame, Ids
    <3>3. SetTop(f) /\ UNCHANGED <<events, slot, eventsEnabled, dec, decPending, panic>>
      BY <1>16, <2>1 DEF CheckRepeating
    <3> HIDE DEF f
    <3>4. QED
      BY <1>8, <3>1, <3>2, <3>3
  <2>2. CASE ~StillSet(Top.ev)
    <3>1. HandlerFrame \in Frame /\ HandlerFrame.pc = "loop"
      BY DEF HandlerFrame, Frame
    <3>2. QED
      BY <1>7, <1>16, <2>2, <3>1 DEF CheckRepeating
  <2>3. QED
    BY <2>1, <2>2
<1>17. CASE panic = "no" /\ QueueEvent
  <2>1. Top.arg \in Ids /\ Top.rem \in Int /\ Top.pc # "loop"
    BY <1>5, <1>17 DEF QueueEvent, FrameOK, Frame
  <2>2. AfterQueue(Top) \in Frame
    BY <1>5, AfterQueueFrame
  <2>3. AfterQueue(Top).pc = "loop" \/ AfterQueue(Top).next = Top.next
    <3>1. \A p, z : [Top EXCEPT !.pc = p, !.arg = None, !.rem = z].next = Top.next
      BY <1>5 DEF Frame
    <3>2. QED
      BY <3>1 DEF AfterQueue, HandlerFrame
  <2>4. Watched => Watched'
    BY <1>6, <1>17, <2>1, <2>2, <2>3 DEF QueueEvent
  <2>5. QED
    BY <1>9, <1>17, <2>1, <2>4 DEF QueueEvent
<1>18. ASSUME NEW o \in OneShot, NEW d \in Delays, panic = "no", IrqQueueEvent(o, d)
       PROVE  Armed' \/ Watched'
  <2>1. o \in Ids /\ d \in Int
    BY TimerAssumption DEF Ids
  <2>2. Watched => Watched'
    BY <1>18 DEF IrqQueueEvent, Watched
  <2>3. QED
    BY <1>9, <1>18, <2>1, <2>2 DEF IrqQueueEvent
<1>19. ASSUME NEW o \in OneShot, NEW d \in Delays, CallQueueEvent(o, d)
       PROVE  Armed' \/ Watched'
  <2> DEFINE f == [Top EXCEPT !.pc = "queue", !.arg = o, !.rem = d]
  <2>1. o \in Ids /\ d \in Int
    BY TimerAssumption DEF Ids
  <2>2. f \in Frame /\ f.next = Top.next /\ SetTop(f) /\ Top.pc # "loop"
    BY <1>5, <1>19, <2>1 DEF CallQueueEvent, Frame
  <2> HIDE DEF f
  <2>3. QED
    BY <1>8, <1>19, <2>2 DEF CallQueueEvent
<1>20. ASSUME NEW r \in Repeating, Register(r)
       PROVE  Armed' \/ Watched'
  <2> DEFINE f == [Top EXCEPT !.pc = "queue", !.arg = r, !.rem = Period[r]]
  <2>1. r \in Ids /\ Period[r] \in Int
    BY TimerAssumption DEF Ids
  <2>2. f \in Frame /\ f.next = Top.next /\ SetTop(f) /\ Top.pc # "loop"
    BY <1>5, <1>20, <2>1 DEF Register, Frame
  <2> HIDE DEF f
  <2>3. QED
    BY <1>8, <1>20, <2>2 DEF Register
<1>21. ASSUME NEW r \in Repeating, T_CancelRepeatingEvent(r)
       PROVE  Armed' \/ Watched'
  BY <1>4, <1>21 DEF T_CancelRepeatingEvent
<1>22. CASE T_EnableEvents
  BY <1>4, <1>22 DEF T_EnableEvents
<1>23. CASE UNCHANGED vars
  BY <1>3, <1>23 DEF vars, Watched
<1>24. QED
  BY <1>10, <1>11, <1>12, <1>13, <1>14, <1>15, <1>16, <1>17, <1>18, <1>19, <1>20, <1>21, <1>22, <1>23
     DEF Next, Handler, Callers

(* With a decrementer that never stops counting, a queued event is never    *)
(* left, once events are enabled, without an exception, a handler or a      *)
(* running callback that gets to it (timer.c:97-112, 215-262).              *)
THEOREM NeverLost == IdleExpires => (Spec => []NoLostEvent)
<1> SUFFICES ASSUME IdleExpires PROVE Spec => []NoLostEvent
  OBVIOUS
<1>1. Init => NoLostEvent
  BY DEF Init, NoLostEvent
<1>2. TimerInv /\ NoLostEvent /\ [Next]_vars => NoLostEvent'
  BY StepNotLost
<1>3. QED
  BY <1>1, <1>2, InvHolds, PTL DEF Spec

-----------------------------------------------------------------------------
(* What has been cancelled stays out.                                       *)

(* Nobody is about to queue a slot that was cancelled. *)
NotBack(r) == ~Queued(r) /\ \A i \in DOMAIN frames : frames[i].arg # r
CancelledOut == \A r \in Repeating : slot[r] = "cancelled" => NotBack(r)

(* Changing the last frame brings in no argument but the new one's.         *)
LEMMA SetTopArg ==
  ASSUME TypeOK, NEW f, SetTop(f), NEW r, f.arg # r,
         \A i \in DOMAIN frames : frames[i].arg # r
  PROVE  \A i \in DOMAIN frames' : frames'[i].arg # r
<1>1. Depth \in Nat /\ DOMAIN frames = 1..Depth
  BY StackTop
<1>2. frames' = [frames EXCEPT ![Depth] = f]
  BY DEF SetTop
<1>3. QED
  BY <1>1, <1>2

(* The locked part of T_QueueEvent brings in its event only. *)
LEMMA QueueLockedOther ==
  ASSUME TimerInv, NEW id \in Ids, NEW rem \in Int, ~Queued(id), QueueLocked(id, rem),
         NEW r, r # id, ~Queued(r)
  PROVE  ~Queued(r)'
<1>1. \A i \in DOMAIN events' : events'[i].id = id \/ Queued(events'[i].id)
  BY QueueLockedAdds DEF TimerInv
<1>2. QED
  BY <1>1 DEF Queued

(* Cancelling takes the wrapper of r out of the array, and r is in no frame *)
(* that will queue it: only a frame that runs its callback holds it.        *)
LEMMA CancelTakesOut ==
  ASSUME TimerInv, CancelScope # "any", NEW r \in Repeating, T_CancelRepeatingEvent(r)
  PROVE  NotBack(r)'
<1>1. TypeOK /\ OneInstance /\ r \in Ids /\ r # None /\ frames' = frames
  BY TimerAssumption DEF TimerInv, Ids, T_CancelRepeatingEvent
<1>2. ~Queued(r)'
  <2>1. CASE ~Queued(r) /\ UNCHANGED events
    BY <2>1 DEF Queued
  <2>2. ASSUME NEW k \in DOMAIN events, events[k].id = r, events' = RemoveAt(events, k)
        PROVE  ~Queued(r)'
    <3>1. events \in Seq(Event) /\ DOMAIN events = 1..Len(events) /\ Len(events) \in Nat
      BY <1>1, EventsSeq
    <3>2. /\ events' \in Seq(Event) /\ Len(events') = Len(events) - 1
          /\ \A j \in 1..(Len(events) - 1) : events'[j] = IF j < k THEN events[j] ELSE events[j + 1]
      <4> HIDE DEF Event
      <4>1. k \in 1..Len(events)
        BY <3>1
      <4>2. /\ RemoveAt(events, k) \in Seq(Event) /\ Len(RemoveAt(events, k)) = Len(events) - 1
            /\ \A j \in 1..(Len(events) - 1) :
                 RemoveAt(events, k)[j] = IF j < k THEN events[j] ELSE events[j + 1]
        BY ONLY <3>1, <4>1, RemoveAtElements, Zenon
      <4>3. QED
        BY <2>2, <4>2
    <3>3. DOMAIN events' = 1..(Len(events) - 1)
      <4> HIDE DEF Event
      <4>1. QED
        BY <3>2, LenProperties
    <3>4. ASSUME NEW j \in DOMAIN events', events'[j].id = r PROVE FALSE
      <4>1. PICK i \in DOMAIN events : events'[j] = events[i] /\ i # k
        BY <2>2, <3>1, <3>2, <3>3
      <4>2. QED
        BY <1>1, <2>2, <3>4, <4>1 DEF OneInstance
    <3>5. QED
      BY <3>4 DEF Queued
  <2>3. QED
    BY <2>1, <2>2 DEF T_CancelRepeatingEvent, RemoveQueued
<1>3. Depth \in Nat /\ Depth >= 1 /\ DOMAIN frames = 1..Depth /\ FrameOK(Top, Depth)
  BY <1>1, StackTop DEF TypeOK, Top
<1>4. Top.arg # r
  BY <1>1, <1>3 DEF T_CancelRepeatingEvent, MayCancel, FrameOK
<1>5. ASSUME NEW i \in DOMAIN frames PROVE frames[i].arg # r
  <2>1. CASE Top.pc = "main"
    BY <1>3, <1>4, <2>1 DEF FrameOK, Top
  <2>2. CASE Top.pc = "call" /\ Top.ev = r
    <3>1. Holds(Depth, r)
      BY <2>2 DEF Holds, Top
    <3>2. frames[i].arg = r => i = Depth
      BY <1>1, <1>3, <3>1 DEF OneInstance, Holds
    <3>3. QED
      BY <1>4, <3>2 DEF Top
  <2>3. QED
    BY <2>1, <2>2 DEF T_CancelRepeatingEvent, MayCancel
<1>6. QED
  BY <1>1, <1>2, <1>5 DEF NotBack

(* Taking a wrapper out of the array brings nothing in. *)
LEMMA RemoveQueuedIds ==
  ASSUME TypeOK, NEW r \in Repeating, RemoveQueued(r)
  PROVE  \A i \in DOMAIN events' : \E j \in DOMAIN events : events'[i].id = events[j].id
<1>1. events \in Seq(Event) /\ DOMAIN events = 1..Len(events) /\ Len(events) \in Nat
  BY EventsSeq
<1>2. ASSUME NEW k \in DOMAIN events, events' = RemoveAt(events, k)
      PROVE  \A i \in DOMAIN events' : \E j \in DOMAIN events : events'[i].id = events[j].id
  <2> HIDE DEF Event
  <2>1. k \in 1..Len(events)
    BY <1>1
  <2>2. /\ RemoveAt(events, k) \in Seq(Event) /\ Len(RemoveAt(events, k)) = Len(events) - 1
        /\ \A j \in 1..(Len(events) - 1) :
             RemoveAt(events, k)[j] = IF j < k THEN events[j] ELSE events[j + 1]
    BY ONLY <1>1, <2>1, RemoveAtElements, Zenon
  <2>3. DOMAIN events' = 1..(Len(events) - 1)
    BY <1>2, <2>2, LenProperties
  <2>4. \A i \in DOMAIN events' : /\ i < k => i \in DOMAIN events /\ events'[i] = events[i]
                                  /\ ~(i < k) => i + 1 \in DOMAIN events /\ events'[i] = events[i + 1]
    BY <1>1, <1>2, <2>1, <2>2, <2>3
  <2>5. QED
    BY <2>4
<1>3. QED
  BY <1>2 DEF RemoveQueued

LEMMA StepCancelled ==
  ASSUME TimerInv, CancelScope # "any", CancelledOut, [Next]_vars
  PROVE  CancelledOut'
<1>1. TypeOK /\ OneInstance /\ Top \in Frame /\ FrameOK(Top, Depth)
  BY StackTop DEF TimerInv, TypeOK, Top
<1> SUFFICES ASSUME NEW r \in Repeating, slot'[r] = "cancelled" PROVE NotBack(r)'
  BY DEF CancelledOut
<1>2. r \in Ids /\ r # None /\ r \notin OneShot
  BY TimerAssumption DEF Ids
<1>3. slot[r] = "cancelled" => NotBack(r)
  BY DEF CancelledOut
<1>4. CASE T_CancelRepeatingEvent(r)
  BY <1>4, CancelTakesOut
<1>5. slot[r] = "cancelled" \/ T_CancelRepeatingEvent(r)
  BY <1>1 DEF Next, Tick, TakeDEC, Handler, HandlerReturn, HandlerPop, ReturnOneShot,
     ReturnRepeating, CheckRepeating, QueueEvent, Callers, Register, T_CancelRepeatingEvent,
     CallQueueEvent, IrqQueueEvent, T_EnableEvents, vars, TypeOK
<1> SUFFICES ASSUME slot[r] = "cancelled", NotBack(r) PROVE NotBack(r)'
  BY <1>3, <1>4, <1>5
<1>6. ~Queued(r) /\ \A i \in DOMAIN frames : frames[i].arg # r
  BY DEF NotBack
<1>7. UNCHANGED events => ~Queued(r)'
  BY <1>6 DEF Queued
<1>8. UNCHANGED frames => \A i \in DOMAIN frames' : frames'[i].arg # r
  BY <1>6
<1>9. ASSUME NEW f, SetTop(f), f.arg # r PROVE \A i \in DOMAIN frames' : frames'[i].arg # r
  BY <1>1, <1>6, <1>9, SetTopArg
<1>10. HandlerFrame.arg # r
  BY <1>2 DEF HandlerFrame
<1>11. CASE Tick
  <2>1. /\ DOMAIN events' = DOMAIN events /\ \A i \in DOMAIN events : events'[i].id = events[i].id
    <3>1. DOMAIN events = 1..Len(events) /\ \A i \in 1..Len(events) : events[i] \in Event
      BY <1>1, EventsSeq, ElementOfSeq
    <3>2. events' = [i \in 1..Len(events) |-> [events[i] EXCEPT !.rem = Later(@)]]
      BY <1>11, <3>1 DEF Tick
    <3>3. QED
      BY <3>1, <3>2 DEF Event
  <2>2. /\ DOMAIN frames' = DOMAIN frames /\ \A i \in DOMAIN frames : frames'[i].arg = frames[i].arg
    BY <1>1, <1>11, StackTop DEF Tick, Frame
  <2>3. QED
    BY <1>6, <2>1, <2>2 DEF NotBack, Queued
<1>12. CASE TakeDEC
  <2>1. frames' = frames \/ frames' = Append(frames, HandlerFrame)
    BY <1>12 DEF TakeDEC
  <2>2. frames \in Seq(Frame) /\ HandlerFrame \in Frame
    BY <1>1 DEF TypeOK, Frame, HandlerFrame
  <2>3. \A i \in DOMAIN frames' : frames'[i].arg # r
    <3> HIDE DEF Frame
    <3>1. QED
      BY <1>6, <1>10, <2>1, <2>2, AppendProperties
  <2>4. QED
    BY <1>7, <1>12, <2>3 DEF TakeDEC, NotBack
<1>13. CASE HandlerReturn
  <2>1. frames' = Front(frames) /\ frames \in Seq(Frame) /\ frames # <<>>
    BY <1>1, <1>13 DEF HandlerReturn, TypeOK
  <2>2. \A i \in DOMAIN frames' : i \in DOMAIN frames /\ frames'[i] = frames[i]
    <3> HIDE DEF Frame
    <3>1. Front(frames) \in Seq(Frame) /\ Len(Front(frames)) = Len(frames) - 1
          /\ \A j \in 1..(Len(frames) - 1) : Front(frames)[j] = frames[j]
      BY <2>1, FrontElements
    <3>2. DOMAIN frames' = 1..(Len(frames) - 1) /\ DOMAIN frames = 1..Len(frames) /\ Len(frames) \in Nat
      BY <2>1, <3>1, LenProperties
    <3>3. QED
      BY <2>1, <3>1, <3>2
  <2>3. QED
    BY <1>6, <1>7, <1>13, <2>2 DEF HandlerReturn, NotBack
<1>14. CASE HandlerPop
  <2>1. /\ events' = Tail(events) /\ events # <<>> /\ events \in Seq(Event)
    BY <1>1, <1>14, EventsSeq DEF HandlerPop, Shifted, Due
  <2>2. \A i \in DOMAIN events' : \E j \in DOMAIN events : events'[i] = events[j]
    <3> HIDE DEF Event
    <3>1. /\ Tail(events) \in Seq(Event) /\ Len(Tail(events)) = Len(events) - 1
          /\ \A j \in 1..(Len(events) - 1) : Tail(events)[j] = events[j + 1]
      BY <2>1, TailElements
    <3>2. DOMAIN events' = 1..(Len(events) - 1) /\ DOMAIN events = 1..Len(events) /\ Len(events) \in Nat
      BY <2>1, <3>1, LenProperties
    <3>3. QED
      BY <2>1, <3>1, <3>2
  <2>3. PICK e, n : SetTop([Top EXCEPT !.pc = "call", !.ev = e, !.next = n])
    BY <1>14 DEF HandlerPop
  <2>4. [Top EXCEPT !.pc = "call", !.ev = e, !.next = n].arg # r
    BY <1>1, <1>2, <1>14 DEF HandlerPop, FrameOK, Frame
  <2>5. QED
    BY <1>6, <1>9, <2>2, <2>3, <2>4 DEF NotBack, Queued
<1>15. CASE ReturnOneShot
  BY <1>7, <1>9, <1>10, <1>15 DEF ReturnOneShot, NotBack
<1>16. CASE ReturnRepeating
  <2>1. [Top EXCEPT !.pc = "check"].arg # r
    BY <1>1, <1>2, <1>16 DEF ReturnRepeating, FrameOK, Frame
  <2>2. QED
    BY <1>7, <1>9, <1>16, <2>1 DEF ReturnRepeating, NotBack
<1>17. CASE CheckRepeating
  <2>1. StillSet(Top.ev) => [Top EXCEPT !.pc = "queue", !.arg = Top.ev, !.rem = Period[Top.ev]].arg # r
    BY <1>1 DEF StillSet, Frame
  <2>2. QED
    BY <1>7, <1>9, <1>10, <1>17, <2>1 DEF CheckRepeating, NotBack
<1>18. CASE QueueEvent
  <2>1. Top.arg \in Ids /\ Top.rem \in Int /\ Top.arg # r
    BY <1>1, <1>6, <1>18, StackTop DEF QueueEvent, FrameOK, Frame, Top
  <2>2. ~Queued(Top.arg)
    BY <1>1, <2>1, StackTop DEF OneInstance, Queued, Held, Holds, Top
  <2>3. ~Queued(r)'
    BY <1>6, <1>18, <2>1, <2>2, QueueLockedOther DEF QueueEvent
  <2>4. AfterQueue(Top).arg # r
    BY <1>1, <1>2, AfterQueueFrame
  <2>5. QED
    BY <1>9, <1>18, <2>3, <2>4 DEF QueueEvent, NotBack
<1>19. ASSUME NEW q \in Repeating, Register(q) PROVE NotBack(r)'
  <2>1. [Top EXCEPT !.pc = "queue", !.arg = q, !.rem = Period[q]].arg # r
    BY <1>1, <1>19 DEF Register, Frame
  <2>2. QED
    BY <1>7, <1>9, <1>19, <2>1 DEF Register, NotBack
<1>20. ASSUME NEW q \in Repeating, T_CancelRepeatingEvent(q) PROVE NotBack(r)'
  <2>1. CASE q = r
    BY <1>20, <2>1, CancelTakesOut
  <2>2. CASE q # r
    <3>1. \A i \in DOMAIN events' : \E j \in DOMAIN events : events'[i].id = events[j].id
      BY <1>1, <1>20, RemoveQueuedIds DEF T_CancelRepeatingEvent
    <3>2. QED
      BY <1>6, <1>8, <1>20, <3>1 DEF T_CancelRepeatingEvent, NotBack, Queued
  <2>3. QED
    BY <2>1, <2>2
<1>21. ASSUME NEW o \in OneShot, NEW d \in Delays, CallQueueEvent(o, d) PROVE NotBack(r)'
  <2>1. [Top EXCEPT !.pc = "queue", !.arg = o, !.rem = d].arg # r
    BY <1>1, <1>2 DEF Frame
  <2>2. QED
    BY <1>7, <1>9, <1>21, <2>1 DEF CallQueueEvent, NotBack
<1>22. ASSUME NEW o \in OneShot, NEW d \in Delays, IrqQueueEvent(o, d) PROVE NotBack(r)'
  <2>1. o \in Ids /\ d \in Int /\ o # r
    BY <1>2, TimerAssumption DEF Ids
  <2>2. ~Queued(r)'
    BY <1>6, <1>22, <2>1, QueueLockedOther DEF IrqQueueEvent
  <2>3. QED
    BY <1>8, <1>22, <2>2 DEF IrqQueueEvent, NotBack
<1>23. CASE T_EnableEvents
  BY <1>7, <1>8, <1>23 DEF T_EnableEvents, NotBack
<1>24. CASE UNCHANGED vars
  BY <1>7, <1>8, <1>24 DEF vars, NotBack
<1>25. QED
  BY <1>11, <1>12, <1>13, <1>14, <1>15, <1>16, <1>17, <1>18, <1>19, <1>20, <1>21, <1>22, <1>23, <1>24
     DEF Next, Handler, Callers

(* A repeating event that was cancelled, by the main program or by its own  *)
(* callback, is not queued again (timer.c:187-213, 316-318).                *)
THEOREM CancelledIsOut == CancelScope # "any" => (Spec => []CancelledStaysOut)
<1> SUFFICES ASSUME CancelScope # "any" PROVE Spec => []CancelledStaysOut
  OBVIOUS
<1>1. Init => CancelledOut
  BY DEF Init, CancelledOut
<1>2. TimerInv /\ CancelledOut /\ [Next]_vars => CancelledOut'
  BY StepCancelled
<1>3. CancelledOut => CancelledStaysOut
  BY DEF CancelledOut, CancelledStaysOut, NotBack
<1>4. QED
  BY <1>1, <1>2, <1>3, InvHolds, PTL DEF Spec

-----------------------------------------------------------------------------
(* The calendar.                                                            *)

DueIn(q) == [id \in {q[i].id : i \in DOMAIN q} |-> q[CHOOSE i \in DOMAIN q : q[i].id = id].rem]

(* What the queue holds for each event, if no event is in it twice. *)
LEMMA DueFacts ==
  ASSUME NEW q, \A i, j \in DOMAIN q : q[i].id = q[j].id => i = j
  PROVE  /\ DOMAIN DueIn(q) = {q[i].id : i \in DOMAIN q}
         /\ \A i \in DOMAIN q : DueIn(q)[q[i].id] = q[i].rem
<1>1. ASSUME NEW i \in DOMAIN q
      PROVE  (CHOOSE k \in DOMAIN q : q[k].id = q[i].id) = i
  OBVIOUS
<1>2. ASSUME NEW i \in DOMAIN q PROVE DueIn(q)[q[i].id] = q[i].rem
  BY <1>1 DEF DueIn
<1>3. QED
  BY <1>2 DEF DueIn

(* A function with these times is the calendar, wherever its events lie.    *)
LEMMA DueEqual ==
  ASSUME NEW q, \A i, j \in DOMAIN q : q[i].id = q[j].id => i = j,
         NEW g, g = [x \in DOMAIN g |-> g[x]],
         \A x : x \in DOMAIN g <=> \E i \in DOMAIN q : q[i].id = x,
         \A i \in DOMAIN q : q[i].rem = g[q[i].id]
  PROVE  DueIn(q) = g
<1> DEFINE h == DueIn(q)
<1>1. DOMAIN h = {q[i].id : i \in DOMAIN q} /\ \A i \in DOMAIN q : h[q[i].id] = q[i].rem
  BY DueFacts
<1>2. h = [x \in DOMAIN h |-> h[x]]
  BY DEF DueIn
<1> HIDE DEF h
<1>3. DOMAIN h = DOMAIN g
  <2>1. \A x : x \in DOMAIN h <=> x \in DOMAIN g
    BY <1>1
  <2>2. QED
    BY <2>1
<1>4. ASSUME NEW x \in DOMAIN g PROVE h[x] = g[x]
  <2>1. PICK i \in DOMAIN q : q[i].id = x
    OBVIOUS
  <2>2. QED
    BY <1>1, <2>1
<1>5. h = g
  BY <1>2, <1>3, <1>4
<1>6. QED
  BY <1>5 DEF h

(* The callbacks that have been entered, when only the last frame changes.  *)
LEMMA SetTopRunning ==
  ASSUME TimerInv, NEW f, SetTop(f)
  PROVE  Running' = ((Running \ {Top.ev}) \cup {f.ev}) \ {None}
<1>1. TypeOK /\ OneInstance
  BY DEF TimerInv
<1>2. Depth \in 1..Depth /\ DOMAIN frames = 1..Depth /\ \A i \in 1..Depth : frames[i].ev \in Ids \cup {None}
  BY <1>1, StackTop DEF Frame
<1>3. DOMAIN frames' = 1..Depth /\ \A i \in 1..Depth : frames'[i] = IF i = Depth THEN f ELSE frames[i]
  BY <1>2 DEF SetTop
<1>4. \A i \in 1..Depth : i # Depth /\ frames[i].ev = Top.ev => Top.ev = None
  BY <1>1, <1>2 DEF OneInstance, Holds, Top
<1>5. Running = {frames[i].ev : i \in 1..Depth} \ {None}
  BY <1>2 DEF Running
<1>6. Running' = {frames'[i].ev : i \in 1..Depth} \ {None}
  BY <1>3 DEF Running
<1>7. \A x : x \in Running' <=> x # None /\ (x = f.ev \/ \E i \in 1..Depth : i # Depth /\ x = frames[i].ev)
  BY <1>2, <1>3, <1>6
<1>8. \A x : x \in Running <=> x # None /\ (x = Top.ev \/ \E i \in 1..Depth : i # Depth /\ x = frames[i].ev)
  BY <1>2, <1>5 DEF Top
<1>9. QED
  BY <1>4, <1>7, <1>8

(* The locked part of T_QueueEvent posts its event, or the array is full.   *)
LEMMA QueueLockedPosts ==
  ASSUME TimerInv, NEW id \in Ids, NEW rem \in Int, ~Queued(id), QueueLocked(id, rem)
  PROVE  \/ panic' = "overflow" /\ DueTimes' = DueTimes
         \/ /\ id \notin DOMAIN DueTimes
            /\ DOMAIN DueTimes' = DOMAIN DueTimes \cup {id}
            /\ \A x \in DOMAIN DueTimes : DueTimes'[x] = DueTimes[x]
<1> DEFINE e == [id |-> id, rem |-> rem]
<1>1. /\ events \in Seq(Event) /\ Len(events) \in Nat /\ DOMAIN events = 1..Len(events)
      /\ \A i, j \in DOMAIN events : events[i].id = events[j].id => i = j
  BY EventsSeq DEF TimerInv, OneInstance
<1>2. e \in Event /\ e.id = id
  BY DEF Event
<1>3. \A i, j \in DOMAIN events' : events'[i].id = events'[j].id => i = j
  BY QueueLockedAdds DEF TimerInv
<1>4. DueTimes = DueIn(events) /\ DueTimes' = DueIn(events')
  BY DEF DueTimes, DueIn
<1>5. CASE events' = events /\ panic' = "overflow"
  BY <1>4, <1>5
<1>6. ASSUME NEW k \in 1..(Len(events) + 1), events' = InsertAt(events, k, e)
      PROVE  /\ id \notin DOMAIN DueTimes
             /\ DOMAIN DueTimes' = DOMAIN DueTimes \cup {id}
             /\ \A x \in DOMAIN DueTimes : DueTimes'[x] = DueTimes[x]
  <2> HIDE DEF e, Event
  <2>1. /\ events' \in Seq(Event) /\ Len(events') = Len(events) + 1
        /\ \A j \in 1..(Len(events) + 1) :
             events'[j] = IF j < k THEN events[j] ELSE IF j = k THEN e ELSE events[j - 1]
    <3>1. events \in Seq(Event) /\ e \in Event /\ k \in 1..(Len(events) + 1)
      BY <1>1, <1>2, <1>6
    <3>2. /\ InsertAt(events, k, e) \in Seq(Event)
          /\ Len(InsertAt(events, k, e)) = Len(events) + 1
          /\ \A j \in 1..(Len(events) + 1) :
               InsertAt(events, k, e)[j]
                 = IF j < k THEN events[j] ELSE IF j = k THEN e ELSE events[j - 1]
      BY ONLY <3>1, InsertAtElements, SMT
    <3>3. QED
      BY <1>6, <3>2
  <2>2. DOMAIN events' = 1..(Len(events) + 1)
    BY <2>1, LenProperties
  <2>3. \A i \in DOMAIN events : \E j \in DOMAIN events' : events'[j] = events[i]
    <3> SUFFICES ASSUME NEW i \in DOMAIN events
                 PROVE  \E j \in DOMAIN events' : events'[j] = events[i]
      OBVIOUS
    <3>1. CASE i < k
      BY <1>1, <2>1, <2>2, <3>1
    <3>2. CASE i >= k
      <4>1. i + 1 \in DOMAIN events' /\ events'[i + 1] = events[i]
        BY <1>1, <2>1, <2>2, <3>2
      <4>2. QED
        BY <4>1
    <3>3. QED
      BY <1>1, <3>1, <3>2
  <2>4. k \in DOMAIN events' /\ events'[k].id = id
    BY <1>1, <1>2, <2>1, <2>2
  <2>5. \A i \in DOMAIN events' : events'[i].id = id \/ Queued(events'[i].id)
    BY QueueLockedAdds DEF TimerInv
  <2>6. /\ DOMAIN DueTimes = {events[i].id : i \in DOMAIN events}
        /\ \A i \in DOMAIN events : DueTimes[events[i].id] = events[i].rem
    BY <1>1, <1>4, DueFacts
  <2>7. /\ DOMAIN DueTimes' = {events'[i].id : i \in DOMAIN events'}
        /\ \A i \in DOMAIN events' : DueTimes'[events'[i].id] = events'[i].rem
    BY <1>3, <1>4, DueFacts
  <2>8. id \notin DOMAIN DueTimes
    BY <2>6 DEF Queued
  <2>9. \A x : x \in DOMAIN DueTimes' <=> x \in DOMAIN DueTimes \/ x = id
    <3>1. \A x : x \in DOMAIN DueTimes <=> Queued(x)
      BY <2>6 DEF Queued
    <3>2. \A x \in DOMAIN DueTimes : x \in DOMAIN DueTimes'
      BY <2>3, <2>6, <2>7
    <3>3. QED
      BY <2>4, <2>5, <2>7, <3>1, <3>2
  <2>10. ASSUME NEW x \in DOMAIN DueTimes PROVE DueTimes'[x] = DueTimes[x]
    <3>1. PICK i \in DOMAIN events : events[i].id = x
      BY <2>6
    <3>2. PICK j \in DOMAIN events' : events'[j] = events[i]
      BY <2>3
    <3>3. QED
      BY <2>6, <2>7, <3>1, <3>2
  <2>11. DOMAIN DueTimes' = DOMAIN DueTimes \cup {id}
    BY <2>9
  <2>12. QED
    BY <2>8, <2>10, <2>11
<1>7. QED
  BY <1>5, <1>6 DEF QueueLocked

(* Taking the first event with an id out of the array takes it out of the   *)
(* calendar.                                                                *)
LEMMA TakenOut ==
  ASSUME TimerInv, NEW k \in DOMAIN events,
         DOMAIN events' = 1..(Len(events) - 1),
         \A j \in 1..(Len(events) - 1) : events'[j] = IF j < k THEN events[j] ELSE events[j + 1]
  PROVE  /\ events[k].id \in DOMAIN DueTimes
         /\ DueTimes' = [x \in DOMAIN DueTimes \ {events[k].id} |-> DueTimes[x]]
<1> DEFINE g == [x \in DOMAIN DueTimes \ {events[k].id} |-> DueTimes[x]]
<1>1. /\ Len(events) \in Nat /\ DOMAIN events = 1..Len(events)
      /\ \A i, j \in DOMAIN events : events[i].id = events[j].id => i = j
  BY EventsSeq DEF TimerInv, OneInstance
<1>2. DueTimes = DueIn(events) /\ DueTimes' = DueIn(events')
  BY DEF DueTimes, DueIn
<1>3. /\ DOMAIN DueTimes = {events[i].id : i \in DOMAIN events}
      /\ \A i \in DOMAIN events : DueTimes[events[i].id] = events[i].rem
  <2>1. /\ DOMAIN DueIn(events) = {events[i].id : i \in DOMAIN events}
        /\ \A i \in DOMAIN events : DueIn(events)[events[i].id] = events[i].rem
    BY ONLY <1>1, DueFacts, Zenon
  <2>2. QED
    BY <1>2, <2>1
<1>4. \A j \in DOMAIN events' :
         LET i == IF j < k THEN j ELSE j + 1
         IN  i \in DOMAIN events /\ i # k /\ events'[j] = events[i]
  BY <1>1
<1>5. \A i, j \in DOMAIN events' : events'[i].id = events'[j].id => i = j
  <2> SUFFICES ASSUME NEW i \in DOMAIN events', NEW j \in DOMAIN events',
                      events'[i].id = events'[j].id
               PROVE  i = j
    OBVIOUS
  <2> DEFINE a == IF i < k THEN i ELSE i + 1
             b == IF j < k THEN j ELSE j + 1
  <2>1. a \in DOMAIN events /\ b \in DOMAIN events /\ events'[i] = events[a] /\ events'[j] = events[b]
    BY <1>4
  <2>2. a = b
    <3> HIDE DEF a, b
    <3>1. QED
      BY <1>1, <2>1
  <2>3. QED
    BY <1>1, <2>2
<1>6. \A i \in DOMAIN events : i # k => \E j \in DOMAIN events' : events'[j] = events[i]
  <2> SUFFICES ASSUME NEW i \in DOMAIN events, i # k
               PROVE  \E j \in DOMAIN events' : events'[j] = events[i]
    OBVIOUS
  <2>1. CASE i < k
    BY <1>1, <2>1
  <2>2. CASE i > k
    <3>1. i - 1 \in DOMAIN events' /\ events'[i - 1] = events[i]
      BY <1>1, <2>2
    <3>2. QED
      BY <3>1
  <2>3. QED
    BY <1>1, <2>1, <2>2
<1>7. \A x : x \in DOMAIN g <=> \E i \in DOMAIN events' : events'[i].id = x
  BY <1>1, <1>3, <1>4, <1>6
<1>8. \A i \in DOMAIN events' : events'[i].rem = g[events'[i].id]
  <2> SUFFICES ASSUME NEW i \in DOMAIN events' PROVE events'[i].rem = g[events'[i].id]
    OBVIOUS
  <2>1. PICK a \in DOMAIN events : a # k /\ events'[i] = events[a]
    BY <1>4
  <2>2. events[a].id \in DOMAIN g
    BY <1>1, <1>3, <2>1
  <2>3. QED
    BY <1>3, <2>1, <2>2
<1>9. g = [x \in DOMAIN g |-> g[x]]
  OBVIOUS
<1>10. DueIn(events') = g
  <2> HIDE DEF g
  <2>1. QED
    BY <1>5, <1>7, <1>8, <1>9, DueEqual
<1>11. QED
  BY <1>2, <1>3, <1>10

CalendarStep == Calendar!Next \/ UNCHANGED <<DueTimes, Running>>

LEMMA SameCalendar ==
  ASSUME TimerInv, events' = events, NEW f, SetTop(f), f.ev = Top.ev
  PROVE  UNCHANGED <<DueTimes, Running>>
<1>1. Running' = Running
  <2>1. Running' = ((Running \ {Top.ev}) \cup {Top.ev}) \ {None}
    BY SetTopRunning
  <2>2. Depth \in DOMAIN frames
    BY StackTop DEF TimerInv
  <2>3. Top.ev # None => Top.ev \in Running
    BY <2>2 DEF Running, Top
  <2>4. None \notin Running
    BY DEF Running
  <2>5. QED
    BY <2>1, <2>3, <2>4
<1>2. QED
  BY <1>1 DEF DueTimes

LEMMA Returns ==
  ASSUME TimerInv, DueTimes' = DueTimes, NEW f, SetTop(f), f.ev = None, Top.ev # None
  PROVE  /\ Top.ev \in Running /\ Running' = Running \ {Top.ev}
         /\ CalendarStep
<1>1. Running' = ((Running \ {Top.ev}) \cup {None}) \ {None}
  BY SetTopRunning
<1>2. None \notin Running
  BY DEF Running
<1>3. Running' = Running \ {Top.ev}
  BY <1>1, <1>2
<1>4. Top.ev \in Running
  <2>1. Depth \in DOMAIN frames
    BY StackTop DEF TimerInv
  <2>2. QED
    BY <2>1 DEF Running, Top
<1>5. QED
  BY <1>3, <1>4 DEF CalendarStep, Calendar!Next, Calendar!Return

LEMMA TickPasses == ASSUME TimerInv, Tick PROVE CalendarStep
<1> DEFINE g == [x \in DOMAIN DueTimes |-> IF DueTimes[x] > -MaxLate THEN DueTimes[x] - 1
                                                                   ELSE DueTimes[x]]
<1>1. \A i, j \in DOMAIN events : events[i].id = events[j].id => i = j
  BY DEF TimerInv, OneInstance
<1>2. DueTimes = DueIn(events) /\ DueTimes' = DueIn(events')
  BY DEF DueTimes, DueIn
<1>3. /\ DOMAIN DueTimes = {events[i].id : i \in DOMAIN events}
      /\ \A i \in DOMAIN events : DueTimes[events[i].id] = events[i].rem
  BY <1>1, <1>2, DueFacts
<1>4. /\ DOMAIN events' = DOMAIN events
      /\ \A i \in DOMAIN events : events'[i].id = events[i].id /\ events'[i].rem = Later(events[i].rem)
  <2>1. DOMAIN events' = DOMAIN events
    BY DEF Tick
  <2>2. ASSUME NEW i \in DOMAIN events
        PROVE  events'[i].id = events[i].id /\ events'[i].rem = Later(events[i].rem)
    <3>1. events[i] \in Event
      <4> HIDE DEF Event
      <4>1. events \in Seq(Event) /\ DOMAIN events = 1..Len(events)
        BY EventsSeq DEF TimerInv
      <4>2. QED
        BY <4>1, ElementOfSeq
    <3>2. events'[i] = [events[i] EXCEPT !.rem = Later(@)]
      BY DEF Tick
    <3>3. QED
      BY <3>1, <3>2 DEF Event
  <2>3. QED
    BY <2>1, <2>2
<1>5. \A i, j \in DOMAIN events' : events'[i].id = events'[j].id => i = j
  BY <1>1, <1>4
<1>6. \A x : x \in DOMAIN g <=> \E i \in DOMAIN events' : events'[i].id = x
  BY <1>3, <1>4
<1>7. \A i \in DOMAIN events' : events'[i].rem = g[events'[i].id]
  BY <1>3, <1>4 DEF Later
<1>8. g = [x \in DOMAIN g |-> g[x]]
  OBVIOUS
<1>9. DueTimes' = g
  <2> HIDE DEF g
  <2>1. QED
    BY <1>2, <1>5, <1>6, <1>7, <1>8, DueEqual
<1>10. Running' = Running
  <2>1. DOMAIN frames' = DOMAIN frames
    BY DEF Tick
  <2>2. ASSUME NEW i \in DOMAIN frames PROVE frames'[i].ev = frames[i].ev
    <3>1. frames[i] \in Frame
      BY StackTop DEF TimerInv
    <3>2. frames'[i] = IF frames[i].pc = "queue" THEN [frames[i] EXCEPT !.rem = Later(@)]
                                                ELSE frames[i]
      BY DEF Tick
    <3>3. QED
      BY <3>1, <3>2 DEF Frame
  <2>3. \A x : x \in Running' <=> x \in Running
    BY <2>1, <2>2 DEF Running
  <2>4. QED
    BY <2>3
<1>11. QED
  BY <1>9, <1>10 DEF CalendarStep, Calendar!Next, Calendar!Pass

LEMMA TakeStutters == ASSUME TimerInv, TakeDEC PROVE CalendarStep
<1>1. DueTimes' = DueTimes
  BY DEF TakeDEC, DueTimes
<1>2. Running' = Running
  <2>1. CASE UNCHANGED frames
    BY <2>1 DEF Running
  <2>2. CASE frames' = Append(frames, HandlerFrame)
    <3>1. Depth \in Nat /\ DOMAIN frames = 1..Depth /\ frames \in Seq(Frame) /\ Depth = Len(frames)
      BY StackTop DEF TimerInv, TypeOK, Depth
    <3>2. HandlerFrame.ev = None
      BY DEF HandlerFrame
    <3>3. DOMAIN frames' = 1..(Depth + 1) /\ frames'[Depth + 1] = HandlerFrame
          /\ \A i \in 1..Depth : frames'[i] = frames[i]
      <4> HIDE DEF Frame
      <4>1. HandlerFrame \in Frame
        BY DEF HandlerFrame, Frame
      <4>2. QED
        BY <2>2, <3>1, <4>1
    <3>4. \A x : x \in Running <=> x # None /\ \E i \in 1..Depth : frames[i].ev = x
      BY <3>1 DEF Running
    <3>5. \A x : x \in Running' <=> x # None /\ \E i \in 1..(Depth + 1) : frames'[i].ev = x
      BY <3>3 DEF Running
    <3>6. \A i \in 1..(Depth + 1) : i \in 1..Depth \/ i = Depth + 1
      BY <3>1
    <3>7. \A i \in 1..Depth : i \in 1..(Depth + 1)
      BY <3>1
    <3>8. \A x : x \in Running' <=> x \in Running
      BY <3>2, <3>3, <3>4, <3>5, <3>6, <3>7
    <3>9. QED
      BY <3>8
  <2>3. QED
    BY <2>1, <2>2 DEF TakeDEC
<1>3. QED
  BY <1>1, <1>2 DEF CalendarStep

LEMMA HandlerReturnStutters == ASSUME TimerInv, HandlerReturn PROVE CalendarStep
<1>1. DueTimes' = DueTimes
  BY DEF HandlerReturn, DueTimes
<1>2. /\ frames \in Seq(Frame) /\ frames # <<>> /\ Depth = Len(frames)
      /\ DOMAIN frames = 1..Depth /\ Depth \in Nat /\ Depth >= 1
  BY StackTop DEF TimerInv, TypeOK, Depth
<1>3. Top.ev = None
  BY <1>2 DEF HandlerReturn, TimerInv, TypeOK, FrameOK, Top
<1>4. DOMAIN frames' = 1..(Depth - 1) /\ \A i \in 1..(Depth - 1) : frames'[i] = frames[i]
  <2> HIDE DEF Frame
  <2>1. frames' = Front(frames)
    BY DEF HandlerReturn
  <2>2. frames' \in Seq(Frame) /\ Len(frames') = Depth - 1
        /\ \A i \in 1..(Depth - 1) : frames'[i] = frames[i]
    BY <1>2, <2>1, FrontElements
  <2>3. QED
    BY <2>2, LenProperties
<1>5. \A x : x \in Running <=> x # None /\ \E i \in 1..Depth : frames[i].ev = x
  BY <1>2 DEF Running
<1>6. \A x : x \in Running' <=> x # None /\ \E i \in 1..(Depth - 1) : frames[i].ev = x
  BY <1>4 DEF Running
<1>7. \A i \in 1..Depth : i \in 1..(Depth - 1) \/ i = Depth
  BY <1>2
<1>8. \A i \in 1..(Depth - 1) : i \in 1..Depth
  BY <1>2
<1>9. \A x : x \in Running' <=> x \in Running
  BY <1>3, <1>5, <1>6, <1>7, <1>8 DEF Top
<1>10. Running' = Running
  BY <1>9
<1>11. QED
  BY <1>1, <1>10 DEF CalendarStep

(* The handler fires the earliest event, which is due. *)
LEMMA PopFires == ASSUME TimerInv, HandlerPop PROVE CalendarStep
<1>1. TypeOK /\ Sorted /\ OneInstance
  BY DEF TimerInv
<1>2. /\ events \in Seq(Event) /\ Len(events) \in Nat /\ DOMAIN events = 1..Len(events)
      /\ \A i \in 1..Len(events) : events[i].id \in Ids /\ events[i].rem \in Int
  BY <1>1, EventsSeq
<1>3. events # <<>> /\ events' = Tail(events) /\ events[1].rem <= 0
  BY DEF HandlerPop, Due, Shifted
<1>4. /\ Len(events) >= 1 /\ events' \in Seq(Event) /\ Len(events') = Len(events) - 1
      /\ \A j \in 1..(Len(events) - 1) : events'[j] = events[j + 1]
  <2> HIDE DEF Event
  <2>1. QED
    BY <1>2, <1>3, TailElements
<1>5. DOMAIN events' = 1..(Len(events) - 1)
  <2> HIDE DEF Event
  <2>1. QED
    BY <1>4, LenProperties
<1> DEFINE id == events[1].id
           f == [Top EXCEPT !.pc = "call", !.ev = events[1].id,
                            !.next = IF Due(events') THEN events'[1].id ELSE None]
<1>6. id \in DOMAIN DueTimes /\ DueTimes' = [x \in DOMAIN DueTimes \ {id} |-> DueTimes[x]]
  <2>1. 1 \in DOMAIN events
    BY <1>2, <1>4
  <2>2. \A j \in 1..(Len(events) - 1) : events'[j] = IF j < 1 THEN events[j] ELSE events[j + 1]
    BY <1>2, <1>4
  <2>3. QED
    BY <1>5, <2>1, <2>2, TakenOut
<1>7. /\ DOMAIN DueTimes = {events[i].id : i \in DOMAIN events}
      /\ \A i \in DOMAIN events : DueTimes[events[i].id] = events[i].rem
  <2>1. DueTimes = DueIn(events)
    BY DEF DueTimes, DueIn
  <2>2. \A i, j \in DOMAIN events : events[i].id = events[j].id => i = j
    BY <1>1 DEF OneInstance
  <2>3. /\ DOMAIN DueIn(events) = {events[i].id : i \in DOMAIN events}
        /\ \A i \in DOMAIN events : DueIn(events)[events[i].id] = events[i].rem
    BY ONLY <2>2, DueFacts, Zenon
  <2>4. QED
    BY <2>1, <2>3
<1>8. DueTimes[id] <= 0
  BY <1>2, <1>3, <1>4, <1>7
<1>9. \A x \in DOMAIN DueTimes : DueTimes[id] <= DueTimes[x]
  <2>1. ASSUME NEW i \in DOMAIN events PROVE events[1].rem <= events[i].rem
    BY <1>1, <1>2, <1>4, <2>1, SMTT(40) DEF Sorted
  <2>2. ASSUME NEW x \in DOMAIN DueTimes PROVE DueTimes[id] <= DueTimes[x]
    <3>1. PICK i \in DOMAIN events : events[i].id = x
      BY <1>7
    <3>2. DueTimes[events[i].id] = events[i].rem /\ 1 \in DOMAIN events
      BY <1>2, <1>4, <1>7
    <3>3. DueTimes[id] = events[1].rem
      BY <1>7, <3>2
    <3>4. QED
      BY <2>1, <3>1, <3>2, <3>3
  <2>3. QED
    BY <2>2
<1>10. id \notin Running /\ id # None
  BY <1>1, <1>2, <1>4, TimerAssumption DEF OneInstance, Held, Holds, Running
<1>11. Running' = Running \cup {id}
  <2>1. Top.pc = "loop" /\ Top \in Frame /\ FrameOK(Top, Depth)
    BY <1>1, StackTop DEF HandlerPop, TypeOK, Top
  <2>2. Top.ev = None
    BY <2>1 DEF FrameOK
  <2>3. f.ev = id
    BY <2>1 DEF Frame
  <2>4. SetTop(f)
    BY DEF HandlerPop
  <2>5. Running' = ((Running \ {Top.ev}) \cup {id}) \ {None}
    <3> HIDE DEF f
    <3>1. QED
      BY <2>3, <2>4, SetTopRunning
  <2>6. QED
    BY <1>10, <2>2, <2>5 DEF Running
<1>12. Calendar!Fire(id)
  BY <1>6, <1>8, <1>9, <1>10, <1>11 DEF Calendar!Fire, Calendar!Drop
<1>13. QED
  BY <1>6, <1>12 DEF CalendarStep, Calendar!Next

(* A call of T_QueueEvent posts its event; the wrapper that queues itself   *)
(* again has returned by then, also when the array turns out to be full.    *)
LEMMA QueuePosts == ASSUME TimerInv, QueueEvent PROVE CalendarStep
<1>1. TypeOK /\ OneInstance
  BY DEF TimerInv
<1>2. /\ Depth \in DOMAIN frames /\ Top \in Frame /\ FrameOK(Top, Depth) /\ Top.pc = "queue"
      /\ SetTop(AfterQueue(Top)) /\ QueueLocked(Top.arg, Top.rem)
  BY <1>1, StackTop DEF TypeOK, QueueEvent, Top
<1> DEFINE id == Top.arg
<1>3. id \in Ids /\ Top.rem \in Int /\ id # None
  BY <1>2 DEF FrameOK, Frame
<1>4. Holds(Depth, id) /\ ~Queued(id)
  BY <1>1, <1>2, <1>3 DEF OneInstance, Queued, Held, Holds, Top
<1>5. \/ DueTimes' = DueTimes
      \/ /\ id \notin DOMAIN DueTimes
         /\ DOMAIN DueTimes' = DOMAIN DueTimes \cup {id}
         /\ \A x \in DOMAIN DueTimes : DueTimes'[x] = DueTimes[x]
  BY <1>2, <1>3, <1>4, QueueLockedPosts
<1>6. CASE Top.arg = Top.ev
  <2>1. AfterQueue(Top).ev = None
    BY <1>6 DEF AfterQueue, HandlerFrame
  <2>2. id \in Running /\ Running' = Running \ {id} /\ (DueTimes' = DueTimes => CalendarStep)
    <3>1. Running' = ((Running \ {Top.ev}) \cup {None}) \ {None}
      BY <1>2, <2>1, SetTopRunning
    <3>2. id \in Running /\ None \notin Running
      BY <1>2, <1>3, <1>6 DEF Running, Top
    <3>3. Running' = Running \ {id}
      BY <1>6, <3>1, <3>2
    <3>4. QED
      BY <3>2, <3>3 DEF CalendarStep, Calendar!Next, Calendar!Return
  <2>3. QED
    BY <1>3, <1>5, <2>2 DEF CalendarStep, Calendar!Next, Calendar!Post
<1>7. CASE Top.arg # Top.ev
  <2>1. AfterQueue(Top).ev = Top.ev
    BY <1>2, <1>7 DEF AfterQueue, Frame
  <2>2. Running' = Running
    <3>1. Running' = ((Running \ {Top.ev}) \cup {Top.ev}) \ {None}
      BY <1>2, <2>1, SetTopRunning
    <3>2. Top.ev # None => Top.ev \in Running
      BY <1>2 DEF Running, Top
    <3>3. None \notin Running
      BY DEF Running
    <3>4. QED
      BY <3>1, <3>2, <3>3
  <2>3. id \notin Running
    <3>1. \A i \in DOMAIN frames : frames[i].ev = id => i = Depth
      BY <1>1, <1>2, <1>3, <1>4 DEF OneInstance, Holds
    <3>2. QED
      BY <1>7, <3>1 DEF Running, Top
  <2>4. QED
    BY <1>3, <1>5, <2>2, <2>3 DEF CalendarStep, Calendar!Next, Calendar!Post
<1>8. QED
  BY <1>6, <1>7

LEMMA IrqPosts ==
  ASSUME TimerInv, NEW o \in OneShot, NEW d \in Delays, IrqQueueEvent(o, d)
  PROVE  CalendarStep
<1>1. o \in Ids /\ d \in Int /\ ~Queued(o) /\ ~Held(o) /\ QueueLocked(o, d) /\ frames' = frames
  BY TimerAssumption DEF Ids, IrqQueueEvent
<1>2. Running' = Running /\ o \notin Running
  BY <1>1 DEF Running, Held, Holds
<1>3. \/ DueTimes' = DueTimes
      \/ /\ o \notin DOMAIN DueTimes
         /\ DOMAIN DueTimes' = DOMAIN DueTimes \cup {o}
         /\ \A x \in DOMAIN DueTimes : DueTimes'[x] = DueTimes[x]
  BY <1>1, QueueLockedPosts
<1>4. QED
  BY <1>1, <1>2, <1>3 DEF CalendarStep, Calendar!Next, Calendar!Post

LEMMA CancelWithdraws ==
  ASSUME TimerInv, NEW r \in Repeating, T_CancelRepeatingEvent(r)
  PROVE  CalendarStep
<1>1. Running' = Running
  BY DEF T_CancelRepeatingEvent, Running
<1>2. CASE UNCHANGED events
  BY <1>1, <1>2 DEF CalendarStep, DueTimes
<1>3. ASSUME NEW k \in DOMAIN events, events[k].id = r, events' = RemoveAt(events, k)
      PROVE  CalendarStep
  <2>1. events \in Seq(Event) /\ DOMAIN events = 1..Len(events) /\ Len(events) \in Nat
    BY EventsSeq DEF TimerInv
  <2>2. /\ RemoveAt(events, k) \in Seq(Event) /\ Len(RemoveAt(events, k)) = Len(events) - 1
        /\ \A j \in 1..(Len(events) - 1) :
             RemoveAt(events, k)[j] = IF j < k THEN events[j] ELSE events[j + 1]
    <3> HIDE DEF Event
    <3>1. k \in 1..Len(events)
      BY <2>1
    <3>2. QED
      BY ONLY <2>1, <3>1, RemoveAtElements, Zenon
  <2>3. DOMAIN events' = 1..(Len(events) - 1)
    <3> HIDE DEF Event
    <3>1. QED
      BY <1>3, <2>2, LenProperties
  <2>4. r \in DOMAIN DueTimes /\ DueTimes' = [x \in DOMAIN DueTimes \ {r} |-> DueTimes[x]]
    BY <1>3, <2>2, <2>3, TakenOut
  <2>5. QED
    BY <1>1, <2>4 DEF CalendarStep, Calendar!Next, Calendar!Withdraw, Calendar!Drop
<1>4. QED
  BY <1>2, <1>3 DEF T_CancelRepeatingEvent, RemoveQueued

LEMMA StepMaps == ASSUME TimerInv, [Next]_vars PROVE CalendarStep
<1>1. Top \in Frame /\ FrameOK(Top, Depth)
  BY StackTop DEF TimerInv, TypeOK, Top
<1>2. CASE ReturnOneShot
  <2>1. Top.ev # None /\ HandlerFrame.ev = None
    BY <1>1, <1>2 DEF ReturnOneShot, FrameOK, HandlerFrame
  <2>2. QED
    BY <1>2, <2>1, Returns DEF ReturnOneShot, DueTimes
<1>3. CASE ReturnRepeating
  <2>1. [Top EXCEPT !.pc = "check"].ev = Top.ev
    BY <1>1 DEF Frame
  <2>2. QED
    BY <1>3, <2>1, SameCalendar DEF ReturnRepeating, CalendarStep
<1>4. CASE CheckRepeating
  <2>1. CASE StillSet(Top.ev)
    <3> DEFINE f == [Top EXCEPT !.pc = "queue", !.arg = Top.ev, !.rem = Period[Top.ev]]
    <3>1. f.ev = Top.ev
      BY <1>1 DEF Frame
    <3>2. SetTop(f) /\ events' = events
      BY <1>4, <2>1 DEF CheckRepeating
    <3>3. QED
      <4> HIDE DEF f
      <4>1. QED
        BY <3>1, <3>2, SameCalendar DEF CalendarStep
  <2>2. CASE ~StillSet(Top.ev)
    <3>1. Top.ev # None /\ HandlerFrame.ev = None
      BY <1>1, <1>4 DEF CheckRepeating, FrameOK, HandlerFrame
    <3>2. QED
      BY <1>4, <2>2, <3>1, Returns DEF CheckRepeating, DueTimes
  <2>3. QED
    BY <2>1, <2>2
<1>5. ASSUME NEW r \in Repeating, Register(r) PROVE CalendarStep
  <2> DEFINE f == [Top EXCEPT !.pc = "queue", !.arg = r, !.rem = Period[r]]
  <2>1. f.ev = Top.ev
    BY <1>1 DEF Frame
  <2>2. SetTop(f) /\ events' = events
    BY <1>5 DEF Register
  <2>3. QED
    <3> HIDE DEF f
    <3>1. QED
      BY <2>1, <2>2, SameCalendar DEF CalendarStep
<1>6. ASSUME NEW o \in OneShot, NEW d \in Delays, CallQueueEvent(o, d) PROVE CalendarStep
  <2> DEFINE f == [Top EXCEPT !.pc = "queue", !.arg = o, !.rem = d]
  <2>1. f.ev = Top.ev
    BY <1>1 DEF Frame
  <2>2. SetTop(f) /\ events' = events
    BY <1>6 DEF CallQueueEvent
  <2>3. QED
    <3> HIDE DEF f
    <3>1. QED
      BY <2>1, <2>2, SameCalendar DEF CalendarStep
<1>7. CASE T_EnableEvents
  BY <1>7 DEF T_EnableEvents, CalendarStep, DueTimes, Running
<1>8. CASE UNCHANGED vars
  BY <1>8 DEF vars, CalendarStep, DueTimes, Running
<1>9. QED
  BY <1>2, <1>3, <1>4, <1>5, <1>6, <1>7, <1>8, TickPasses, TakeStutters, HandlerReturnStutters,
     PopFires, QueuePosts, IrqPosts, CancelWithdraws DEF Next, Handler, Callers

(* The array, the decrementer and the nested handlers implement the         *)
(* calendar of EventCalendar: an event fires once, not early, the earliest  *)
(* first, and its callback is not entered again before it has returned      *)
(* (timer.c:120-320).                                                       *)
THEOREM TimerImplementsCalendar == Spec => CalendarSpec
<1>1. Init => Calendar!Init
  <2> SUFFICES ASSUME Init PROVE Calendar!Init
    OBVIOUS
  <2>1. DOMAIN events = {}
    BY DEF Init
  <2>2. DueTimes = [x \in {} |-> 0]
    BY <2>1 DEF DueTimes
  <2>3. Running = {}
    BY DEF Init, Running, MainFrame
  <2>4. QED
    BY <2>2, <2>3 DEF Calendar!Init
<1>2. TimerInv /\ [Next]_vars => [Calendar!Next]_<<DueTimes, Running>>
  BY StepMaps DEF CalendarStep
<1>3. QED
  BY <1>1, <1>2, InvHolds, PTL DEF Spec, Calendar!Spec, CalendarSpec
=============================================================================

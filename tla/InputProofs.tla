----------------------------- MODULE InputProofs -----------------------------
(****************************************************************************)
(* Theorems about Input for every queue size, nesting depth and number of   *)
(* events, whatever the sources post.                                       *)
(****************************************************************************)
EXTENDS Input, SequenceTheorems, TLAPS

(* The inductive invariant.  The index is at most as far behind the array   *)
(* as there are producers whose check is stale; what was not yet delivered  *)
(* lies in the array unless a store has left it; and the fetched event      *)
(* stays the head because nested producers only append behind it.           *)
Counted == /\ queuePos + storing + suspended <= MAX_INPUT_EVENT - 1 + MaxNesting
           /\ storing + suspended <= MaxNesting
           /\ stored + storing + suspended <= MaxTag
           /\ queuePos >= MAX_INPUT_EVENT => filled

InputInv == QueueKept /\ Counted

LEMMA InputInitInv == Init => InputInv
<1> SUFFICES ASSUME Init PROVE InputInv
  OBVIOUS
<1> USE InputAssumption DEF Init, Slots
<1>1. /\ 0 \in 0..MaxTag
      /\ 0 \in (-MaxReread)..(MAX_INPUT_EVENT - 1 + MaxNesting)
  OBVIOUS
<1>2. TypeOK
  <2>1. queue \in [Slots -> 0..MaxTag]
    BY <1>1
  <2>2. /\ hasReceivedInput \in BOOLEAN /\ filled \in BOOLEAN
        /\ overrun \in BOOLEAN /\ reread \in BOOLEAN
    BY Zenon
  <2>3. QED
    BY <1>1, <2>1, <2>2 DEF TypeOK
<1>3. Contents /\ FetchedIsHead /\ Counted /\ ~Spoiled
  BY DEF Contents, FetchedIsHead, Counted, Spoiled
<1>4. QED
  BY <1>2, <1>3 DEF InputInv, QueueKept

(* A step keeps the types and the counts, spoiled or not. *)
LEMMA InputStepTypes ==
  ASSUME InputInv, [Next]_vars
  PROVE  TypeOK' /\ Counted'
<1> USE InputAssumption DEF InputInv, QueueKept, TypeOK, Counted, Slots
<1>1. CASE NewEventCheck
  BY <1>1 DEF NewEventCheck, history
<1>2. CASE NewEventStore
  <2>1. queue' \in [Slots -> 0..MaxTag]
    BY <1>2 DEF NewEventStore, Insert
  <2>2. filled' \in BOOLEAN /\ overrun' \in BOOLEAN
    BY <1>2 DEF NewEventStore
  <2>3. TypeOK'
    BY <1>2, <2>1, <2>2 DEF NewEventStore
  <2>4. Counted'
    <3>1. queuePos' >= MAX_INPUT_EVENT => filled'
      BY <1>2 DEF NewEventStore
    <3>2. QED BY <1>2, <3>1 DEF NewEventStore
  <2>5. QED
    BY <2>3, <2>4
<1>3. CASE ConsumeNone
  BY <1>3 DEF ConsumeNone, vars, history
<1>4. CASE ConsumeFetch
  <2>1. queue[0] \in 0..MaxTag /\ reread' \in BOOLEAN
    BY <1>4 DEF ConsumeFetch
  <2>2. QED
    BY <1>4, <2>1 DEF ConsumeFetch
<1>5. CASE ConsumeRemove
  <2>1. queue' \in [Slots -> 0..MaxTag]
    BY <1>5 DEF ConsumeRemove, DropHead, Shifted
  <2>2. /\ queuePos' \in (-MaxReread)..(MAX_INPUT_EVENT - 1 + MaxNesting)
        /\ queuePos' <= queuePos
    BY <1>5 DEF ConsumeRemove, DropHead
  <2>3. /\ hasReceivedInput' = hasReceivedInput /\ filled' = filled
        /\ overrun' = overrun /\ reread' = reread
    BY <1>5 DEF ConsumeRemove, history
  <2>4. /\ fetched' = 0 /\ delivered' = fetched /\ stored' = stored
        /\ storing' = suspended /\ suspended' = 0 /\ storing = 0
    BY <1>5 DEF ConsumeRemove
  <2>5. /\ hasReceivedInput' \in BOOLEAN /\ filled' \in BOOLEAN
        /\ overrun' \in BOOLEAN /\ reread' \in BOOLEAN
    BY <2>3, Zenon
  <2>6. queuePos' >= MAX_INPUT_EVENT => filled'
    BY <2>2, <2>3
  <2>7. TypeOK'
    BY <2>1, <2>2, <2>4, <2>5
  <2>8. Counted'
    <3>0. /\ queuePos \in Int /\ queuePos' \in Int /\ suspended \in Nat /\ stored \in Nat
          /\ queuePos + 0 + suspended <= MAX_INPUT_EVENT - 1 + MaxNesting
          /\ suspended <= MaxNesting /\ stored + suspended <= MaxTag
      BY <2>2, <2>4
    <3> HIDE DEF InputInv, QueueKept, TypeOK, Counted, Slots
    <3>1. /\ queuePos' + storing' + suspended' <= MAX_INPUT_EVENT - 1 + MaxNesting
          /\ storing' + suspended' <= MaxNesting
          /\ stored' + storing' + suspended' <= MaxTag
      <4>1. /\ queuePos' <= queuePos /\ storing' = suspended /\ suspended' = 0
            /\ stored' = stored
        BY <2>2, <2>4
      <4>2. queuePos' + suspended + 0 <= MAX_INPUT_EVENT - 1 + MaxNesting
        <5>1. \A a, b, c, m \in Int : a <= b /\ b + 0 + c <= m => a + c + 0 <= m
          OBVIOUS
        <5>2. suspended \in Int /\ MAX_INPUT_EVENT - 1 + MaxNesting \in Int
          BY <3>0
        <5>3. QED BY <3>0, <4>1, <5>1, <5>2
      <4>3. suspended + 0 <= MaxNesting /\ stored + suspended + 0 <= MaxTag
        BY <3>0
      <4>4. QED BY <4>1, <4>2, <4>3
    <3>2. QED BY <2>6, <3>1 DEF Counted
  <2>9. QED
    BY <2>7, <2>8
<1>6. CASE UNCHANGED vars
  BY <1>6 DEF vars, history
<1>7. QED
  BY <1>1, <1>2, <1>3, <1>4, <1>5, <1>6 DEF Next

(* A step keeps the contents until the queue is spoiled, and spoils it only *)
(* once the last slot has been used.                                        *)
LEMMA InputStepKept ==
  ASSUME InputInv, [Next]_vars
  PROVE  (Spoiled' => filled') /\ (~Spoiled' => Contents' /\ FetchedIsHead')
<1> USE InputAssumption DEF InputInv, QueueKept, TypeOK, Contents, FetchedIsHead,
        Counted, Slots, Spoiled
<1>1. CASE NewEventCheck
  BY <1>1 DEF NewEventCheck, history
<1>2. CASE NewEventStore
  <2>1. Spoiled' => filled'
    <3>1. CASE filled
      BY <1>2, <3>1 DEF NewEventStore
    <3>2. CASE ~filled
      <4>1. ~Spoiled /\ queuePos \in 0..MAX_INPUT_EVENT
        BY <3>2
      <4>2. reread' = reread /\ overrun' = (overrun \/ queuePos \notin Slots)
        BY <1>2 DEF NewEventStore
      <4>3. filled' = (filled \/ queuePos + 1 >= MAX_INPUT_EVENT)
        BY <1>2 DEF NewEventStore
      <4>4. QED
        BY <4>1, <4>2, <4>3
    <3>3. QED BY <3>1, <3>2
  <2>2. ASSUME ~Spoiled'
        PROVE  Contents' /\ FetchedIsHead'
    <3>1. /\ queuePos \in Slots
          /\ queue' = [queue EXCEPT ![queuePos] = stored + 1]
          /\ queuePos' = queuePos + 1 /\ stored' = stored + 1
          /\ UNCHANGED <<fetched, delivered>>
          /\ filled' = (filled \/ queuePos + 1 >= MAX_INPUT_EVENT)
          /\ Contents /\ FetchedIsHead
      BY <1>2, <2>2 DEF NewEventStore, Insert
    <3>2. Contents'
      <4>1. queuePos' \in 0..MAX_INPUT_EVENT /\ queuePos' = stored' - delivered'
        BY <3>1
      <4>2. \A i \in Slots : i < queuePos' => queue'[i] = delivered' + 1 + i
        BY <3>1
      <4>3. \A i \in Slots : i >= queuePos' => filled' \/ queue'[i] = 0
        BY <3>1
      <4>4. QED BY <4>1, <4>2, <4>3
    <3>3. FetchedIsHead'
      BY <3>1
    <3>4. QED BY <3>2, <3>3
  <2>3. QED BY <2>1, <2>2
<1>3. CASE ConsumeNone
  BY <1>3 DEF ConsumeNone, vars, history
<1>4. CASE ConsumeFetch
  BY <1>4 DEF ConsumeFetch, HasEvent
<1>5. CASE ConsumeRemove
  <2>1. Spoiled' = Spoiled /\ filled' = filled
    BY <1>5 DEF ConsumeRemove, history
  <2>2. ASSUME ~Spoiled
        PROVE  Contents' /\ FetchedIsHead'
    <3>1. fetched = delivered + 1 /\ queuePos > 0 /\ Contents
      <4>1. fetched # 0 /\ queuePos > 0 /\ fetched = queue[0] /\ Contents /\ 0 \in Slots
        BY <1>5, <2>2 DEF ConsumeRemove
      <4>2. QED BY <4>1
    <3>2. /\ queue' = Shifted(queue) /\ queuePos' = queuePos - 1
          /\ delivered' = delivered + 1 /\ fetched' = 0
          /\ stored' = stored /\ filled' = filled
      BY <1>5, <3>1 DEF ConsumeRemove, DropHead, history
    <3>3. Contents'
      BY <3>1, <3>2 DEF Shifted
    <3>4. FetchedIsHead'
      BY <3>2
    <3>5. QED BY <3>3, <3>4
  <2>3. QED BY <2>1, <2>2
<1>6. CASE UNCHANGED vars
  BY <1>6 DEF vars, history
<1>7. QED
  BY <1>1, <1>2, <1>3, <1>4, <1>5, <1>6 DEF Next

(* The inductive invariant holds in every reachable state. *)
LEMMA InputInvHolds == Spec => []InputInv
<1>1. Init => InputInv
  BY InputInitInv
<1>2. InputInv /\ [Next]_vars => InputInv'
  BY InputStepTypes, InputStepKept DEF InputInv, QueueKept
<1>3. QED
  BY <1>1, <1>2, PTL DEF Spec

(* Whatever the sources post and the callbacks nest: the queue holds        *)
(* exactly the undelivered events in order, and the event IN_ConsumeEvent   *)
(* returns is the one it removes, until a store leaves the array or the     *)
(* consumer reads behind the queue, which happens only after it was full.   *)
THEOREM InputCorrect == Spec => []QueueKept
<1>1. InputInv => QueueKept
  BY DEF InputInv
<1>2. QED
  BY <1>1, InputInvHolds, PTL

-----------------------------------------------------------------------------
(* The array of slots read as a sequence, and its step correspondence.      *)

LEMMA StorePosts ==
  ASSUME InputInv, NewEventStore, ~Spoiled'
  PROVE  Fifo!Post
<1> USE InputAssumption DEF InputInv, QueueKept, TypeOK, Contents, Counted, Slots, Spoiled
<1>1. /\ queuePos \in Slots
      /\ queue' = [queue EXCEPT ![queuePos] = stored + 1]
      /\ queuePos' = queuePos + 1
      /\ ~Spoiled
  BY DEF NewEventStore, Insert
<1>2. Undelivered \in Seq(Nat) /\ Len(Undelivered) = queuePos
  BY <1>1 DEF Undelivered
<1>3. Undelivered' = [i \in 1..(queuePos + 1) |-> queue'[i - 1]]
  BY <1>1 DEF Undelivered
<1>4. Append(Undelivered, stored + 1)
        = [i \in 1..(queuePos + 1) |-> IF i <= queuePos THEN Undelivered[i] ELSE stored + 1]
  BY <1>2
<1>5. \A i \in 1..(queuePos + 1) :
        queue'[i - 1] = IF i <= queuePos THEN Undelivered[i] ELSE stored + 1
  BY <1>1 DEF Undelivered
<1>6. Undelivered' = Append(Undelivered, stored + 1)
  BY <1>3, <1>4, <1>5
<1>7. QED
  BY <1>6 DEF Fifo!Post, NewEventStore

LEMMA RemoveDelivers ==
  ASSUME InputInv, ConsumeRemove, ~Spoiled'
  PROVE  Fifo!Deliver
<1> USE InputAssumption
<1> USE DEF InputInv, QueueKept, TypeOK, Contents, Counted, Slots, FetchedIsHead, Spoiled
<1>1. /\ queuePos > 0 /\ fetched = queue[0] /\ queuePos \in 1..MAX_INPUT_EVENT
      /\ queue' = Shifted(queue) /\ queuePos' = queuePos - 1 /\ delivered' = fetched
      /\ stored' = stored
  <2>1. ~Spoiled /\ fetched # 0
    BY DEF ConsumeRemove, history
  <2>2. queuePos > 0 /\ fetched = queue[0]
    BY <2>1
  <2>3. queuePos <= MAX_INPUT_EVENT
    BY <2>1
  <2>4. QED
    BY <2>2, <2>3 DEF ConsumeRemove, DropHead
<1>2. \A i \in 1..queuePos : i - 1 \in Slots /\ queue[i - 1] \in Nat
  BY <1>1
<1> HIDE DEF InputInv, QueueKept, TypeOK, Contents, Counted, FetchedIsHead, Spoiled
<1>3. /\ Undelivered \in Seq(Nat) /\ Len(Undelivered) = queuePos
      /\ \A i \in 1..queuePos : Undelivered[i] = queue[i - 1]
  BY <1>1, <1>2 DEF Undelivered
<1>4. Undelivered # <<>> /\ Undelivered[1] = queue[0]
  BY <1>1, <1>3
<1>5. Head(Undelivered) = queue[0]
  BY <1>4
<1>6. /\ Tail(Undelivered) \in Seq(Nat) /\ Len(Tail(Undelivered)) = queuePos - 1
      /\ \A i \in 1..(queuePos - 1) : Tail(Undelivered)[i] = Undelivered[i + 1]
  BY <1>1, <1>3, <1>4, HeadTailProperties
<1>7. Undelivered' = [i \in 1..(queuePos - 1) |-> queue'[i - 1]]
  BY <1>1, <1>2 DEF Undelivered
<1>8. \A i \in 1..(queuePos - 1) : queue'[i - 1] = Undelivered[i + 1]
  BY <1>1, <1>3 DEF Shifted
<1>9. \A i \in 1..(queuePos - 1) : queue'[i - 1] \in Nat
  BY <1>1, <1>2, <1>3, <1>8
<1>10. Undelivered' \in Seq(Nat) /\ Len(Undelivered') = queuePos - 1
  BY <1>1, <1>7, <1>9
<1>11. \A i \in 1..(queuePos - 1) : Undelivered'[i] = Tail(Undelivered)[i]
  BY <1>1, <1>6, <1>7, <1>8
<1>12. Undelivered' = Tail(Undelivered)
  BY <1>6, <1>10, <1>11, SeqEqual
<1>13. QED
  BY <1>1, <1>4, <1>5, <1>12 DEF Fifo!Deliver

(* The queue implements a first-in first-out channel until it is spoiled:   *)
(* every store is a post, every removal delivers the oldest event, and      *)
(* every other step changes nothing the channel's user can see.             *)
THEOREM InputImplementsFifo == Spec => FifoSpec
<1>1. Init => Fifo!Init
  BY InputAssumption DEF Init, Fifo!Init, Undelivered
<1>2. InputInv /\ [Next]_vars
        => [Spoiled' \/ Fifo!Next]_<<Undelivered, stored, delivered>>
  <2> SUFFICES ASSUME InputInv, [Next]_vars, ~Spoiled'
               PROVE  Fifo!Next \/ UNCHANGED <<Undelivered, stored, delivered>>
    OBVIOUS
  <2>1. CASE NewEventCheck
    BY <2>1 DEF NewEventCheck, Undelivered
  <2>2. CASE NewEventStore
    BY <2>2, StorePosts DEF Fifo!Next
  <2>3. CASE ConsumeNone
    BY <2>3 DEF ConsumeNone, vars, Undelivered
  <2>4. CASE ConsumeFetch
    BY <2>4 DEF ConsumeFetch, Undelivered
  <2>5. CASE ConsumeRemove
    BY <2>5, RemoveDelivers DEF Fifo!Next
  <2>6. CASE UNCHANGED vars
    BY <2>6 DEF vars, Undelivered
  <2>7. QED
    BY <2>1, <2>2, <2>3, <2>4, <2>5, <2>6 DEF Next
<1>3. QED
  BY <1>1, <1>2, InputInvHolds, PTL DEF Spec, FifoSpec
==============================================================================

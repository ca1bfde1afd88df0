--------------------------- MODULE AllocatorProofs ---------------------------
(****************************************************************************)
(* Theorems about Allocator for any pools, ranges, sizes and alignments,    *)
(* and calls that interrupt one another as deep as they like.               *)
(****************************************************************************)
EXTENDS Allocator, SequenceTheorems, TLAPS

(* Front drops the last element.                                            *)
LEMMA FrontElements ==
  ASSUME NEW S, NEW s \in Seq(S), s # <<>>
  PROVE  /\ Front(s) \in Seq(S) /\ Len(Front(s)) = Len(s) - 1
         /\ \A j \in 1..(Len(s) - 1) : Front(s)[j] = s[j]
<1>1. PICK n \in Nat : n = Len(s) - 1
  BY EmptySeq, LenProperties
<1>2. Front(s) = SubSeq(s, 1, n) /\ \A j \in 1..n : s[j] \in S
  BY <1>1, ElementOfSeq DEF Front
<1>3. Front(s) \in Seq(S) /\ Len(Front(s)) = IF 1 <= n THEN n - 1 + 1 ELSE 0
  BY <1>2, SubSeqProperties
<1>4. Len(Front(s)) = n
  BY <1>3
<1>5. \A j \in 1..n : j \in 1..(n - 1 + 1) /\ s[1 + j - 1] = s[j]
  OBVIOUS
<1>6. \A j \in 1..n : Front(s)[j] = s[j]
  BY <1>2, <1>5, SubSeqProperties
<1>7. QED
  BY <1>1, <1>3, <1>4, <1>6

LEMMA Indices ==
  \A n \in Nat : /\ \A i \in 1..(n + 1) : i = n + 1 \/ i \in 1..n
                 /\ \A i \in 1..(n - 1) : i \in 1..n
OBVIOUS

-----------------------------------------------------------------------------
End(b) == b + Header + hdr[b].size

(* The block lies in the used part of the pool and ends at its top or where *)
(* another block begins.                                                    *)
BlockIn(b, p) ==
    /\ cur[p] <= b /\ End(b) <= PoolTop[p]
    /\ End(b) = PoolTop[p] \/ End(b) \in DOMAIN hdr

(* The blocks of a pool tile it from cur_bottom to the top.                 *)
Tiled ==
    /\ \A b \in DOMAIN hdr : \E p \in Pools : BlockIn(b, p)
    /\ \A b, c \in DOMAIN hdr : b < c => End(b) <= c
    /\ \A p \in Pools : /\ PoolBottom[p] <= cur[p] /\ cur[p] <= PoolTop[p]
                        /\ cur[p] = PoolTop[p] \/ cur[p] \in DOMAIN hdr

(* The allocations held are the blocks not freed.                           *)
Owned ==
    /\ \A a \in live : /\ a.mem - Header \in DOMAIN hdr /\ ~hdr[a.mem - Header].free
                       /\ 1 <= a.size /\ a.size <= hdr[a.mem - Header].size
                       /\ \A r \in a.avoid \cup Reserved : ~Hits(a.mem, a.size, r)
    /\ \A a, b \in live : a.mem = b.mem => a = b
    /\ \A b \in DOMAIN hdr : ~hdr[b].free => \E a \in live : a.mem = b + Header

(* The lowest block of a pool is free only while free is about to see it.   *)
Pending(p) == cur[p] < PoolTop[p] /\ hdr[cur[p]].free
Waits(i, p) == calls[i].op = "free" /\ calls[i].pool = p /\ calls[i].top = cur[p]
Postponed ==
    \A p \in Pools : Pending(p) =>
        \E i \in 1..Len(calls) : Waits(i, p)

(* The calls in progress. *)
SearchOK(c) ==
    c.op \in {"alloc", "avoid", "dry1", "dry2"} =>
        /\ c.top <= cur[c.pool]
        /\ 1 <= c.size /\ c.size + Header < WORD /\ MIN_ALIGN <= c.align
        /\ c.op \in {"dry1", "dry2"} => "MEM2" \in Pools
CallOK == \A i \in 1..Len(calls) : SearchOK(calls[i])

AllocInv == TypeOK /\ Tiled /\ Owned /\ Postponed /\ CallOK /\ MetadataIntact

-----------------------------------------------------------------------------
LEMMA Constants ==
  /\ Header \in Nat /\ Header >= 1 /\ MIN_ALIGN \in Nat /\ MIN_ALIGN > Header /\ WORD \in Nat
  /\ \A p \in Pools : /\ PoolTop[p] \in Nat /\ PoolBottom[p] \in Nat
                      /\ Header <= PoolBottom[p] /\ PoolBottom[p] <= PoolTop[p] /\ PoolTop[p] < WORD
  /\ \A p, q \in Pools : p # q => PoolTop[p] < PoolBottom[q] \/ PoolTop[q] < PoolBottom[p]
BY AllocatorAssumption

LEMMA Types ==
  ASSUME TypeOK
  PROVE  /\ \A p \in Pools : cur[p] \in Nat
         /\ \A b \in DOMAIN hdr : b \in Nat /\ hdr[b].size \in Nat /\ hdr[b].free \in BOOLEAN
         /\ \A a \in live : a.mem \in Nat /\ a.size \in Nat
BY DEF TypeOK, Block

(* What the three ways to change the stack of calls do to it.               *)
LEMMA StackTypes ==
  ASSUME TypeOK
  PROVE  /\ calls \in Seq(Call) /\ Len(calls) \in Nat
         /\ \A i \in 1..Len(calls) : calls[i] \in Call
         /\ calls # <<>> => Len(calls) \in 1..Len(calls) /\ Mine \in Call /\ Mine = calls[Len(calls)]
<1> HIDE DEF Call
<1>1. calls \in Seq(Call) /\ Len(calls) \in Nat
  BY LenProperties DEF TypeOK
<1>2. \A i \in 1..Len(calls) : calls[i] \in Call
  BY <1>1, ElementOfSeq
<1>3. calls # <<>> => Len(calls) \in 1..Len(calls)
  <2>1. calls # <<>> => Len(calls) # 0
    BY <1>1, EmptySeq
  <2>2. QED
    BY <1>1, <2>1
<1>4. QED
  BY <1>1, <1>2, <1>3 DEF Mine

LEMMA StackBecome ==
  ASSUME TypeOK, NEW c \in Call, calls # <<>>, Become(c)
  PROVE  /\ calls' \in Seq(Call) /\ Len(calls') = Len(calls) /\ calls' # <<>>
         /\ calls'[Len(calls)] = c /\ Mine' = c
         /\ \A i \in 1..(Len(calls) - 1) : calls'[i] = calls[i]
<1> HIDE DEF Call
<1>1. calls \in Seq(Call) /\ Len(calls) \in 1..Len(calls) /\ Len(calls) \in Nat
  BY StackTypes
<1>2. calls' = [calls EXCEPT ![Len(calls)] = c]
  BY DEF Become
<1>3. calls' \in Seq(Call) /\ Len(calls') = Len(calls)
  BY <1>1, <1>2, ExceptSeq
<1>4. calls'[Len(calls)] = c /\ \A i \in 1..(Len(calls) - 1) : calls'[i] = calls[i]
  BY <1>1, <1>2
<1>5. calls' # <<>>
  BY <1>1, <1>3, EmptySeq
<1>6. QED
  BY <1>3, <1>4, <1>5 DEF Mine

LEMMA StackReturn ==
  ASSUME TypeOK, calls # <<>>, Return
  PROVE  /\ calls' \in Seq(Call) /\ Len(calls') = Len(calls) - 1
         /\ \A i \in 1..(Len(calls) - 1) : calls'[i] = calls[i]
<1> HIDE DEF Call
<1>1. calls \in Seq(Call)
  BY StackTypes
<1>2. QED
  BY <1>1, FrontElements DEF Return

LEMMA StackAppend ==
  ASSUME TypeOK, NEW c \in Call, calls' = Append(calls, c)
  PROVE  /\ calls' \in Seq(Call) /\ Len(calls') = Len(calls) + 1 /\ calls' # <<>>
         /\ calls'[Len(calls) + 1] = c /\ Mine' = c
         /\ \A i \in 1..Len(calls) : calls'[i] = calls[i]
<1> HIDE DEF Call
<1>1. calls \in Seq(Call) /\ Len(calls) \in Nat
  BY StackTypes
<1>2. /\ calls' \in Seq(Call) /\ Len(calls') = Len(calls) + 1
      /\ calls'[Len(calls) + 1] = c
      /\ \A i \in 1..Len(calls) : calls'[i] = calls[i]
  BY <1>1, AppendProperties
<1>3. calls' # <<>>
  BY <1>1, <1>2, EmptySeq
<1>4. QED
  BY <1>2, <1>3 DEF Mine

-----------------------------------------------------------------------------
(* The steps.                                                               *)

LEMMA InitInv == Init => AllocInv
<1> SUFFICES ASSUME Init PROVE AllocInv
  OBVIOUS
<1>1. cur = PoolTop /\ hdr = <<>> /\ live = {} /\ calls = <<>> /\ panic = "no" /\ DOMAIN hdr = {}
  BY DEF Init
<1>2. \A p \in Pools : cur[p] = PoolTop[p] /\ PoolTop[p] \in Nat
  BY <1>1, Constants
<1>3. TypeOK
  BY <1>1, AllocatorAssumption DEF TypeOK
<1>4. Tiled
  BY <1>1, <1>2, Constants DEF Tiled
<1>5. Owned /\ CallOK /\ MetadataIntact
  BY <1>1 DEF Owned, CallOK, MetadataIntact
<1>6. Postponed
  BY <1>2 DEF Postponed, Pending
<1>7. QED
  BY <1>3, <1>4, <1>5, <1>6 DEF AllocInv

(* A step that changes the calls only: each is new or stays as it was, and  *)
(* no free that is about to give a block back disappears.                   *)
LEMMA CallStep ==
  ASSUME AllocInv, UNCHANGED <<cur, hdr, live, panic>>, calls' \in Seq(Call),
         \A i \in 1..Len(calls') : \/ i \in 1..Len(calls) /\ calls'[i] = calls[i]
                                  \/ SearchOK(calls'[i]),
         \A i \in 1..Len(calls), p \in Pools :
            Pending(p) /\ Waits(i, p) => i \in 1..Len(calls') /\ calls'[i] = calls[i]
  PROVE  AllocInv'
<1>1. Tiled' /\ Owned' /\ MetadataIntact'
  BY DEF AllocInv, Tiled, BlockIn, End, Owned, MetadataIntact
<1>2. Postponed'
  <2>1. ASSUME NEW p \in Pools, Pending(p)'
        PROVE  (\E i \in 1..Len(calls) : Waits(i, p))'
    <3>1. Pending(p)
      BY <2>1 DEF Pending
    <3>2. PICK i \in 1..Len(calls) : Waits(i, p)
      BY <3>1 DEF AllocInv, Postponed
    <3>3. i \in 1..Len(calls') /\ calls'[i] = calls[i]
      BY <3>1, <3>2
    <3>4. QED
      BY <3>2, <3>3 DEF Waits
  <2>2. QED
    BY <2>1 DEF Postponed
<1>3. CallOK'
  <2>1. ASSUME NEW i \in 1..Len(calls') PROVE SearchOK(calls'[i])
    BY <2>1 DEF AllocInv, CallOK
  <2>2. \A c : SearchOK(c) => SearchOK(c)'
    BY DEF SearchOK
  <2>3. ASSUME NEW i \in 1..Len(calls') PROVE SearchOK(calls[i])'
    <3>1. PICK c : c = calls'[i]
      OBVIOUS
    <3>2. SearchOK(c)'
      BY <2>1, <2>2, <3>1
    <3>3. QED
      BY <3>1, <3>2 DEF SearchOK
  <2>4. QED
    BY <2>3 DEF CallOK
<1>4. TypeOK'
  BY DEF AllocInv, TypeOK
<1>5. QED
  BY <1>1, <1>2, <1>3, <1>4 DEF AllocInv

LEMMA BecomeStep ==
  ASSUME AllocInv, UNCHANGED <<cur, hdr, live, panic>>, calls # <<>>, Mine.op # "free",
         NEW c \in Call, Become(c), SearchOK(c)
  PROVE  AllocInv'
<1> HIDE DEF Call
<1>1. /\ calls' \in Seq(Call) /\ Len(calls') = Len(calls)
      /\ calls'[Len(calls)] = c
      /\ \A i \in 1..(Len(calls) - 1) : calls'[i] = calls[i]
  BY StackBecome DEF AllocInv
<1>2. Len(calls) \in Nat /\ \A i \in 1..Len(calls) : i = Len(calls) \/ i \in 1..(Len(calls) - 1)
  BY StackTypes DEF AllocInv
<1>3. \A i \in 1..Len(calls), p \in Pools : Waits(i, p) => i # Len(calls)
  BY DEF Waits, Mine
<1>4. QED
  BY <1>1, <1>2, <1>3, CallStep

LEMMA AppendStep ==
  ASSUME AllocInv, UNCHANGED <<cur, hdr, live, panic>>,
         NEW c \in Call, calls' = Append(calls, c), SearchOK(c)
  PROVE  AllocInv'
<1> HIDE DEF Call
<1>1. /\ calls' \in Seq(Call) /\ Len(calls') = Len(calls) + 1
      /\ calls'[Len(calls) + 1] = c
      /\ \A i \in 1..Len(calls) : calls'[i] = calls[i]
  BY StackAppend DEF AllocInv
<1>2. Len(calls) \in Nat
  BY StackTypes DEF AllocInv
<1>3. /\ \A i \in 1..Len(calls') : i = Len(calls) + 1 \/ i \in 1..Len(calls)
      /\ \A i \in 1..Len(calls) : i \in 1..Len(calls')
  BY <1>1, <1>2
<1>4. QED
  BY <1>1, <1>3, CallStep

LEMMA ReturnStep ==
  ASSUME AllocInv, UNCHANGED <<cur, hdr, live, panic>>, calls # <<>>, Return,
         \A p \in Pools : ~(Pending(p) /\ Waits(Len(calls), p))
  PROVE  AllocInv'
<1> HIDE DEF Call
<1>1. /\ calls' \in Seq(Call) /\ Len(calls') = Len(calls) - 1
      /\ \A i \in 1..(Len(calls) - 1) : calls'[i] = calls[i]
  BY StackReturn DEF AllocInv
<1>2. Len(calls) \in Nat
  BY StackTypes DEF AllocInv
<1>3. /\ \A i \in 1..Len(calls) : i = Len(calls) \/ i \in 1..(Len(calls) - 1)
      /\ \A i \in 1..(Len(calls) - 1) : i \in 1..Len(calls)
  BY <1>2
<1>4. QED
  BY <1>1, <1>3, CallStep

(* The calls that the running one has interrupted, where it moves no        *)
(* cur_bottom under them.                                                   *)
LEMMA Untouched ==
  ASSUME AllocInv, calls # <<>>, ~MovesUnder, NEW p \in Pools, p = Mine.pool,
         \A q \in Pools : q # p => cur'[q] = cur[q],
         NEW i \in 1..(Len(calls) - 1)
  PROVE  /\ calls[i] \in Call /\ calls[i].pool # p
         /\ \A q \in {calls[i].pool} \cup Tried(calls[i]) : q # p /\ q \in Pools /\ cur'[q] = cur[q]
         /\ SearchOK(calls[i]) /\ \A c : c = calls[i] => SearchOK(c)'
<1>1. i \in 1..Len(calls) /\ calls[i] \in Call
  BY StackTypes DEF AllocInv
<1>2. p \notin {calls[i].pool} \cup Tried(calls[i])
  BY DEF MovesUnder
<1>3. calls[i].pool \in Pools /\ calls[i].pools \subseteq Pools
  BY <1>1 DEF Call
<1>4. \A q \in {calls[i].pool} \cup Tried(calls[i]) : q # p /\ q \in Pools /\ cur'[q] = cur[q]
  BY <1>2, <1>3 DEF Tried
<1>5. SearchOK(calls[i])
  BY <1>1 DEF AllocInv, CallOK
<1>6. \A c : c = calls[i] => SearchOK(c)'
  BY <1>4, <1>5 DEF SearchOK
<1>7. QED
  BY <1>1, <1>2, <1>4, <1>5, <1>6

LEMMA NewCallOK ==
  ASSUME AllocInv, NEW op \in {"alloc", "avoid", "dry1", "dry2"},
         op \in {"dry1", "dry2"} => "MEM2" \in Pools, NEW p \in Pools,
         NEW s \in Sizes, s # 0, NEW a \in Aligns, NEW avoid \in SUBSET MemRange
  PROVE  /\ NewCall(op, p, s, a, avoid) \in Call /\ SearchOK(NewCall(op, p, s, a, avoid))
         /\ [NewCall(op, p, s, a, avoid) EXCEPT !.pools = Pools] \in Call
         /\ SearchOK([NewCall(op, p, s, a, avoid) EXCEPT !.pools = Pools])
<1> DEFINE c == NewCall(op, p, s, a, avoid)
<1>1. s \in Nat /\ s >= 1 /\ s + Header < WORD
  BY Constants, AllocatorAssumption
<1>2. EffectiveAlign(a) \in Nat /\ EffectiveAlign(a) >= MIN_ALIGN
  BY Constants, AllocatorAssumption DEF EffectiveAlign
<1>3. cur[p] \in Nat
  BY Types DEF AllocInv
<1>4. c = [op |-> op, pool |-> p, size |-> s, align |-> EffectiveAlign(a), avoid |-> avoid,
           pools |-> {p}, top |-> cur[p], mem1 |-> 0]
  BY DEF NewCall
<1>5. /\ [c EXCEPT !.pools = Pools]
           = [op |-> op, pool |-> p, size |-> s, align |-> EffectiveAlign(a), avoid |-> avoid,
              pools |-> Pools, top |-> cur[p], mem1 |-> 0]
  BY <1>4
<1> HIDE DEF c
<1>6. \A P \in SUBSET Pools :
        [op |-> op, pool |-> p, size |-> s, align |-> EffectiveAlign(a), avoid |-> avoid,
         pools |-> P, top |-> cur[p], mem1 |-> 0] \in Call
  BY <1>1, <1>2, <1>3 DEF Call
<1>7. \A P : SearchOK([op |-> op, pool |-> p, size |-> s, align |-> EffectiveAlign(a), avoid |-> avoid,
                       pools |-> P, top |-> cur[p], mem1 |-> 0])
  BY <1>1, <1>2, <1>3 DEF SearchOK
<1>8. {p} \in SUBSET Pools /\ Pools \in SUBSET Pools
  OBVIOUS
<1>9. QED
  BY <1>4, <1>5, <1>6, <1>7, <1>8 DEF c

(* A call that begins asks for something, and is put on the others.         *)
LEMMA Starts ==
  ASSUME AllocInv, ~Excused', NEW s \in Sizes, NEW a \in Aligns,
         \/ M_PoolAlloc(s, a) \/ M_PoolAllocAny(s, a)
         \/ \E avoid \in Avoids : M_PoolAllocAvoid(s, a, avoid) \/ M_PoolAllocAvoidAny(s, a, avoid)
  PROVE  /\ s # 0 /\ panic = "no" /\ UNCHANGED <<cur, hdr, live, panic>>
         /\ \E op \in {"alloc", "avoid", "dry1"}, p \in Pools, avoid \in SUBSET MemRange :
               /\ op = "dry1" => "MEM2" \in Pools
               /\ \/ op # "dry1" /\ calls' = Append(calls, NewCall(op, p, s, a, avoid))
                  \/ /\ op = "alloc" \/ (p = "MEM1" /\ (op = "avoid" => Pools = {"MEM1"}))
                     /\ calls' = Append(calls, [NewCall(op, p, s, a, avoid) EXCEPT !.pools = Pools])
<1>1. Begin(s)
  BY DEF M_PoolAlloc, M_PoolAllocAny, M_PoolAllocAvoid, M_PoolAllocAvoidAny
<1>2. s # 0 /\ panic = "no" /\ UNCHANGED <<cur, hdr, live, panic>>
  BY <1>1 DEF Begin, MayCall, Excused
<1>3. LargerPool \in Pools /\ "MEM1" \in Pools /\ ("MEM2" \notin Pools => Pools = {"MEM1"})
  BY AllocatorAssumption DEF LargerPool
<1>4. {} \in SUBSET MemRange /\ \A avoid \in Avoids : avoid \in SUBSET MemRange
  BY AllocatorAssumption
<1> DEFINE Shape(op, p, avoid) ==
       /\ op = "dry1" => "MEM2" \in Pools
       /\ \/ op # "dry1" /\ calls' = Append(calls, NewCall(op, p, s, a, avoid))
          \/ /\ op = "alloc" \/ (p = "MEM1" /\ (op = "avoid" => Pools = {"MEM1"}))
             /\ calls' = Append(calls, [NewCall(op, p, s, a, avoid) EXCEPT !.pools = Pools])
<1>5. CASE M_PoolAlloc(s, a)
  <2>1. PICK p \in Pools : calls' = Append(calls, NewCall("alloc", p, s, a, {}))
    BY <1>5 DEF M_PoolAlloc
  <2>2. Shape("alloc", p, {})
    BY <2>1
  <2>3. QED
    BY <1>2, <1>4, <2>2
<1>6. CASE M_PoolAllocAny(s, a)
  <2>1. Shape("alloc", LargerPool, {})
    BY <1>6 DEF M_PoolAllocAny
  <2>2. QED
    BY <1>2, <1>3, <1>4, <2>1
<1>7. ASSUME NEW avoid \in Avoids, M_PoolAllocAvoid(s, a, avoid)
      PROVE  \E op \in {"alloc", "avoid", "dry1"}, p \in Pools, av \in SUBSET MemRange : Shape(op, p, av)
  <2>1. PICK p \in Pools : calls' = Append(calls, NewCall("avoid", p, s, a, avoid))
    BY <1>7 DEF M_PoolAllocAvoid
  <2>2. Shape("avoid", p, avoid)
    BY <2>1
  <2> HIDE DEF Shape
  <2>3. QED
    BY <1>4, <2>2
<1>8. ASSUME NEW avoid \in Avoids, M_PoolAllocAvoidAny(s, a, avoid)
      PROVE  \E op \in {"alloc", "avoid", "dry1"}, p \in Pools, av \in SUBSET MemRange : Shape(op, p, av)
  <2>1. CASE "MEM2" \in Pools
    <3>1. Shape("dry1", "MEM1", avoid)
      BY <1>8, <2>1 DEF M_PoolAllocAvoidAny
    <3> HIDE DEF Shape
    <3>2. QED
      BY <1>3, <1>4, <3>1
  <2>2. CASE "MEM2" \notin Pools
    <3>1. Shape("avoid", "MEM1", avoid)
      BY <1>3, <1>8, <2>2 DEF M_PoolAllocAvoidAny
    <3> HIDE DEF Shape
    <3>2. QED
      BY <1>3, <1>4, <3>1
  <2>3. QED
    BY <2>1, <2>2
<1>9. QED
  BY <1>2, <1>5, <1>6, <1>7, <1>8

LEMMA StartInv ==
  ASSUME AllocInv, ~Excused', NEW s \in Sizes, NEW a \in Aligns,
         \/ M_PoolAlloc(s, a) \/ M_PoolAllocAny(s, a)
         \/ \E avoid \in Avoids : M_PoolAllocAvoid(s, a, avoid) \/ M_PoolAllocAvoidAny(s, a, avoid)
  PROVE  AllocInv'
<1>1. s # 0 /\ UNCHANGED <<cur, hdr, live, panic>>
  BY Starts
<1>2. PICK op \in {"alloc", "avoid", "dry1"}, p \in Pools, avoid \in SUBSET MemRange :
        /\ op = "dry1" => "MEM2" \in Pools
        /\ \/ calls' = Append(calls, NewCall(op, p, s, a, avoid))
           \/ calls' = Append(calls, [NewCall(op, p, s, a, avoid) EXCEPT !.pools = Pools])
  BY Starts
<1>3. PICK c \in Call : calls' = Append(calls, c) /\ SearchOK(c)
  BY <1>1, <1>2, NewCallOK
<1>4. QED
  BY <1>1, <1>3, AppendStep

(* What a search knows of its candidate. *)
LEMMA CandidateFacts ==
  ASSUME AllocInv, Searching
  PROVE  /\ Mine \in Call /\ SearchOK(Mine) /\ Mine.op \in {"alloc", "avoid", "dry1", "dry2"}
         /\ Mine.pool \in Pools /\ Mine.top \in Nat /\ Mine.size \in Nat /\ Mine.align \in Nat
         /\ Mine.avoid \in SUBSET MemRange /\ Mine.mem1 \in Nat /\ calls # <<>>
         /\ Mine.top <= cur[Mine.pool] /\ 1 <= Mine.size /\ Mine.size + Header < WORD
         /\ MIN_ALIGN <= Mine.align
         /\ \A m \in Candidate(Mine) : ~NoRoom(Mine, m) =>
               /\ m \in Nat /\ m % Mine.align = 0
               /\ PoolBottom[Mine.pool] + Header <= m /\ m + Mine.size <= Mine.top
               /\ Plus(m, Mine.size) = m + Mine.size
               /\ \A y \in (m + 1)..(Mine.top - Mine.size) : y % Mine.align # 0
<1>1. calls # <<>> /\ Mine.op \in {"alloc", "avoid", "dry1", "dry2"}
  BY DEF Searching, Running
<1>2. Mine \in Call /\ SearchOK(Mine)
  BY <1>1, StackTypes DEF AllocInv, CallOK
<1>3. /\ Mine.pool \in Pools /\ Mine.top \in Nat /\ Mine.size \in Nat /\ Mine.align \in Nat
      /\ Mine.avoid \in SUBSET MemRange /\ Mine.mem1 \in Nat
  BY <1>2 DEF Call
<1>4. /\ Mine.top <= cur[Mine.pool] /\ 1 <= Mine.size /\ Mine.size + Header < WORD
      /\ MIN_ALIGN <= Mine.align
  BY <1>1, <1>2 DEF SearchOK
<1>5. ASSUME NEW m \in Candidate(Mine), ~NoRoom(Mine, m)
      PROVE  /\ m \in Nat /\ m % Mine.align = 0
             /\ PoolBottom[Mine.pool] + Header <= m /\ m + Mine.size <= Mine.top
             /\ Plus(m, Mine.size) = m + Mine.size
             /\ \A y \in (m + 1)..(Mine.top - Mine.size) : y % Mine.align # 0
  <2>1. Plus(Mine.size, Header) = Mine.size + Header
    BY <1>4 DEF Plus
  <2>2. Mine.top >= Mine.size
    BY <1>1, <1>3, <1>5, <2>1, Constants DEF NoRoom
  <2>3. Minus(Mine.top, Mine.size) = Mine.top - Mine.size
    BY <2>2 DEF Minus
  <2>4. /\ m \in (Mine.top - Mine.size - Mine.align + 1)..(Mine.top - Mine.size)
        /\ m % Mine.align = 0
        /\ \A y \in (m + 1)..(Mine.top - Mine.size) : y % Mine.align # 0
    BY <1>5, <2>3 DEF Candidate, AlignDown
  <2>5. PoolBottom[Mine.pool] + Header <= m /\ PoolBottom[Mine.pool] \in Nat
    BY <1>3, <1>5, <2>4, Constants DEF NoRoom
  <2>6. m \in Nat /\ m + Mine.size <= Mine.top
    BY <1>3, <2>4, <2>5, Constants
  <2>7. cur[Mine.pool] \in Nat /\ cur[Mine.pool] <= PoolTop[Mine.pool] /\ PoolTop[Mine.pool] < WORD
    BY <1>3, Types, Constants DEF AllocInv, Tiled
  <2>8. Plus(m, Mine.size) = m + Mine.size
    BY <1>3, <1>4, <2>6, <2>7, Constants DEF Plus
  <2>9. QED
    BY <2>4, <2>5, <2>6, <2>8
<1>6. QED
  BY <1>1, <1>2, <1>3, <1>4, <1>5

LEMMA RetryInv == ASSUME AllocInv, Retry PROVE AllocInv'
<1>1. Searching /\ UNCHANGED <<cur, hdr, live, panic>>
  BY DEF Retry
<1>10. PICK m \in Candidate(Mine) :
         /\ ~NoRoom(Mine, m)
         /\ \E r \in Blocked(Mine, m) : Become([Mine EXCEPT !.top = RetryTop(r)])
  BY DEF Retry
<1>2. PICK r \in Blocked(Mine, m) : ~NoRoom(Mine, m) /\ Become([Mine EXCEPT !.top = RetryTop(r)])
  BY <1>10
<1>3. r \in MemRange /\ Hits(m, Mine.size, r)
  BY <1>1, CandidateFacts, AllocatorAssumption DEF Blocked
<1>4. r.start \in Nat /\ r.start < m + Mine.size
  BY <1>1, <1>2, <1>3, CandidateFacts DEF Hits, RangesOverlap, MemRange
<1>5. r.start <= cur[Mine.pool]
  BY <1>1, <1>2, <1>4, CandidateFacts, Types DEF AllocInv
<1> DEFINE c == [Mine EXCEPT !.top = RetryTop(r)]
<1>6. c \in Call /\ SearchOK(c)
  <2>1. \A t \in Nat : [Mine EXCEPT !.top = t] \in Call
    BY <1>1, CandidateFacts DEF Call
  <2>2. \A t \in Nat : t <= cur[Mine.pool] => SearchOK([Mine EXCEPT !.top = t])
    BY <1>1, CandidateFacts DEF SearchOK, Call
  <2>3. QED
    BY <1>4, <1>5, <2>1, <2>2 DEF RetryTop
<1>7. calls # <<>> /\ Become(c) /\ Mine.op # "free"
  <2> HIDE DEF c
  <2>1. QED
    BY <1>1, <1>2, CandidateFacts DEF c
<1> HIDE DEF c
<1>8. QED
  BY <1>1, <1>6, <1>7, BecomeStep

LEMMA DryRunInv == ASSUME AllocInv, DryRun PROVE AllocInv'
<1>1. Searching /\ UNCHANGED <<cur, hdr, live, panic>>
  BY DEF DryRun
<1>2. PICK m \in Nat : DryResult(m)
  BY <1>1, CandidateFacts, 0 \in Nat DEF DryRun
<1>3. calls # <<>> /\ Mine.op # "free"
  BY <1>1, CandidateFacts
<1>4. \A p \in Pools : cur[p] \in Nat
  BY Types DEF AllocInv
<1>5. PICK c \in Call : Become(c) /\ SearchOK(c)
  <2>1. CASE Mine.op = "dry1" /\ Become([Mine EXCEPT !.op = "dry2", !.pool = "MEM2", !.top = cur["MEM2"], !.mem1 = m])
    <3>1. "MEM2" \in Pools /\ cur["MEM2"] \in Nat /\ cur["MEM2"] <= cur["MEM2"]
      BY <1>1, <1>4, <2>1, CandidateFacts DEF SearchOK
    <3>2. ASSUME NEW o \in {"dry2"}, NEW p \in Pools, NEW t \in Nat, t <= cur[p]
          PROVE  /\ [Mine EXCEPT !.op = o, !.pool = p, !.top = t, !.mem1 = m] \in Call
                 /\ SearchOK([Mine EXCEPT !.op = o, !.pool = p, !.top = t, !.mem1 = m])
      <4>1. [Mine EXCEPT !.op = o, !.pool = p, !.top = t, !.mem1 = m] \in Call
        BY <1>1, CandidateFacts DEF Call
      <4>2. SearchOK([Mine EXCEPT !.op = o, !.pool = p, !.top = t, !.mem1 = m])
        BY <1>1, <3>1, <3>2, CandidateFacts DEF SearchOK, Call
      <4>3. QED
        BY <4>1, <4>2
    <3>3. \E o \in {"dry2"}, p \in Pools, t \in Nat :
             t <= cur[p] /\ Become([Mine EXCEPT !.op = o, !.pool = p, !.top = t, !.mem1 = m])
      BY ONLY <2>1, <3>1, Zenon
    <3>4. QED
      BY <3>2, <3>3
  <2>2. CASE Become([Mine EXCEPT !.op = "null"])
    <3>1. \A o \in {"null"} : [Mine EXCEPT !.op = o] \in Call /\ SearchOK([Mine EXCEPT !.op = o])
      BY <1>1, CandidateFacts DEF Call, SearchOK
    <3>2. QED
      BY <2>2, <3>1
  <2>3. ASSUME NEW p \in Pools, Become([Mine EXCEPT !.op = "avoid", !.pool = p, !.top = cur[p]])
        PROVE  \E c \in Call : Become(c) /\ SearchOK(c)
    <3>1. cur[p] \in Nat /\ cur[p] <= cur[p]
      BY <1>4
    <3>2. ASSUME NEW o \in {"avoid"}, NEW t \in Nat, t <= cur[p]
          PROVE  /\ [Mine EXCEPT !.op = o, !.pool = p, !.top = t] \in Call
                 /\ SearchOK([Mine EXCEPT !.op = o, !.pool = p, !.top = t])
      <4>1. [Mine EXCEPT !.op = o, !.pool = p, !.top = t] \in Call
        BY <1>1, CandidateFacts DEF Call
      <4>2. SearchOK([Mine EXCEPT !.op = o, !.pool = p, !.top = t])
        BY <1>1, <3>2, CandidateFacts DEF SearchOK, Call
      <4>3. QED
        BY <4>1, <4>2
    <3>3. \E o \in {"avoid"}, t \in Nat :
             t <= cur[p] /\ Become([Mine EXCEPT !.op = o, !.pool = p, !.top = t])
      BY ONLY <2>3, <3>1, Zenon
    <3>4. QED
      BY <3>2, <3>3
  <2>4. "MEM1" \in Pools /\ (Mine.op = "dry2" => "MEM2" \in Pools)
    BY <1>1, CandidateFacts, AllocatorAssumption DEF SearchOK
  <2>5. Mine.op = "dry2" => Choice(Mine.mem1, m) \in Pools
    BY <2>4 DEF Choice
  <2>6. CASE \E p \in Pools : Become([Mine EXCEPT !.op = "avoid", !.pool = p, !.top = cur[p]])
    BY ONLY <2>3, <2>6
  <2>7. \/ Mine.op = "dry1" /\ Become([Mine EXCEPT !.op = "dry2", !.pool = "MEM2", !.top = cur["MEM2"], !.mem1 = m])
        \/ Become([Mine EXCEPT !.op = "null"])
        \/ \E p \in Pools : Become([Mine EXCEPT !.op = "avoid", !.pool = p, !.top = cur[p]])
    <3>1. CASE Mine.op = "dry1" /\ Become([Mine EXCEPT !.op = "dry2", !.pool = "MEM2", !.top = cur["MEM2"], !.mem1 = m])
      BY ONLY <3>1, Zenon
    <3>2. CASE Become([Mine EXCEPT !.op = "null"])
      BY ONLY <3>2, Zenon
    <3>3. CASE Mine.op = "dry2" /\ LET p == Choice(Mine.mem1, m) IN Become([Mine EXCEPT !.op = "avoid", !.pool = p, !.top = cur[p]])
      BY ONLY <3>3, <2>5, Zenon
    <3>4. QED
      BY ONLY <1>2, <3>1, <3>2, <3>3, Zenon DEF DryResult
  <2>8. QED
    BY ONLY <2>1, <2>2, <2>6, <2>7
<1>6. QED
  BY <1>1, <1>3, <1>5, BecomeStep

LEMMA OutOfMemoryInv == ASSUME AllocInv, OutOfMemory PROVE AllocInv'
<1>1. Searching /\ UNCHANGED <<cur, hdr, live>>
  BY DEF OutOfMemory
<1>2. calls # <<>> /\ Mine.op # "free"
  BY <1>1, CandidateFacts
<1>3. CASE panic' = "out of memory" /\ UNCHANGED calls
  <2>2. TypeOK' /\ MetadataIntact'
    BY <1>1, <1>3 DEF AllocInv, TypeOK, MetadataIntact
  <2>3. Tiled' /\ Owned'
    BY <1>1 DEF AllocInv, Tiled, BlockIn, End, Owned
  <2>4. Postponed' /\ CallOK'
    BY <1>1, <1>3 DEF AllocInv, Postponed, Pending, Waits, CallOK, SearchOK
  <2>5. QED
    BY <2>2, <2>3, <2>4 DEF AllocInv
<1>4. CASE Become([Mine EXCEPT !.op = "null"]) /\ UNCHANGED panic
  <2>1. \A o \in {"null"} : [Mine EXCEPT !.op = o] \in Call /\ SearchOK([Mine EXCEPT !.op = o])
    BY <1>1, CandidateFacts DEF Call, SearchOK
  <2>2. PICK c \in Call : Become(c) /\ SearchOK(c)
    BY <1>4, <2>1
  <2>3. QED
    BY <1>1, <1>2, <1>4, <2>2, BecomeStep
<1>5. QED
  BY <1>3, <1>4 DEF OutOfMemory

LEMMA ReturnNullInv == ASSUME AllocInv, ReturnNull PROVE AllocInv'
<1>1. calls # <<>> /\ Mine.op = "null" /\ Return /\ UNCHANGED <<cur, hdr, live, panic>>
  BY DEF ReturnNull, Running
<1>2. \A p \in Pools : ~Waits(Len(calls), p)
  BY <1>1 DEF Waits, Mine
<1>3. QED
  BY <1>1, <1>2, ReturnStep

(* A block of a pool lies outside the other.                                *)
LEMMA Apart ==
  ASSUME AllocInv, NEW p \in Pools, NEW q \in Pools, NEW b \in DOMAIN hdr, BlockIn(b, q)
  PROVE  p = q \/ End(b) < PoolBottom[p] \/ PoolTop[p] < b
<1>1. /\ PoolBottom[q] \in Nat /\ PoolTop[q] \in Nat /\ PoolBottom[p] \in Nat /\ PoolTop[p] \in Nat
      /\ p # q => PoolTop[p] < PoolBottom[q] \/ PoolTop[q] < PoolBottom[p]
  BY Constants
<1>2. b \in Nat /\ End(b) \in Nat /\ cur[q] \in Nat
  BY Types, Constants DEF AllocInv, End
<1>3. PoolBottom[q] <= cur[q] /\ cur[q] <= b /\ End(b) <= PoolTop[q]
  BY DEF AllocInv, Tiled, BlockIn
<1>4. QED
  BY <1>1, <1>2, <1>3

(* What is known of a block and of cur_bottom.                              *)
LEMMA BlockFacts ==
  ASSUME AllocInv
  PROVE  /\ \A b \in DOMAIN hdr : b \in Nat /\ hdr[b].size \in Nat /\ End(b) \in Nat /\ b < End(b)
         /\ \A p \in Pools : /\ cur[p] \in Nat /\ PoolBottom[p] \in Nat /\ PoolTop[p] \in Nat
                             /\ Header <= PoolBottom[p] /\ PoolBottom[p] <= cur[p]
                             /\ cur[p] <= PoolTop[p] /\ PoolTop[p] < WORD
                             /\ cur[p] = PoolTop[p] \/ cur[p] \in DOMAIN hdr
         /\ Header \in Nat /\ Header >= 1 /\ WORD \in Nat
BY Types, Constants DEF AllocInv, Tiled, End

LEMMA AllocateInv == ASSUME AllocInv, Allocate, ~Excused' PROVE AllocInv'
<1> DEFINE a(m) == [mem |-> m, size |-> Mine.size, avoid |-> Mine.avoid]
<1>1. /\ Searching /\ UNCHANGED panic /\ Return /\ ~MovesUnder
      /\ calls # <<>> /\ Mine.op # "free"
  <2>1. Searching /\ UNCHANGED panic /\ Return /\ ~MovesUnder
    BY DEF Allocate, Excused
  <2>2. QED
    BY <2>1, CandidateFacts
<1>s. /\ calls' \in Seq(Call) /\ Len(calls') = Len(calls) - 1 /\ Len(calls) \in Nat
      /\ \A i \in 1..(Len(calls) - 1) : calls'[i] = calls[i]
  BY <1>1, StackReturn, StackTypes DEF AllocInv
<1>p. PICK p \in Pools : p = Mine.pool
  BY <1>1, CandidateFacts
<1>2. PICK m \in Candidate(Mine) :
        /\ ~NoRoom(Mine, m) /\ Blocked(Mine, m) = {}
        /\ hdr' = [b \in DOMAIN hdr \cup {m - Header} |->
                      IF b = m - Header THEN [size |-> BlockSize(Mine, m), free |-> FALSE]
                      ELSE hdr[b]]
        /\ cur' = [cur EXCEPT ![p] = m - Header]
        /\ live' = live \cup {a(m)}
  BY <1>p DEF Allocate
<1>3. /\ p \in Pools /\ Mine.size \in Nat /\ Mine.size >= 1 /\ Mine.avoid \in SUBSET MemRange
      /\ m \in Nat /\ PoolBottom[p] + Header <= m /\ m + Mine.size <= cur[p]
  <2>1. /\ p \in Pools /\ Mine.size \in Nat /\ Mine.size >= 1 /\ Mine.avoid \in SUBSET MemRange
        /\ m \in Nat /\ PoolBottom[p] + Header <= m
        /\ m + Mine.size <= Mine.top /\ Mine.top <= cur[p] /\ Mine.top \in Nat
    BY <1>1, <1>2, <1>p, CandidateFacts
  <2>2. QED
    BY <2>1, BlockFacts
<1>n. PICK n \in Nat : n = m - Header
  BY <1>3, BlockFacts
<1>4. n \in Nat /\ PoolBottom[p] <= n /\ n < cur[p] /\ n <= PoolTop[p] /\ n + Header = m
  BY <1>3, <1>n, BlockFacts
<1>5. BlockSize(Mine, m) \in Nat /\ BlockSize(Mine, m) >= Mine.size /\ n + Header + BlockSize(Mine, m) = cur[p]
  BY <1>3, <1>n, <1>p, BlockFacts DEF BlockSize, Minus
<1>7. \A b \in DOMAIN hdr, q \in Pools :
         BlockIn(b, q) => (p = q /\ n < cur[p] /\ cur[p] <= b) \/ End(b) < n \/ (n < b /\ cur[p] <= b)
  <2>1. ASSUME NEW b \in DOMAIN hdr, NEW q \in Pools, BlockIn(b, q)
        PROVE  (p = q /\ n < cur[p] /\ cur[p] <= b) \/ End(b) < n \/ (n < b /\ cur[p] <= b)
    <3>1. p = q \/ End(b) < PoolBottom[p] \/ PoolTop[p] < b
      BY <1>3, <2>1, Apart
    <3>2. p = q => cur[p] <= b
      BY <2>1 DEF BlockIn
    <3>3. QED
      BY <1>3, <1>4, <3>1, <3>2, BlockFacts
  <2>2. QED
    BY <2>1
<1>8. n \notin DOMAIN hdr
  <2>1. n \in DOMAIN hdr => \E q \in Pools : BlockIn(n, q)
    BY DEF AllocInv, Tiled
  <2>2. QED
    BY <1>3, <1>4, <1>7, <2>1, BlockFacts
<1>9. /\ DOMAIN hdr' = DOMAIN hdr \cup {n}
      /\ hdr'[n].size = BlockSize(Mine, m) /\ hdr'[n].free = FALSE
      /\ \A b \in DOMAIN hdr : hdr'[b] = hdr[b]
      /\ cur'[p] = n /\ \A q \in Pools : q # p => cur'[q] = cur[q]
  <2>1. cur \in [Pools -> Nat]
    BY DEF AllocInv, TypeOK
  <2>2. QED
    BY <1>2, <1>3, <1>8, <1>n, <2>1
<1>10. TypeOK'
  <2>1. TypeOK
    BY DEF AllocInv
  <2>2. cur' \in [Pools -> Nat]
    BY <1>2, <1>3, <1>n, <2>1 DEF TypeOK
  <2>3. [size |-> BlockSize(Mine, m), free |-> FALSE] \in Block
    BY <1>5 DEF Block
  <2>4. DOMAIN hdr' \subseteq Nat /\ hdr' \in [DOMAIN hdr' -> Block]
    BY <1>2, <1>n, <1>9, <2>1, <2>3 DEF TypeOK
  <2>5. live' \subseteq [mem : Nat, size : Nat, avoid : SUBSET MemRange]
    <3>1. a(m) \in [mem : Nat, size : Nat, avoid : SUBSET MemRange]
      BY <1>3
    <3> HIDE DEF a
    <3>2. QED
      BY <1>2, <3>1, <2>1 DEF TypeOK
  <2>6. calls' \in Seq(Call)
    BY <1>s
  <2>7. QED
    BY <1>1, <2>1, <2>2, <2>4, <2>5, <2>6 DEF TypeOK
<1>11. Tiled'
  <2>1. End(n)' = cur[p] /\ \A b \in DOMAIN hdr : End(b)' = End(b)
    BY <1>5, <1>9 DEF End
  <2>2. \A b \in DOMAIN hdr' : \E q \in Pools : BlockIn(b, q)'
    <3>1. BlockIn(n, p)'
      BY <1>3, <1>4, <1>9, <2>1, BlockFacts DEF BlockIn
    <3>2. ASSUME NEW b \in DOMAIN hdr, NEW q \in Pools, BlockIn(b, q) PROVE BlockIn(b, q)'
      <4>1. cur[q] <= b /\ End(b) <= PoolTop[q] /\ (End(b) = PoolTop[q] \/ End(b) \in DOMAIN hdr)
        BY <3>2 DEF BlockIn
      <4>2. cur'[q] <= b
        BY <1>4, <1>9, <4>1, BlockFacts
      <4>3. QED
        BY <1>9, <2>1, <4>1, <4>2 DEF BlockIn
    <3>3. \A b \in DOMAIN hdr : \E q \in Pools : BlockIn(b, q)
      BY DEF AllocInv, Tiled
    <3>4. QED
      BY <1>3, <1>9, <3>1, <3>2, <3>3
  <2>3. \A b, c \in DOMAIN hdr' : b < c => End(b)' <= c
    <3>1. \A b, c \in DOMAIN hdr : b < c => End(b) <= c
      BY DEF AllocInv, Tiled
    <3>2. \A b \in DOMAIN hdr : \E q \in Pools : BlockIn(b, q)
      BY DEF AllocInv, Tiled
    <3>3. \A b \in DOMAIN hdr : cur[p] <= b \/ End(b) < n
      BY <1>3, <1>7, <3>2
    <3>4. \A b \in DOMAIN hdr : /\ n < b => End(n)' <= b
                                /\ b < n => End(b)' <= n
      BY <1>3, <1>4, <2>1, <3>3, BlockFacts
    <3>5. QED
      BY <1>4, <1>9, <2>1, <3>1, <3>4
  <2>4. \A q \in Pools : /\ PoolBottom[q] <= cur'[q] /\ cur'[q] <= PoolTop[q]
                         /\ cur'[q] = PoolTop[q] \/ cur'[q] \in DOMAIN hdr'
    BY <1>4, <1>9, BlockFacts
  <2>5. QED
    BY <2>2, <2>3, <2>4 DEF Tiled
<1>12. Owned'
  <2>1. Owned
    BY DEF AllocInv
  <2>2. a(m).mem = m /\ a(m).size = Mine.size /\ a(m).avoid = Mine.avoid /\ m - Header = n
    BY <1>n
  <2>3. \A r \in a(m).avoid \cup Reserved : ~Hits(a(m).mem, a(m).size, r)
    BY <1>2, <1>p, <2>2 DEF Blocked
  <2> HIDE DEF a
  <2>4. \A x \in live : x.mem \in Nat /\ x.mem - Header \in DOMAIN hdr
    BY <2>1, Types DEF Owned, AllocInv
  <2>5. \A x \in live : x.mem - Header # n /\ x.mem # m
    BY <1>n, <1>8, <2>2, <2>4
  <2>6. \A x \in live' : /\ x.mem - Header \in DOMAIN hdr' /\ ~hdr'[x.mem - Header].free
                         /\ 1 <= x.size /\ x.size <= hdr'[x.mem - Header].size
                         /\ \A r \in x.avoid \cup Reserved : ~Hits(x.mem, x.size, r)
    <3>1. ASSUME NEW x \in live
          PROVE  /\ x.mem - Header \in DOMAIN hdr' /\ ~hdr'[x.mem - Header].free
                 /\ 1 <= x.size /\ x.size <= hdr'[x.mem - Header].size
                 /\ \A r \in x.avoid \cup Reserved : ~Hits(x.mem, x.size, r)
      BY <1>9, <2>1, <2>4 DEF Owned
    <3>2. /\ a(m).mem - Header \in DOMAIN hdr' /\ ~hdr'[a(m).mem - Header].free
          /\ 1 <= a(m).size /\ a(m).size <= hdr'[a(m).mem - Header].size
      BY <1>3, <1>5, <1>9, <2>2
    <3>3. QED
      BY <1>2, <2>3, <3>1, <3>2
  <2>7. \A x, y \in live' : x.mem = y.mem => x = y
    <3>1. \A x, y \in live : x.mem = y.mem => x = y
      BY <2>1 DEF Owned
    <3>2. QED
      BY <1>2, <2>2, <2>5, <3>1
  <2>8. \A b \in DOMAIN hdr' : ~hdr'[b].free => \E x \in live' : x.mem = b + Header
    <3>1. \A b \in DOMAIN hdr : ~hdr[b].free => \E x \in live : x.mem = b + Header
      BY <2>1 DEF Owned
    <3>2. a(m) \in live' /\ a(m).mem = n + Header
      BY <1>2, <1>4, <2>2
    <3>3. QED
      BY <1>2, <1>9, <3>1, <3>2
  <2>9. QED
    BY <2>6, <2>7, <2>8 DEF Owned
<1>13. Postponed'
  <2>1. ASSUME NEW q \in Pools, Pending(q)'
        PROVE  (\E i \in 1..Len(calls) : Waits(i, q))'
    <3>1. q # p /\ Pending(q) /\ cur'[q] = cur[q]
      BY <1>9, <2>1, BlockFacts DEF Pending
    <3>2. PICK i \in 1..Len(calls) : Waits(i, q)
      BY <3>1 DEF AllocInv, Postponed
    <3>3. i # Len(calls)
      BY <1>1, <3>2 DEF Waits, Mine
    <3>4. i \in 1..Len(calls') /\ calls'[i] = calls[i]
      BY <1>s, <3>2, <3>3
    <3>5. QED
      BY <3>1, <3>2, <3>4 DEF Waits
  <2>2. QED
    BY <2>1 DEF Postponed
<1>14. CallOK' /\ MetadataIntact'
  <2>1. ASSUME NEW i \in 1..Len(calls') PROVE SearchOK(calls[i])'
    <3>1. i \in 1..(Len(calls) - 1) /\ calls'[i] = calls[i]
      BY <1>s, <2>1
    <3>2. PICK c : c = calls[i]
      OBVIOUS
    <3>3. SearchOK(c)'
      BY <1>1, <1>p, <1>9, <3>1, <3>2, Untouched
    <3>4. QED
      BY <3>1, <3>2, <3>3 DEF SearchOK
  <2>2. QED
    BY <1>1, <2>1 DEF AllocInv, CallOK, MetadataIntact
<1>15. QED
  BY <1>10, <1>11, <1>12, <1>13, <1>14 DEF AllocInv

LEMMA FreeCallOK ==
  ASSUME AllocInv, NEW p \in Pools, NEW b \in Nat
  PROVE  [NewCall("free", p, 0, 0, {}) EXCEPT !.top = b] \in Call
<1>1. EffectiveAlign(0) \in Nat /\ 0 \in Nat /\ {} \in SUBSET MemRange /\ {p} \in SUBSET Pools
  BY Constants DEF EffectiveAlign
<1>2. \A o \in {"free"}, al \in Nat, n \in Nat, P \in SUBSET Pools, A \in SUBSET MemRange :
        [op |-> o, pool |-> p, size |-> n, align |-> al, avoid |-> A,
         pools |-> P, top |-> b, mem1 |-> n] \in Call
  BY DEF Call
<1>3. [NewCall("free", p, 0, 0, {}) EXCEPT !.top = b]
        = [op |-> "free", pool |-> p, size |-> 0, align |-> EffectiveAlign(0), avoid |-> {},
           pools |-> {p}, top |-> b, mem1 |-> 0]
  BY DEF NewCall
<1>4. QED
  BY <1>1, <1>2, <1>3

LEMMA FreeInv == ASSUME AllocInv, NEW a \in live, Free(a) PROVE AllocInv'
<1>1. panic = "no" /\ live' = live \ {a} /\ cur' = cur
  BY DEF Free, MayCall
<1>2. PICK b \in DOMAIN hdr : /\ b = a.mem - Header /\ a.mem = b + Header /\ ~hdr[b].free
                              /\ 1 <= hdr[b].size
  <2>1. /\ a.mem - Header \in DOMAIN hdr /\ ~hdr[a.mem - Header].free
        /\ 1 <= a.size /\ a.size <= hdr[a.mem - Header].size
        /\ a.mem \in Nat /\ a.size \in Nat
    BY Types DEF AllocInv, Owned
  <2>2. QED
    BY <2>1, BlockFacts
<1>3. PICK q \in Pools : BlockIn(b, q)
  BY DEF AllocInv, Tiled
<1>4. InPool(q, a.mem) /\ cur[q] <= b /\ b < a.mem
  BY <1>2, <1>3, BlockFacts DEF BlockIn, InPool, End
<1>5. \A p \in Pools : InPool(p, a.mem) => p = q
  <2>1. ASSUME NEW p \in Pools, InPool(p, a.mem), p # q PROVE FALSE
    <3>1. End(b) < PoolBottom[p] \/ PoolTop[p] < b
      BY <1>3, <2>1, Apart
    <3>2. b < a.mem /\ a.mem <= End(b) /\ PoolBottom[p] <= a.mem /\ a.mem < PoolTop[p]
      BY <1>2, <2>1, BlockFacts DEF InPool, End
    <3>3. QED
      BY <1>2, <3>1, <3>2, BlockFacts
  <2>2. QED
    BY <2>1
<1>6. ~(a.mem < cur[q] \/ CanFree(b))
  BY <1>2, <1>4, BlockFacts DEF CanFree
<1>7. /\ hdr' = [hdr EXCEPT ![b].free = TRUE] /\ UNCHANGED panic
      /\ calls' = Append(calls, [NewCall("free", q, 0, 0, {}) EXCEPT !.top = b])
  BY <1>2, <1>4, <1>5, <1>6 DEF Free
<1>8. PICK c \in Call : /\ c.op = "free" /\ c.pool = q /\ c.top = b
                        /\ calls' \in Seq(Call) /\ Len(calls') = Len(calls) + 1 /\ Len(calls) \in Nat
                        /\ calls'[Len(calls) + 1] = c
                        /\ \A i \in 1..Len(calls) : calls'[i] = calls[i]
  <2>1. PICK c \in Call : c = [NewCall("free", q, 0, 0, {}) EXCEPT !.top = b]
    BY FreeCallOK, BlockFacts
  <2>2. c.op = "free" /\ c.pool = q /\ c.top = b
    BY <2>1 DEF NewCall
  <2>3. calls' = Append(calls, c)
    BY <1>7, <2>1
  <2>4. QED
    BY <2>2, <2>3, StackAppend, StackTypes DEF AllocInv
<1>9. /\ DOMAIN hdr' = DOMAIN hdr /\ hdr'[b].free
      /\ \A x \in DOMAIN hdr : hdr'[x].size = hdr[x].size /\ (x # b => hdr'[x] = hdr[x])
      /\ hdr' \in [DOMAIN hdr -> Block]
  <2>1. hdr \in [DOMAIN hdr -> Block]
    BY DEF AllocInv, TypeOK
  <2>2. QED
    BY <1>7, <2>1 DEF Block
<1>10. TypeOK'
  <2> HIDE DEF Call
  <2>1. calls' \in Seq(Call)
    BY <1>8
  <2>2. QED
    BY <1>1, <1>7, <1>9, <2>1 DEF AllocInv, TypeOK
<1>11. Tiled'
  <2>1. \A x \in DOMAIN hdr : End(x)' = End(x)
    BY <1>9 DEF End
  <2>2. QED
    BY <1>1, <1>9, <2>1 DEF AllocInv, Tiled, BlockIn
<1>12. Owned'
  <2>1. Owned
    BY DEF AllocInv
  <2>2. \A x \in live' : x \in live /\ x.mem - Header # b
    BY <1>1, <1>2, <2>1, Types, BlockFacts DEF Owned, AllocInv
  <2>3. \A x \in live' : /\ x.mem - Header \in DOMAIN hdr' /\ ~hdr'[x.mem - Header].free
                         /\ 1 <= x.size /\ x.size <= hdr'[x.mem - Header].size
                         /\ \A r \in x.avoid \cup Reserved : ~Hits(x.mem, x.size, r)
    BY <1>9, <2>1, <2>2 DEF Owned
  <2>4. \A x, y \in live' : x.mem = y.mem => x = y
    BY <2>1, <2>2 DEF Owned
  <2>5. \A x \in DOMAIN hdr' : ~hdr'[x].free => \E y \in live' : y.mem = x + Header
    <3>1. \A x \in DOMAIN hdr : ~hdr[x].free => \E y \in live : y.mem = x + Header
      BY <2>1 DEF Owned
    <3>2. \A x \in DOMAIN hdr' : ~hdr'[x].free => x # b /\ x \in DOMAIN hdr /\ ~hdr[x].free
      BY <1>9
    <3>3. \A x \in DOMAIN hdr : x # b => x + Header # a.mem
      BY <1>2, BlockFacts
    <3>4. QED
      BY <1>1, <3>1, <3>2, <3>3
  <2>6. QED
    BY <2>3, <2>4, <2>5 DEF Owned
<1>13. Postponed'
  <2>1. ASSUME NEW p \in Pools, Pending(p)'
        PROVE  (\E i \in 1..Len(calls) : Waits(i, p))'
    <3>1. cur'[p] = cur[p] /\ cur[p] < PoolTop[p] /\ hdr'[cur[p]].free /\ cur[p] \in DOMAIN hdr
      BY <1>1, <2>1, BlockFacts DEF Pending
    <3>2. CASE cur[p] = b
      <4>1. p = q
        BY <1>3, <3>2, Apart, BlockFacts
      <4>2. Len(calls) + 1 \in 1..Len(calls')
        BY <1>8
      <4>3. QED
        BY <1>8, <3>1, <3>2, <4>1, <4>2 DEF Waits
    <3>3. CASE cur[p] # b
      <4>1. Pending(p)
        BY <1>9, <3>1, <3>3 DEF Pending
      <4>2. PICK i \in 1..Len(calls) : Waits(i, p)
        BY <4>1 DEF AllocInv, Postponed
      <4>3. i \in 1..Len(calls') /\ calls'[i] = calls[i]
        BY <1>8, <4>2
      <4>4. QED
        BY <3>1, <4>2, <4>3 DEF Waits
    <3>4. QED
      BY <3>2, <3>3
  <2>2. QED
    BY <2>1 DEF Postponed
<1>14. CallOK' /\ MetadataIntact'
  <2>1. ASSUME NEW i \in 1..Len(calls') PROVE SearchOK(calls[i])'
    <3>1. i \in 1..Len(calls) \/ i = Len(calls) + 1
      BY <1>8, <2>1
    <3>2. CASE i \in 1..Len(calls)
      <4>1. SearchOK(calls[i]) /\ calls'[i] = calls[i]
        BY <1>8, <3>2 DEF AllocInv, CallOK
      <4>2. QED
        BY <1>1, <4>1 DEF SearchOK
    <3>3. CASE i = Len(calls) + 1
      BY <1>8, <3>3 DEF SearchOK
    <3>4. QED
      BY <3>1, <3>2, <3>3
  <2>2. QED
    BY <1>7, <2>1 DEF AllocInv, CallOK, MetadataIntact
<1>15. QED
  BY <1>10, <1>11, <1>12, <1>13, <1>14 DEF AllocInv

LEMMA FreeReturnInv == ASSUME AllocInv, FreeReturn PROVE AllocInv'
<1>1. /\ calls # <<>> /\ Mine.op = "free" /\ Return /\ UNCHANGED <<cur, hdr, live, panic>>
      /\ ~(Mine.top = cur[Mine.pool] /\ CanFree(Mine.top))
  BY DEF FreeReturn, Freeing, Running
<1>2. ASSUME NEW p \in Pools, Pending(p), Waits(Len(calls), p) PROVE FALSE
  <2>1. Mine.pool = p /\ Mine.top = cur[p] /\ cur[p] < PoolTop[p] /\ hdr[cur[p]].free
    BY <1>2 DEF Waits, Mine, Pending
  <2>2. cur[p] \in DOMAIN hdr
    BY <2>1, BlockFacts
  <2>3. QED
    BY <1>1, <2>1, <2>2 DEF CanFree
<1>3. QED
  BY <1>1, <1>2, ReturnStep

LEMMA GiveBackInv == ASSUME AllocInv, GiveBack, ~Excused' PROVE AllocInv'
<1>1. /\ calls # <<>> /\ Mine.op = "free" /\ UNCHANGED live /\ ~MovesUnder
      /\ Mine.top = cur[Mine.pool] /\ CanFree(Mine.top)
      /\ cur' = [cur EXCEPT ![Mine.pool] = NextBlock(Mine.top)]
      /\ hdr' = [x \in DOMAIN hdr \ {Mine.top} |-> hdr[x]]
      /\ FreeLoop(NextBlock(Mine.top))
  BY DEF GiveBack, Freeing, Running, Excused
<1>2. Mine \in Call
  BY <1>1, StackTypes DEF AllocInv
<1>3. PICK p \in Pools : p = Mine.pool
  BY <1>2 DEF Call
<1>4. PICK b \in DOMAIN hdr : b = Mine.top /\ b = cur[p] /\ hdr[b].free
  BY <1>1, <1>3 DEF CanFree
<1>5. BlockIn(b, p)
  <2>1. PICK q \in Pools : BlockIn(b, q)
    BY DEF AllocInv, Tiled
  <2>2. p = q
    BY <1>4, <2>1, Apart, BlockFacts
  <2>3. QED
    BY <2>1, <2>2
<1>6. PICK e \in Nat : /\ e = End(b) /\ e = NextBlock(b) /\ b < e /\ e <= PoolTop[p]
                       /\ e = PoolTop[p] \/ e \in DOMAIN hdr
  <2>1. /\ End(b) \in Nat /\ b < End(b) /\ End(b) <= PoolTop[p]
        /\ End(b) = PoolTop[p] \/ End(b) \in DOMAIN hdr
    BY <1>5, BlockFacts DEF BlockIn
  <2>2. NextBlock(b) = End(b)
    BY <2>1, BlockFacts DEF NextBlock, Plus, End
  <2>3. QED
    BY <2>1, <2>2
<1>7. /\ cur'[p] = e /\ \A q \in Pools : q # p => cur'[q] = cur[q]
      /\ cur' \in [Pools -> Nat]
      /\ DOMAIN hdr' = DOMAIN hdr \ {b}
      /\ \A x \in DOMAIN hdr : x # b => hdr'[x] = hdr[x]
  <2>1. cur \in [Pools -> Nat]
    BY DEF AllocInv, TypeOK
  <2>2. QED
    BY <1>1, <1>3, <1>4, <1>6, <2>1
<1>8. \A q \in Pools : q # p => cur[q] # b
  BY <1>5, Apart, BlockFacts
<1>9. e \in DOMAIN hdr => e # b /\ e \in DOMAIN hdr'
  BY <1>6, <1>7, BlockFacts
<1>10. /\ UNCHANGED panic /\ calls' \in Seq(Call) /\ Len(calls) \in Nat
       /\ \A i \in 1..(Len(calls) - 1) : i \in 1..Len(calls') /\ calls'[i] = calls[i]
       /\ \A i \in 1..Len(calls') : i \in 1..(Len(calls) - 1) \/ calls'[i].op = "free"
       /\ e < PoolTop[p] => \E i \in 1..Len(calls') : /\ calls'[i].op = "free" /\ calls'[i].pool = p
                                                     /\ calls'[i].top = e
  <2>1. FreeLoop(e)
    BY <1>1, <1>4, <1>6
  <2>2. InPool(p, e) <=> e < PoolTop[p]
    BY <1>4, <1>6, BlockFacts DEF InPool
  <2>0. Len(calls) \in Nat /\ Len(calls) >= 1
    BY <1>1, StackTypes DEF AllocInv
  <2>3. CASE e = PoolTop[p]
    <3>1. ~InPool(p, e)
      BY <2>2, <2>3, BlockFacts
    <3>2. Return /\ UNCHANGED panic
      BY <1>3, <2>1, <3>1 DEF FreeLoop
    <3>3. /\ calls' \in Seq(Call) /\ Len(calls') = Len(calls) - 1
          /\ \A i \in 1..(Len(calls) - 1) : calls'[i] = calls[i]
      BY <1>1, <3>2, StackReturn DEF AllocInv
    <3>4. QED
      BY <2>0, <2>3, <3>2, <3>3, BlockFacts
  <2>4. CASE e < PoolTop[p]
    <3>1. e \in DOMAIN hdr
      BY <1>6, <2>4, BlockFacts
    <3>2. Become([Mine EXCEPT !.top = e]) /\ UNCHANGED panic
      BY <1>3, <2>1, <2>2, <2>4, <3>1 DEF FreeLoop
    <3>3. PICK c \in Call : c = [Mine EXCEPT !.top = e]
      BY <1>2, <1>6 DEF Call
    <3>4. c.op = "free" /\ c.pool = p /\ c.top = e
      BY <1>1, <1>2, <1>3, <3>3 DEF Call
    <3>5. /\ calls' \in Seq(Call) /\ Len(calls') = Len(calls)
          /\ calls'[Len(calls)] = c
          /\ \A i \in 1..(Len(calls) - 1) : calls'[i] = calls[i]
      BY <1>1, <3>2, <3>3, StackBecome DEF AllocInv
    <3> HIDE DEF Call
    <3>6. /\ \A i \in 1..(Len(calls) - 1) : i \in 1..Len(calls')
          /\ \A i \in 1..Len(calls') : i \in 1..(Len(calls) - 1) \/ i = Len(calls)
          /\ Len(calls) \in 1..Len(calls')
      BY <2>0, <3>5
    <3>7. QED
      BY <2>0, <3>2, <3>4, <3>5, <3>6
  <2>5. QED
    BY <1>6, <2>3, <2>4, BlockFacts
<1>11. TypeOK'
  <2> HIDE DEF Call
  <2>2. DOMAIN hdr' \subseteq Nat /\ hdr' \in [DOMAIN hdr' -> Block]
    BY <1>1, <1>7 DEF AllocInv, TypeOK
  <2>3. QED
    BY <1>1, <1>7, <1>10, <2>2 DEF AllocInv, TypeOK
<1>12. Tiled'
  <2>1. \A x \in DOMAIN hdr : x # b => End(x)' = End(x)
    BY <1>7 DEF End
  <2>2. \A x, y \in DOMAIN hdr : x < y => End(x) <= y
    BY DEF AllocInv, Tiled
  <2>3. ASSUME NEW x \in DOMAIN hdr, x # b, NEW q \in Pools, BlockIn(x, q) PROVE BlockIn(x, q)'
    <3>1. cur[q] <= x /\ End(x) <= PoolTop[q] /\ (End(x) = PoolTop[q] \/ End(x) \in DOMAIN hdr)
      BY <2>3 DEF BlockIn
    <3>2. cur'[q] <= x
      <4>1. CASE q = p
        <5>1. b < x
          BY <1>4, <2>3, <3>1, <4>1, BlockFacts
        <5>2. End(b) <= x
          BY <2>2, <5>1
        <5>3. QED
          BY <1>6, <1>7, <4>1, <5>2
      <4>2. CASE q # p
        BY <1>7, <3>1, <4>2
      <4>3. QED
        BY <4>1, <4>2
    <3>3. End(x) # b
      <4>1. CASE q = p
        BY <1>4, <3>1, <4>1, BlockFacts
      <4>2. CASE q # p
        BY <1>4, <1>5, <3>1, <4>2, Apart, BlockFacts
      <4>3. QED
        BY <4>1, <4>2
    <3>4. QED
      BY <1>7, <2>1, <2>3, <3>1, <3>2, <3>3 DEF BlockIn
  <2>4. \A x \in DOMAIN hdr' : \E q \in Pools : BlockIn(x, q)'
    <3>1. \A x \in DOMAIN hdr : \E q \in Pools : BlockIn(x, q)
      BY DEF AllocInv, Tiled
    <3>2. QED
      BY <1>7, <2>3, <3>1
  <2>5. \A q \in Pools : /\ PoolBottom[q] <= cur'[q] /\ cur'[q] <= PoolTop[q]
                         /\ cur'[q] = PoolTop[q] \/ cur'[q] \in DOMAIN hdr'
    BY <1>4, <1>6, <1>7, <1>8, <1>9, BlockFacts
  <2>6. QED
    BY <1>7, <2>1, <2>2, <2>4, <2>5 DEF Tiled
<1>13. Owned'
  <2>1. Owned
    BY DEF AllocInv
  <2>2. \A x \in live : x.mem - Header \in DOMAIN hdr' /\ hdr'[x.mem - Header] = hdr[x.mem - Header]
    BY <1>4, <1>7, <2>1 DEF Owned
  <2>3. \A x \in DOMAIN hdr' : x \in DOMAIN hdr /\ hdr'[x] = hdr[x]
    BY <1>7
  <2>4. QED
    BY <1>1, <2>1, <2>2, <2>3 DEF Owned
<1>14. Postponed'
  <2>1. ASSUME NEW q \in Pools, Pending(q)'
        PROVE  (\E i \in 1..Len(calls) : Waits(i, q))'
    <3>1. CASE q = p
      <4>1. e < PoolTop[p]
        BY <1>7, <2>1, <3>1 DEF Pending
      <4>2. QED
        BY <1>7, <1>10, <3>1, <4>1 DEF Waits
    <3>2. CASE q # p
      <4>1. cur'[q] = cur[q] /\ cur[q] < PoolTop[q] /\ hdr'[cur[q]].free
        BY <1>7, <2>1, <3>2 DEF Pending
      <4>2. cur[q] \in DOMAIN hdr /\ hdr[cur[q]].free
        BY <1>7, <1>8, <3>2, <4>1, BlockFacts
      <4>3. Pending(q)
        BY <4>1, <4>2 DEF Pending
      <4>4. PICK i \in 1..Len(calls) : Waits(i, q)
        BY <4>3 DEF AllocInv, Postponed
      <4>5. i # Len(calls)
        BY <1>3, <3>2, <4>4 DEF Waits, Mine
      <4>6. i \in 1..Len(calls') /\ calls'[i] = calls[i]
        BY <1>10, <4>4, <4>5
      <4>7. QED
        BY <4>1, <4>4, <4>6 DEF Waits
    <3>3. QED
      BY <3>1, <3>2
  <2>2. QED
    BY <2>1 DEF Postponed
<1>15. CallOK' /\ MetadataIntact'
  <2>1. ASSUME NEW i \in 1..Len(calls') PROVE SearchOK(calls[i])'
    <3>1. CASE i \in 1..(Len(calls) - 1)
      <4>1. calls'[i] = calls[i]
        BY <1>10, <3>1
      <4>2. PICK c : c = calls[i]
        OBVIOUS
      <4>3. SearchOK(c)'
        BY <1>1, <1>3, <1>7, <3>1, <4>2, Untouched
      <4>4. QED
        BY <4>1, <4>2, <4>3 DEF SearchOK
    <3>2. CASE calls'[i].op = "free"
      BY <3>2 DEF SearchOK
    <3>3. QED
      BY <1>10, <2>1, <3>1, <3>2
  <2>2. QED
    BY <1>10, <2>1 DEF AllocInv, CallOK, MetadataIntact
<1>16. QED
  BY <1>11, <1>12, <1>13, <1>14, <1>15 DEF AllocInv

-----------------------------------------------------------------------------
LEMMA StepInv == ASSUME AllocInv, ~Excused', [Next]_vars PROVE AllocInv'
<1>1. CASE UNCHANGED vars
  <2>1. UNCHANGED <<cur, hdr, live, calls, panic>>
    BY <1>1 DEF vars
  <2>2. TypeOK' /\ Tiled' /\ Owned' /\ MetadataIntact'
    BY <2>1 DEF AllocInv, TypeOK, Tiled, BlockIn, End, Owned, MetadataIntact
  <2>3. Postponed' /\ CallOK'
    BY <2>1 DEF AllocInv, Postponed, Pending, Waits, CallOK, SearchOK
  <2>4. QED
    BY <2>2, <2>3 DEF AllocInv
<1>2. ASSUME NEW s \in Sizes, NEW a \in Aligns,
             \/ M_PoolAlloc(s, a) \/ M_PoolAllocAny(s, a)
             \/ \E avoid \in Avoids : M_PoolAllocAvoid(s, a, avoid) \/ M_PoolAllocAvoidAny(s, a, avoid)
      PROVE  AllocInv'
  BY <1>2, StartInv
<1>3. CASE Retry
  BY <1>3, RetryInv
<1>4. CASE OutOfMemory
  BY <1>4, OutOfMemoryInv
<1>5. CASE ReturnNull
  BY <1>5, ReturnNullInv
<1>6. CASE Allocate
  BY <1>6, AllocateInv
<1>7. CASE DryRun
  BY <1>7, DryRunInv
<1>8. ASSUME NEW a \in live, Free(a) PROVE AllocInv'
  BY <1>8, FreeInv
<1>9. CASE GiveBack
  BY <1>9, GiveBackInv
<1>10. CASE FreeReturn
  BY <1>10, FreeReturnInv
<1>11. QED
  BY <1>1, <1>2, <1>3, <1>4, <1>5, <1>6, <1>7, <1>8, <1>9, <1>10 DEF Next

(* What is excepted once stays so. *)
LEMMA StaysExcused == ASSUME [Next]_vars, Excused PROVE Excused'
<1>1. ASSUME UNCHANGED history PROVE Excused'
  BY <1>1 DEF history, Excused
<1>2. ASSUME NEW s \in Sizes, Begin(s) PROVE Excused'
  BY <1>2 DEF Begin, Excused
<1>3. CASE Allocate \/ GiveBack
  BY <1>3 DEF Allocate, GiveBack, Excused
<1>4. \A s \in Sizes, a \in Aligns :
        \/ M_PoolAlloc(s, a) \/ M_PoolAllocAny(s, a)
        \/ \E avoid \in Avoids : M_PoolAllocAvoid(s, a, avoid) \/ M_PoolAllocAvoidAny(s, a, avoid)
        => Begin(s)
  BY DEF M_PoolAlloc, M_PoolAllocAny, M_PoolAllocAvoid, M_PoolAllocAvoidAny
<1>5. Retry \/ OutOfMemory \/ ReturnNull \/ DryRun \/ FreeReturn => UNCHANGED history
  BY DEF Retry, OutOfMemory, ReturnNull, DryRun, FreeReturn
<1>6. \A a \in live : Free(a) => UNCHANGED history
  BY DEF Free
<1>7. UNCHANGED vars => UNCHANGED history
  BY DEF vars
<1>8. QED
  BY <1>1, <1>2, <1>3, <1>4, <1>5, <1>6, <1>7 DEF Next

LEMMA InvHolds == Spec => [](Excused \/ AllocInv)
<1>1. Init => AllocInv
  BY InitInv
<1>2. (Excused \/ AllocInv) /\ [Next]_vars => (Excused \/ AllocInv)'
  BY StepInv, StaysExcused
<1>3. QED
  BY <1>1, <1>2, PTL DEF Spec

(* What the invariant says of the memory the callers hold.                  *)
LEMMA InvDisjoint == ASSUME AllocInv PROVE Disjoint
<1>1. ASSUME NEW a \in live
      PROVE  \E q \in Pools : /\ BlockIn(a.mem - Header, q) /\ a.mem - Header \in DOMAIN hdr
                              /\ a.mem \in Nat /\ a.size \in Nat /\ 1 <= a.size
                              /\ a.mem + a.size <= End(a.mem - Header)
  <2>1. /\ a.mem - Header \in DOMAIN hdr /\ 1 <= a.size /\ a.size <= hdr[a.mem - Header].size
        /\ a.mem \in Nat /\ a.size \in Nat
    BY Types DEF AllocInv, Owned
  <2>2. a.mem + a.size <= End(a.mem - Header)
    BY <2>1, BlockFacts DEF End
  <2>3. QED
    BY <2>1, <2>2 DEF AllocInv, Tiled
<1>2. ASSUME NEW a \in live
      PROVE  Room(a) /\ \A p \in Pools : InPool(p, a.mem) => cur[p] <= a.mem - Header
  <2>1. PICK q \in Pools : /\ BlockIn(a.mem - Header, q) /\ a.mem - Header \in DOMAIN hdr
                           /\ a.mem \in Nat /\ a.size \in Nat /\ 1 <= a.size
                           /\ a.mem + a.size <= End(a.mem - Header)
    BY <1>1
  <2>2. cur[q] <= a.mem - Header /\ a.mem + a.size <= PoolTop[q]
    BY <2>1, BlockFacts DEF BlockIn
  <2>3. Room(a)
    BY <2>1, <2>2, BlockFacts DEF Room, AllocInv, Owned
  <2>4. ASSUME NEW p \in Pools, InPool(p, a.mem) PROVE cur[p] <= a.mem - Header
    <3>1. p = q \/ End(a.mem - Header) < PoolBottom[p] \/ PoolTop[p] < a.mem - Header
      BY <2>1, Apart
    <3>2. QED
      BY <2>1, <2>2, <2>4, <3>1, BlockFacts DEF InPool
  <2>5. QED
    BY <2>3, <2>4
<1>3. ASSUME NEW a \in live, NEW b \in live, a # b PROVE ~Overlap(a, b)
  <2>1. /\ a.mem \in Nat /\ a.size \in Nat /\ a.mem - Header \in DOMAIN hdr
        /\ a.mem + a.size <= End(a.mem - Header)
        /\ b.mem \in Nat /\ b.size \in Nat /\ b.mem - Header \in DOMAIN hdr
        /\ b.mem + b.size <= End(b.mem - Header)
    BY <1>1
  <2>2. a.mem # b.mem
    BY <1>3 DEF AllocInv, Owned
  <2>3. \A x, y \in DOMAIN hdr : x < y => End(x) <= y
    BY DEF AllocInv, Tiled
  <2>4. \/ a.mem - Header < b.mem - Header /\ End(a.mem - Header) <= b.mem - Header
        \/ b.mem - Header < a.mem - Header /\ End(b.mem - Header) <= a.mem - Header
    BY <2>1, <2>2, <2>3, BlockFacts
  <2>5. QED
    BY <2>1, <2>4, BlockFacts DEF Overlap
<1>4. QED
  BY <1>2, <1>3 DEF Disjoint

LEMMA InvReclaimed == ASSUME AllocInv PROVE AllReclaimed
<1> SUFFICES ASSUME live = {}, calls = <<>> PROVE cur = PoolTop
  BY DEF AllReclaimed
<1>1. \A p \in Pools : ~Pending(p)
  <2>1. Len(calls) = 0
    OBVIOUS
  <2>2. QED
    BY <2>1 DEF AllocInv, Postponed
<1>2. ASSUME NEW p \in Pools PROVE cur[p] = PoolTop[p]
  <2>1. SUFFICES ASSUME cur[p] # PoolTop[p] PROVE FALSE
    OBVIOUS
  <2>2. cur[p] < PoolTop[p] /\ cur[p] \in DOMAIN hdr
    BY <2>1, BlockFacts
  <2>3. ~hdr[cur[p]].free
    BY <1>1, <2>2 DEF Pending
  <2>4. QED
    BY <2>2, <2>3 DEF AllocInv, Owned
<1>3. cur \in [Pools -> Nat] /\ PoolTop \in [Pools -> Nat]
  BY AllocatorAssumption DEF AllocInv, TypeOK
<1>4. QED
  BY <1>2, <1>3

(* The allocations held lie apart in their pools and off the ranges to be   *)
(* avoided, free never finds a pool damaged, and when everything has been   *)
(* freed all the memory is back, for any pools, sizes, alignments, ranges   *)
(* and nesting, until a call moves a cur_bottom under another or a caller   *)
(* asks for no bytes.                                                       *)
THEOREM AllocatorSafe == Spec => []PoolsKept
<1>1. (Excused \/ AllocInv) => PoolsKept
  BY InvDisjoint, InvReclaimed DEF AllocInv, PoolsKept
<1>2. Spec => [](Excused \/ AllocInv)
  BY InvHolds
<1>3. QED
  BY <1>1, <1>2, PTL

HeapStep == Heap!Next \/ UNCHANGED live

(* A step that gives out memory gives out a region of its own; nothing but  *)
(* a free of its holder takes one back.                                     *)
LEMMA StepMaps == ASSUME AllocInv, Disjoint', [Next]_vars PROVE HeapStep
<1>1. CASE Allocate
  <2>1. PICK m : live' = live \cup {[mem |-> m, size |-> Mine.size, avoid |-> Mine.avoid]}
    BY <1>1 DEF Allocate
  <2> DEFINE r == [mem |-> m, size |-> Mine.size, avoid |-> Mine.avoid]
  <2>2. r \in live'
    BY <2>1
  <2>3. Room(r)
    BY <2>2 DEF Disjoint, Room, Hits
  <2>4. \A h \in live : h # r => ~Overlap(h, r)
    BY <2>1, <2>2 DEF Disjoint, Overlap
  <2> HIDE DEF r
  <2>5. CASE r \in live
    BY <2>1, <2>5 DEF HeapStep, r
  <2>6. CASE r \notin live
    <3>1. Heap!Alloc(r)
      BY <2>1, <2>3, <2>4, <2>6 DEF Heap!Alloc, r
    <3>2. QED
      BY <2>2, <3>1 DEF HeapStep, Heap!Next
  <2>7. QED
    BY <2>5, <2>6
<1>2. ASSUME NEW a \in live, Free(a) PROVE HeapStep
  BY <1>2 DEF Free, HeapStep, Heap!Next, Heap!Free
<1>3. CASE UNCHANGED live
  BY <1>3 DEF HeapStep
<1>4. \A s \in Sizes, a \in Aligns :
        \/ M_PoolAlloc(s, a) \/ M_PoolAllocAny(s, a)
        \/ \E avoid \in Avoids : M_PoolAllocAvoid(s, a, avoid) \/ M_PoolAllocAvoidAny(s, a, avoid)
        => UNCHANGED live
  BY DEF Begin, M_PoolAlloc, M_PoolAllocAny, M_PoolAllocAvoid, M_PoolAllocAvoidAny
<1>5. Retry \/ OutOfMemory \/ ReturnNull \/ DryRun \/ GiveBack \/ FreeReturn => UNCHANGED live
  BY DEF Retry, OutOfMemory, ReturnNull, DryRun, GiveBack, FreeReturn
<1>6. UNCHANGED vars => UNCHANGED live
  BY DEF vars
<1>7. QED
  BY <1>1, <1>2, <1>3, <1>4, <1>5, <1>6 DEF Next

(* The pools, their headers and the postponed frees implement a heap whose  *)
(* regions, header and all, belong to one caller each until it frees them,  *)
(* with the same exceptions (allocator.c:138-406).                          *)
THEOREM AllocatorImplementsHeap == Spec => HeapSpec
<1>1. Init => Heap!Init
  BY DEF Init, Heap!Init
<1>2. AllocInv => Disjoint
  BY InvDisjoint
<1>3. ASSUME Excused \/ (AllocInv /\ Disjoint), (Excused \/ (AllocInv /\ Disjoint))', [Next]_vars
      PROVE  [Excused' \/ Heap!Next]_live
  <2>1. CASE Excused'
    BY <2>1
  <2>2. CASE ~Excused'
    <3>1. AllocInv /\ Disjoint'
      BY <1>3, <2>2, StaysExcused
    <3>2. QED
      BY <1>3, <3>1, StepMaps DEF HeapStep
  <2>3. QED
    BY <2>1, <2>2
<1>4. Spec => [](Excused \/ AllocInv)
  BY InvHolds
<1>5. QED
  BY <1>1, <1>2, <1>3, <1>4, PTL DEF Spec, HeapSpec

-----------------------------------------------------------------------------
(* Memory is refused only when there is none.                               *)

Something(c, p) == \E m \in 0..cur[p] : Fits(c, p, m)

(* The search has passed nothing that fits, and after the dry runs a call   *)
(* knows which pool has a place.                                            *)
Passed(c) == \A m \in 0..cur[c.pool] : m + c.size > c.top => ~Fits(c, c.pool, m)
SearchKept(c) ==
    /\ c.op \in {"alloc", "avoid", "dry1", "dry2"} => Passed(c)
    /\ c.op = "avoid" => c.pools = {c.pool} \/ Something(c, c.pool)
    /\ c.op \in {"dry1", "dry2"} => c.pools = Pools
    /\ c.op = "dry1" => c.pool = "MEM1"
    /\ c.op = "dry2" => /\ c.pool = "MEM2"
                        /\ IF c.mem1 = 0 THEN NoneFits(c, "MEM1") ELSE Something(c, "MEM1")
    /\ c.op = "null" => \A p \in c.pools : NoneFits(c, p)

InProgress(c) == \E i \in 1..Len(calls) : calls[i] = c
Refusals ==
    /\ \A c : InProgress(c) => SearchKept(c)
    /\ panic = "out of memory" => calls # <<>> /\ \A p \in Tried(Mine) : NoneFits(Mine, p)

Same(c, d) == d.size = c.size /\ d.align = c.align /\ d.avoid = c.avoid

LEMMA SameFits ==
  ASSUME NEW c, NEW d, Same(c, d)
  PROVE  /\ \A p, m : Fits(d, p, m) = Fits(c, p, m)
         /\ \A p : NoneFits(d, p) = NoneFits(c, p) /\ Something(d, p) = Something(c, p)
BY DEF Same, Fits, NoneFits, Something

(* What a search has found. *)
LEMMA CandidateFits ==
  ASSUME AllocInv, Searching, NEW m \in Candidate(Mine), ~NoRoom(Mine, m), Blocked(Mine, m) = {}
  PROVE  m \in Nat /\ m # 0 /\ Something(Mine, Mine.pool)
<1>1. /\ m \in Nat /\ m % Mine.align = 0 /\ Mine.pool \in Pools
      /\ PoolBottom[Mine.pool] + Header <= m /\ m + Mine.size <= Mine.top
      /\ Mine.top <= cur[Mine.pool] /\ Mine.size \in Nat /\ Mine.top \in Nat
  BY CandidateFacts
<1>2. cur[Mine.pool] \in Nat /\ PoolBottom[Mine.pool] \in Nat /\ Header \in Nat /\ Header >= 1
  BY <1>1, BlockFacts
<1>3. \A r \in Mine.avoid \cup Reserved : ~Hits(m, Mine.size, r)
  BY DEF Blocked
<1>4. m + Mine.size <= cur[Mine.pool] /\ m \in 0..cur[Mine.pool] /\ m # 0
  BY <1>1, <1>2
<1>5. Fits(Mine, Mine.pool, m)
  BY <1>1, <1>3, <1>4 DEF Fits
<1>6. QED
  BY <1>1, <1>4, <1>5 DEF Something

(* A search that has left its pool has passed all of it.                    *)
LEMMA NoRoomLeft ==
  ASSUME AllocInv, Searching, Passed(Mine), NEW m \in Candidate(Mine), NoRoom(Mine, m)
  PROVE  NoneFits(Mine, Mine.pool)
<1> SUFFICES ASSUME NEW x \in 0..cur[Mine.pool], Fits(Mine, Mine.pool, x) PROVE FALSE
  BY DEF NoneFits
<1>1. /\ Mine.pool \in Pools /\ Mine.top \in Nat /\ Mine.size \in Nat /\ Mine.align \in Nat
      /\ Mine.size + Header < WORD /\ Mine.op \in {"alloc", "avoid", "dry1", "dry2"}
  BY CandidateFacts
<1>2. /\ cur[Mine.pool] \in Nat /\ PoolBottom[Mine.pool] \in Nat /\ Header \in Nat /\ Header >= 1
      /\ WORD \in Nat /\ Header <= PoolBottom[Mine.pool]
  BY <1>1, BlockFacts
<1>3. x \in Nat /\ x % Mine.align = 0 /\ PoolBottom[Mine.pool] + Header <= x
  BY <1>2 DEF Fits
<1>4. x + Mine.size <= Mine.top
  <2>1. ~(x + Mine.size > Mine.top)
    BY DEF Passed
  <2>2. QED
    BY <1>1, <1>3, <2>1
<1>5. Plus(Mine.size, Header) = Mine.size + Header
  BY <1>1 DEF Plus
<1>6. m < PoolBottom[Mine.pool] + Header
  BY <1>1, <1>2, <1>3, <1>4, <1>5 DEF NoRoom
<1>7. Minus(Mine.top, Mine.size) = Mine.top - Mine.size
  BY <1>1, <1>3, <1>4 DEF Minus
<1>8. /\ m \in (Mine.top - Mine.size - Mine.align + 1)..(Mine.top - Mine.size)
      /\ \A y \in (m + 1)..(Mine.top - Mine.size) : y % Mine.align # 0
  BY <1>7 DEF Candidate, AlignDown
<1>9. x \notin (m + 1)..(Mine.top - Mine.size)
  BY <1>3, <1>8
<1>10. QED
  BY <1>1, <1>2, <1>3, <1>4, <1>6, <1>8, <1>9

(* The search jumps over a range only past places that overlap it.          *)
LEMMA RetryPasses ==
  ASSUME AllocInv, Searching, Passed(Mine), NEW m \in Candidate(Mine), ~NoRoom(Mine, m),
         NEW r \in Blocked(Mine, m)
  PROVE  Passed([Mine EXCEPT !.top = RetryTop(r)])
<1>1. /\ Mine \in Call /\ Mine.pool \in Pools /\ Mine.top \in Nat /\ Mine.size \in Nat
      /\ Mine.align \in Nat /\ Mine.avoid \in SUBSET MemRange
      /\ m \in Nat /\ m + Mine.size <= Mine.top
      /\ \A y \in (m + 1)..(Mine.top - Mine.size) : y % Mine.align # 0
  BY CandidateFacts
<1>2. r \in MemRange /\ r \in Mine.avoid \cup Reserved /\ Hits(m, Mine.size, r)
  BY <1>1, AllocatorAssumption DEF Blocked
<1>3. r.start \in Nat /\ r.size \in Nat
  BY <1>2 DEF MemRange
<1>4. r.size # 0 /\ r.start + r.size < WORD /\ m - Header < r.start + r.size
  BY <1>2 DEF Hits, RangesOverlap
<1> DEFINE d == [Mine EXCEPT !.top = RetryTop(r)]
<1>5. d.pool = Mine.pool /\ d.size = Mine.size /\ d.top = r.start /\ Same(Mine, d)
  BY <1>1 DEF Call, Same, RetryTop
<1> HIDE DEF d
<1>6. ASSUME NEW x \in 0..cur[Mine.pool], x + Mine.size > r.start, Fits(Mine, Mine.pool, x)
      PROVE  FALSE
  <2>1. cur[Mine.pool] \in Nat /\ Header \in Nat /\ WORD \in Nat
        /\ cur[Mine.pool] <= PoolTop[Mine.pool] /\ PoolTop[Mine.pool] \in Nat
        /\ PoolTop[Mine.pool] < WORD
    BY <1>1, BlockFacts
  <2>2. x \in Nat /\ x % Mine.align = 0 /\ x + Mine.size <= cur[Mine.pool]
    BY <1>6, <2>1 DEF Fits
  <2>3. x + Mine.size <= Mine.top
    <3>1. ~(x + Mine.size > Mine.top)
      BY <1>6 DEF Passed
    <3>2. QED
      BY <1>1, <2>2, <3>1
  <2>4. x <= m
    <3>1. x \notin (m + 1)..(Mine.top - Mine.size)
      BY <1>1, <2>2
    <3>2. QED
      BY <1>1, <2>2, <2>3, <3>1
  <2>5. Plus(x, Mine.size) = x + Mine.size
    BY <1>1, <2>1, <2>2 DEF Plus
  <2>6. x - Header < r.start + r.size
    BY <1>1, <1>3, <1>4, <2>1, <2>2, <2>4
  <2>7. Hits(x, Mine.size, r)
    BY <1>4, <1>6, <2>5, <2>6 DEF Hits, RangesOverlap
  <2>8. QED
    BY <1>2, <1>6, <2>7 DEF Fits
<1>7. Passed(d)
  BY <1>5, <1>6, SameFits DEF Passed
<1>8. QED
  BY <1>7 DEF d

(* A search starts with nothing passed: no block reaches beyond cur_bottom. *)
LEMMA StartPasses ==
  ASSUME AllocInv, NEW c, c.pool \in Pools, c.size \in Nat, c.top = cur[c.pool]
  PROVE  Passed(c)
<1>1. cur[c.pool] \in Nat
  BY BlockFacts
<1>2. QED
  BY <1>1 DEF Passed, Fits

(* What a call knows stays true while the pools it looks in stay.           *)
LEMMA KeptAlong ==
  ASSUME NEW c, SearchKept(c), \A q \in {c.pool} \cup Tried(c) : cur'[q] = cur[q]
  PROVE  SearchKept(c)'
<1>1. /\ \A q, m : Fits(c, q, m)' <=> /\ m % c.align = 0
                                      /\ PoolBottom[q] + Header <= m /\ m + c.size <= cur'[q]
                                      /\ \A r \in c.avoid \cup Reserved : ~Hits(m, c.size, r)
  BY DEF Fits
<1>2. \A q \in {c.pool} \cup Tried(c) : /\ \A m : Fits(c, q, m)' = Fits(c, q, m)
                                        /\ NoneFits(c, q)' = NoneFits(c, q)
                                        /\ Something(c, q)' = Something(c, q)
  BY <1>1 DEF Fits, NoneFits, Something
<1>3. Passed(c)' = Passed(c)
  BY <1>2 DEF Passed
<1>4. c.op = "dry2" => "MEM1" \in Tried(c)
  BY AllocatorAssumption DEF SearchKept, Tried
<1>5. c.op = "null" => Tried(c) = c.pools
  BY DEF Tried
<1>6. QED
  BY <1>2, <1>3, <1>4, <1>5 DEF SearchKept

(* Every call is as it was, or knows enough. *)
LEMMA CallsKept ==
  ASSUME Refusals, panic' # "out of memory",
         \A i \in 1..Len(calls') :
            \/ /\ i \in 1..Len(calls) /\ calls'[i] = calls[i]
               /\ \A q \in {calls[i].pool} \cup Tried(calls[i]) : cur'[q] = cur[q]
            \/ \A c : c = calls'[i] => SearchKept(c)'
  PROVE  Refusals'
<1>1. ASSUME NEW c, InProgress(c)' PROVE SearchKept(c)'
  <2>1. PICK i \in 1..Len(calls') : calls'[i] = c
    BY <1>1 DEF InProgress
  <2>2. CASE /\ i \in 1..Len(calls) /\ calls'[i] = calls[i]
             /\ \A q \in {calls[i].pool} \cup Tried(calls[i]) : cur'[q] = cur[q]
    <3>1. SearchKept(c) /\ \A q \in {c.pool} \cup Tried(c) : cur'[q] = cur[q]
      BY <2>1, <2>2 DEF Refusals, InProgress
    <3>2. QED
      BY <3>1, KeptAlong
  <2>3. QED
    BY <2>1, <2>2
<1>2. QED
  BY <1>1 DEF Refusals

LEMMA KeptBecome ==
  ASSUME AllocInv, Refusals, UNCHANGED <<cur, panic>>, panic = "no", calls # <<>>,
         NEW c \in Call, Become(c), SearchKept(c)
  PROVE  Refusals'
<1> HIDE DEF Call
<1>1. /\ Len(calls') = Len(calls) /\ calls'[Len(calls)] = c
      /\ \A i \in 1..(Len(calls) - 1) : calls'[i] = calls[i]
  BY StackBecome DEF AllocInv
<1>2. Len(calls) \in Nat /\ \A i \in 1..Len(calls) : i = Len(calls) \/ i \in 1..(Len(calls) - 1)
  BY StackTypes DEF AllocInv
<1>3. SearchKept(c)'
  BY KeptAlong
<1>4. \A d : d = c => SearchKept(d)'
  BY <1>3
<1>5. QED
  BY <1>1, <1>2, <1>4, CallsKept

LEMMA KeptAppend ==
  ASSUME AllocInv, Refusals, UNCHANGED cur, panic' # "out of memory",
         NEW c \in Call, calls' = Append(calls, c), SearchKept(c)
  PROVE  Refusals'
<1> HIDE DEF Call
<1>1. /\ Len(calls') = Len(calls) + 1 /\ calls'[Len(calls) + 1] = c
      /\ \A i \in 1..Len(calls) : calls'[i] = calls[i]
  BY StackAppend DEF AllocInv
<1>2. Len(calls) \in Nat
  BY StackTypes DEF AllocInv
<1>3. \A i \in 1..Len(calls') : i = Len(calls) + 1 \/ i \in 1..Len(calls)
  BY <1>1, <1>2, Indices
<1>4. SearchKept(c)'
  BY KeptAlong
<1>5. \A d : d = c => SearchKept(d)'
  BY <1>4
<1>6. QED
  BY <1>1, <1>3, <1>5, CallsKept

LEMMA KeptReturn ==
  ASSUME AllocInv, Refusals, panic' # "out of memory", calls # <<>>, Return,
         \A i \in 1..(Len(calls) - 1) :
            \A q \in {calls[i].pool} \cup Tried(calls[i]) : cur'[q] = cur[q]
  PROVE  Refusals'
<1> HIDE DEF Call
<1>1. /\ Len(calls') = Len(calls) - 1
      /\ \A i \in 1..(Len(calls) - 1) : calls'[i] = calls[i]
  BY StackReturn DEF AllocInv
<1>2. Len(calls) \in Nat
  BY StackTypes DEF AllocInv
<1>3. \A i \in 1..(Len(calls) - 1) : i \in 1..Len(calls)
  BY <1>2, Indices
<1>4. QED
  BY <1>1, <1>3, CallsKept

LEMMA StartKept ==
  ASSUME AllocInv, Refusals, ~Excused', NEW s \in Sizes, NEW a \in Aligns,
         \/ M_PoolAlloc(s, a) \/ M_PoolAllocAny(s, a)
         \/ \E avoid \in Avoids : M_PoolAllocAvoid(s, a, avoid) \/ M_PoolAllocAvoidAny(s, a, avoid)
  PROVE  Refusals'
<1>1. s # 0 /\ panic = "no" /\ UNCHANGED <<cur, hdr, live, panic>> /\ s \in Nat
  BY Starts, AllocatorAssumption
<1>2. PICK op \in {"alloc", "avoid", "dry1"}, p \in Pools, avoid \in SUBSET MemRange :
        /\ op = "dry1" => "MEM2" \in Pools
        /\ \/ op # "dry1" /\ calls' = Append(calls, NewCall(op, p, s, a, avoid))
           \/ /\ op = "alloc" \/ (p = "MEM1" /\ (op = "avoid" => Pools = {"MEM1"}))
              /\ calls' = Append(calls, [NewCall(op, p, s, a, avoid) EXCEPT !.pools = Pools])
  BY Starts
<1>3. CASE op # "dry1" /\ calls' = Append(calls, NewCall(op, p, s, a, avoid))
  <2> DEFINE c == NewCall(op, p, s, a, avoid)
  <2>1. c \in Call
    BY <1>1, <1>3, NewCallOK
  <2>2. c.op = op /\ c.pool = p /\ c.pools = {p} /\ c.size = s /\ c.top = cur[p]
    BY DEF NewCall
  <2>3. calls' = Append(calls, c)
    BY <1>3
  <2> HIDE DEF c
  <2>4. Passed(c)
    BY <1>1, <2>2, StartPasses
  <2>5. SearchKept(c)
    BY <1>3, <2>2, <2>4 DEF SearchKept
  <2>6. QED
    BY <1>1, <2>1, <2>3, <2>5, KeptAppend
<1>4. CASE /\ op = "alloc" \/ (p = "MEM1" /\ (op = "avoid" => Pools = {"MEM1"}))
           /\ calls' = Append(calls, [NewCall(op, p, s, a, avoid) EXCEPT !.pools = Pools])
  <2> DEFINE c == [NewCall(op, p, s, a, avoid) EXCEPT !.pools = Pools]
  <2>1. c \in Call
    BY <1>1, <1>2, NewCallOK
  <2>2. c.op = op /\ c.pool = p /\ c.pools = Pools /\ c.size = s /\ c.top = cur[p]
    BY DEF NewCall
  <2>3. calls' = Append(calls, c)
    BY <1>4
  <2> HIDE DEF c
  <2>4. Passed(c)
    BY <1>1, <2>2, StartPasses
  <2>5. SearchKept(c)
    BY <1>4, <2>2, <2>4 DEF SearchKept
  <2>6. QED
    BY <1>1, <2>1, <2>3, <2>5, KeptAppend
<1>5. QED
  BY <1>2, <1>3, <1>4

(* What the running call knows. *)
LEMMA Knows == ASSUME AllocInv, Refusals, calls # <<>> PROVE Mine \in Call /\ SearchKept(Mine)
<1> HIDE DEF Call
<1>1. Len(calls) \in 1..Len(calls) /\ Mine \in Call /\ Mine = calls[Len(calls)]
  BY StackTypes DEF AllocInv
<1>2. QED
  BY <1>1 DEF Refusals, InProgress

LEMMA RetryKept == ASSUME AllocInv, Refusals, Retry PROVE Refusals'
<1>1. Searching /\ panic = "no" /\ UNCHANGED <<cur, panic>>
  BY DEF Retry, Searching, Running
<1>2. PICK m \in Candidate(Mine) :
        /\ ~NoRoom(Mine, m)
        /\ \E r \in Blocked(Mine, m) : Become([Mine EXCEPT !.top = RetryTop(r)])
  BY DEF Retry
<1>3. PICK r \in Blocked(Mine, m) : Become([Mine EXCEPT !.top = RetryTop(r)])
  BY <1>2
<1> DEFINE c == [Mine EXCEPT !.top = RetryTop(r)]
<1>4. Mine \in Call /\ calls # <<>> /\ Mine.op \in {"alloc", "avoid", "dry1", "dry2"} /\ SearchKept(Mine)
  BY <1>1, CandidateFacts, Knows
<1>5. Passed(c)
  BY <1>1, <1>2, <1>4, RetryPasses DEF SearchKept
<1>6. /\ c.op = Mine.op /\ c.pool = Mine.pool /\ c.pools = Mine.pools /\ c.mem1 = Mine.mem1
      /\ Same(Mine, c)
  BY <1>4 DEF Call, Same
<1>7. c \in Call
  <2>1. RetryTop(r) \in Nat
    BY <1>1, CandidateFacts, AllocatorAssumption DEF Blocked, RetryTop, MemRange
  <2>2. QED
    BY <1>4, <2>1 DEF Call
<1>8. Become(c)
  BY <1>3
<1> HIDE DEF c
<1>9. SearchKept(c)
  BY <1>4, <1>5, <1>6, SameFits DEF SearchKept
<1>10. QED
  BY <1>1, <1>4, <1>7, <1>8, <1>9, KeptBecome

LEMMA OutOfMemoryKept == ASSUME AllocInv, Refusals, OutOfMemory PROVE Refusals'
<1>1. Searching /\ panic = "no" /\ UNCHANGED cur /\ Mine.op \in {"alloc", "avoid"}
  BY DEF OutOfMemory, Searching, Running
<1>2. Mine \in Call /\ calls # <<>> /\ SearchKept(Mine)
  BY <1>1, CandidateFacts, Knows
<1>3. NoneFits(Mine, Mine.pool)
  BY <1>1, <1>2, NoRoomLeft DEF OutOfMemory, SearchKept
<1>4. Mine.op = "avoid" => Mine.pools = {Mine.pool}
  BY <1>1, <1>2, <1>3 DEF SearchKept, NoneFits, Something
<1>5. \A p \in Tried(Mine) : NoneFits(Mine, p)
  BY <1>1, <1>3, <1>4 DEF Tried
<1>6. CASE Mine.op = "alloc" /\ UNCHANGED calls
  <2>1. \A c : InProgress(c)' => SearchKept(c)'
    <3>1. ASSUME NEW c, InProgress(c)' PROVE SearchKept(c)'
      <4>1. SearchKept(c)
        BY <1>6, <3>1 DEF InProgress, Refusals
      <4>2. QED
        BY <1>1, <4>1, KeptAlong
    <3>2. QED
      BY <3>1
  <2>2. (\A p \in Tried(Mine) : NoneFits(Mine, p))'
    BY <1>1, <1>5, <1>6 DEF Tried, NoneFits, Fits, Mine
  <2>3. QED
    BY <1>2, <1>6, <2>1, <2>2 DEF Refusals
<1>7. CASE Become([Mine EXCEPT !.op = "null"]) /\ UNCHANGED panic /\ Mine.op = "avoid"
  <2> DEFINE c == [Mine EXCEPT !.op = "null"]
  <2>1. c \in Call /\ c.op = "null" /\ c.pools = Mine.pools /\ Same(Mine, c)
    BY <1>2 DEF Call, Same
  <2>2. Become(c)
    BY <1>7
  <2> HIDE DEF c
  <2>3. SearchKept(c)
    BY <1>3, <1>4, <1>7, <2>1, SameFits DEF SearchKept
  <2>4. QED
    BY <1>1, <1>2, <1>7, <2>1, <2>2, <2>3, KeptBecome
<1>8. QED
  BY <1>1, <1>6, <1>7 DEF OutOfMemory

LEMMA DryRunKept == ASSUME AllocInv, Refusals, DryRun PROVE Refusals'
<1>1. Searching /\ panic = "no" /\ UNCHANGED <<cur, panic>>
  BY DEF DryRun, Searching, Running
<1>2. /\ Mine \in Call /\ calls # <<>> /\ SearchKept(Mine) /\ Mine.mem1 \in Nat
      /\ Mine.op \in {"alloc", "avoid", "dry1", "dry2"} /\ Mine.pool \in Pools
  BY <1>1, CandidateFacts, Knows
<1>3. PICK m \in Nat : /\ DryResult(m)
                       /\ m = 0 => NoneFits(Mine, Mine.pool)
                       /\ m # 0 => Something(Mine, Mine.pool)
  <2>1. PICK x \in Candidate(Mine) : \/ NoRoom(Mine, x) /\ DryResult(0)
                                     \/ ~NoRoom(Mine, x) /\ Blocked(Mine, x) = {} /\ DryResult(x)
    BY DEF DryRun
  <2>2. CASE NoRoom(Mine, x) /\ DryResult(0)
    BY <1>1, <1>2, <2>2, NoRoomLeft DEF SearchKept
  <2>3. CASE ~NoRoom(Mine, x) /\ Blocked(Mine, x) = {} /\ DryResult(x)
    <3>1. x \in Nat /\ x # 0 /\ Something(Mine, Mine.pool)
      BY <1>1, <2>3, CandidateFits
    <3>2. QED
      BY <2>3, <3>1
  <2>4. QED
    BY <2>1, <2>2, <2>3
<1>5. Mine.op \in {"dry1", "dry2"} => Pools = {"MEM1", "MEM2"}
  BY <1>1, CandidateFacts, AllocatorAssumption DEF SearchOK
<1>6. \A p \in Pools : cur[p] \in Nat
  BY BlockFacts
<1>7. CASE /\ Mine.op = "dry1"
           /\ Become([Mine EXCEPT !.op = "dry2", !.pool = "MEM2", !.top = cur["MEM2"], !.mem1 = m])
  <2> DEFINE c == [Mine EXCEPT !.op = "dry2", !.pool = "MEM2", !.top = cur["MEM2"], !.mem1 = m]
  <2>1. /\ c \in Call /\ c.op = "dry2" /\ c.pool = "MEM2" /\ c.top = cur["MEM2"] /\ c.mem1 = m
        /\ c.pools = Mine.pools
        /\ c.size \in Nat /\ Same(Mine, c)
    BY <1>2, <1>5, <1>6, <1>7 DEF Call, Same
  <2>2. Become(c)
    BY <1>7
  <2> HIDE DEF c
  <2>3. Passed(c)
    BY <1>5, <1>7, <2>1, StartPasses
  <2>4. Mine.pool = "MEM1" /\ Mine.pools = Pools
    BY <1>2, <1>7 DEF SearchKept
  <2>5. SearchKept(c)
    BY <1>3, <2>1, <2>3, <2>4, SameFits DEF SearchKept
  <2>6. QED
    BY <1>1, <1>2, <2>1, <2>2, <2>5, KeptBecome
<1>8. ASSUME Mine.op = "dry2" PROVE /\ Mine.pool = "MEM2" /\ Pools = {"MEM1", "MEM2"}
                                    /\ Mine.pools = Pools
                                    /\ Mine.mem1 = 0 => NoneFits(Mine, "MEM1")
                                    /\ Mine.mem1 # 0 => Something(Mine, "MEM1")
  BY <1>2, <1>5, <1>8 DEF SearchKept
<1>9. CASE Mine.op = "dry2" /\ Mine.mem1 = 0 /\ m = 0 /\ Become([Mine EXCEPT !.op = "null"])
  <2> DEFINE c == [Mine EXCEPT !.op = "null"]
  <2>1. c \in Call /\ c.op = "null" /\ c.pools = Mine.pools /\ Same(Mine, c)
    BY <1>2 DEF Call, Same
  <2>2. Mine.pools \subseteq Pools
    BY <1>2 DEF Call
  <2>3. Become(c)
    BY <1>9
  <2> HIDE DEF c
  <2>4. \A p \in Pools : NoneFits(c, p)
    BY <1>3, <1>8, <1>9, <2>1, SameFits
  <2>5. SearchKept(c)
    BY <2>1, <2>2, <2>4 DEF SearchKept
  <2>6. QED
    BY <1>1, <1>2, <2>1, <2>3, <2>5, KeptBecome
<1>10. ASSUME Mine.op = "dry2", Mine.mem1 # 0 \/ m # 0, NEW p, p = Choice(Mine.mem1, m),
              Become([Mine EXCEPT !.op = "avoid", !.pool = p, !.top = cur[p]])
       PROVE  Refusals'
  <2>1. p \in Pools /\ Something(Mine, p)
    BY <1>3, <1>8, <1>10 DEF Choice
  <2> DEFINE c == [Mine EXCEPT !.op = "avoid", !.pool = p, !.top = cur[p]]
  <2>2. /\ c \in Call /\ c.op = "avoid" /\ c.pool = p /\ c.top = cur[p]
        /\ c.size \in Nat /\ Same(Mine, c)
    BY <1>2, <1>6, <2>1 DEF Call, Same
  <2>3. Become(c)
    BY <1>10
  <2> HIDE DEF c
  <2>4. Passed(c)
    BY <2>1, <2>2, StartPasses
  <2>5. SearchKept(c)
    BY <2>1, <2>2, <2>4, SameFits DEF SearchKept
  <2>6. QED
    BY <1>1, <1>2, <2>2, <2>3, <2>5, KeptBecome
<1>11. QED
  BY <1>3, <1>7, <1>9, <1>10 DEF DryResult

LEMMA FreeKept == ASSUME AllocInv, Refusals, NEW a \in live, Free(a) PROVE Refusals'
<1>1. panic = "no" /\ panic' # "out of memory" /\ UNCHANGED cur
  BY DEF Free, MayCall
<1>2. CASE UNCHANGED calls
  BY <1>1, <1>2, CallsKept
<1>3. ASSUME NEW p \in Pools, NEW b, b = a.mem - Header, b \in DOMAIN hdr,
             calls' = Append(calls, [NewCall("free", p, 0, 0, {}) EXCEPT !.top = b])
      PROVE  Refusals'
  <2> DEFINE c == [NewCall("free", p, 0, 0, {}) EXCEPT !.top = b]
  <2>1. c \in Call /\ c.op = "free"
    BY <1>3, FreeCallOK, BlockFacts DEF NewCall
  <2>2. calls' = Append(calls, c)
    BY <1>3
  <2> HIDE DEF c
  <2>3. SearchKept(c)
    BY <2>1 DEF SearchKept
  <2>4. QED
    BY <1>1, <2>1, <2>2, <2>3, KeptAppend
<1>4. QED
  BY <1>2, <1>3 DEF Free

(* The step moves the cur_bottom of its own pool, under none of the calls   *)
(* it has interrupted.                                                      *)
LEMMA OthersKept ==
  ASSUME AllocInv, calls # <<>>, ~Excused', raced' = (raced \/ MovesUnder),
         NEW x, cur' = [cur EXCEPT ![Mine.pool] = x], Mine \in Call
  PROVE  \A i \in 1..(Len(calls) - 1) :
            \A q \in {calls[i].pool} \cup Tried(calls[i]) : cur'[q] = cur[q]
<1>1. ~MovesUnder
  BY DEF Excused
<1>2. PICK p \in Pools : p = Mine.pool
  BY DEF Call
<1>3. \A q \in Pools : q # p => cur'[q] = cur[q]
  BY <1>2 DEF AllocInv, TypeOK
<1>4. QED
  BY <1>1, <1>2, <1>3, Untouched

LEMMA AllocateKept == ASSUME AllocInv, Refusals, ~Excused', Allocate PROVE Refusals'
<1>1. calls # <<>> /\ panic = "no" /\ UNCHANGED panic /\ Return /\ raced' = (raced \/ MovesUnder)
  BY DEF Allocate, Searching, Running
<1>2. PICK x : cur' = [cur EXCEPT ![Mine.pool] = x]
  BY DEF Allocate
<1>3. Mine \in Call
  BY <1>1, Knows
<1>4. QED
  BY <1>1, <1>2, <1>3, OthersKept, KeptReturn

LEMMA GiveBackKept == ASSUME AllocInv, Refusals, ~Excused', GiveBack PROVE Refusals'
<1>1. /\ calls # <<>> /\ Mine.op = "free" /\ panic = "no" /\ FreeLoop(NextBlock(Mine.top))
      /\ raced' = (raced \/ MovesUnder)
      /\ cur' = [cur EXCEPT ![Mine.pool] = NextBlock(Mine.top)]
  BY DEF GiveBack, Freeing, Running
<1>2. Mine \in Call
  BY <1>1, Knows
<1>3. panic' # "out of memory"
  BY <1>1 DEF FreeLoop
<1>4. PICK x : cur' = [cur EXCEPT ![Mine.pool] = x]
  BY <1>1
<1>5. \A i \in 1..(Len(calls) - 1) :
            \A q \in {calls[i].pool} \cup Tried(calls[i]) : cur'[q] = cur[q]
  BY <1>1, <1>2, <1>4, OthersKept
<1>6. CASE Return
  BY <1>1, <1>3, <1>5, <1>6, KeptReturn
<1>7. ASSUME Len(calls') = Len(calls), \A i \in 1..(Len(calls) - 1) : calls'[i] = calls[i],
             calls'[Len(calls)].op = "free"
      PROVE  Refusals'
  <2>1. Len(calls) \in Nat /\ \A i \in 1..Len(calls) : i = Len(calls) \/ i \in 1..(Len(calls) - 1)
    BY StackTypes DEF AllocInv
  <2>2. \A c : c = calls'[Len(calls)] => SearchKept(c)'
    BY <1>7 DEF SearchKept
  <2>3. \A i \in 1..(Len(calls) - 1) : i \in 1..Len(calls)
    BY <2>1
  <2>4. QED
    BY <1>3, <1>5, <1>7, <2>1, <2>2, <2>3, CallsKept
<1>8. CASE UNCHANGED calls
  BY <1>1, <1>7, <1>8 DEF Mine
<1>9. ASSUME Become([Mine EXCEPT !.top = NextBlock(Mine.top)]) PROVE Refusals'
  <2> DEFINE c == [Mine EXCEPT !.top = NextBlock(Mine.top)]
  <2>1. c.op = "free"
    BY <1>1, <1>2 DEF Call
  <2>2. Become(c)
    BY <1>9
  <2> HIDE DEF c, Call
  <2>3. calls \in Seq(Call) /\ Len(calls) \in 1..Len(calls) /\ Len(calls) \in Nat
    BY <1>1, StackTypes DEF AllocInv
  <2>4. /\ Len(calls') = Len(calls) /\ calls'[Len(calls)] = c
        /\ \A i \in 1..(Len(calls) - 1) : calls'[i] = calls[i]
    BY <2>2, <2>3 DEF Become
  <2>5. QED
    BY <1>7, <2>1, <2>4
<1>10. QED
  BY <1>1, <1>6, <1>8, <1>9 DEF FreeLoop

LEMMA StepRefusals ==
  ASSUME AllocInv, Refusals, ~Excused', [Next]_vars
  PROVE  Refusals'
<1>1. CASE UNCHANGED vars
  <2>1. UNCHANGED <<cur, calls, panic>>
    BY <1>1 DEF vars
  <2>2. ASSUME NEW c, InProgress(c)' PROVE SearchKept(c)'
    <3>1. SearchKept(c)
      BY <2>1, <2>2 DEF InProgress, Refusals
    <3>2. QED
      BY <2>1, <3>1, KeptAlong
  <2>3. (panic = "out of memory" => calls # <<>> /\ \A p \in Tried(Mine) : NoneFits(Mine, p))'
    BY <2>1 DEF Refusals, Tried, NoneFits, Fits, Mine
  <2>4. QED
    BY <2>2, <2>3 DEF Refusals
<1>2. CASE ReturnNull \/ FreeReturn
  <2>1. calls # <<>> /\ panic = "no" /\ Return /\ UNCHANGED <<cur, panic>>
    BY <1>2 DEF ReturnNull, FreeReturn, Freeing, Running
  <2>2. QED
    BY <2>1, KeptReturn
<1>3. QED
  BY <1>1, <1>2, StartKept, RetryKept, OutOfMemoryKept, DryRunKept, AllocateKept, FreeKept,
     GiveBackKept DEF Next

(* Memory is refused, by a panic or by NULL, only if no place in the pools  *)
(* it was looked for in would do: the search that jumps over the ranges,    *)
(* and the choice between the dry runs of both pools, miss none             *)
(* (allocator.c:153-363), however the calls are nested, until one moves a   *)
(* cur_bottom under another or a caller asks for no bytes.                  *)
THEOREM RefusesOnlyWhenFull == Spec => []RefusedOnlyWhenFull
<1>1. Init => Refusals /\ AllocInv
  <2>1. Init => \A c : ~InProgress(c)
    BY DEF Init, InProgress
  <2>2. QED
    BY <2>1, InitInv DEF Init, Refusals
<1>2. (Excused \/ (AllocInv /\ Refusals)) /\ [Next]_vars => (Excused \/ (AllocInv /\ Refusals))'
  BY StepInv, StepRefusals, StaysExcused
<1>3. (Excused \/ (AllocInv /\ Refusals)) => RefusedOnlyWhenFull
  <2> SUFFICES ASSUME AllocInv, Refusals, Refused PROVE \A p \in Tried(Mine) : NoneFits(Mine, p)
    BY DEF RefusedOnlyWhenFull
  <2>1. CASE Running /\ Mine.op = "null"
    BY <2>1, Knows DEF Running, SearchKept, Tried
  <2>2. QED
    BY <2>1 DEF Refused, Refusals
<1>4. QED
  BY <1>1, <1>2, <1>3, PTL DEF Spec
=============================================================================

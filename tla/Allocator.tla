------------------------------ MODULE Allocator ------------------------------
(****************************************************************************)
(* The memory allocator of src/src/allocator.c: two pools that grow down,   *)
(* a header in front of each block, and frees that wait until every more    *)
(* recent block of the pool is free.                                        *)
(*                                                                          *)
(* Addresses count units of 8 bytes, the size of struct block, in cached    *)
(* effective addresses; a range of physical memory is given by the cached   *)
(* address it is mapped to.  The functions are loops, and an iteration is a *)
(* step, so that a timer callback may allocate between two of them: the     *)
(* calls in progress are a stack, the innermost last.  No lock protects the *)
(* pools: the history variable raced records that a call has moved the      *)
(* cur_bottom that one below it works with, empty that a caller has asked   *)
(* for a block of no bytes.                                                 *)
(****************************************************************************)
EXTENDS Integers, Sequences, FiniteSets, SequencesExt

CONSTANTS
    Pools,              \* "MEM1" and, but on a GameCube, "MEM2"
    PoolTop, PoolBottom, \* what M_Init gives each pool
    Reserved,           \* the ranges given to M_Reserve, [start, size]
    Header,             \* sizeof(struct block)
    MIN_ALIGN,
    WORD,               \* one more than the largest address and size
    Sizes, Aligns,      \* the sizes and alignments that are asked for
    Avoids,             \* the sets of ranges given to M_PoolAllocAvoid
    MaxCalls            \* bound: calls in progress at a time

MemRange == [start : Nat, size : Nat]

ASSUME AllocatorAssumption ==
    /\ Pools \in {{"MEM1"}, {"MEM1", "MEM2"}}
    /\ PoolTop \in [Pools -> Nat] /\ PoolBottom \in [Pools -> Nat]
    /\ Header \in Nat /\ Header >= 1
    /\ MIN_ALIGN \in Nat /\ MIN_ALIGN > Header
    /\ WORD \in Nat
    /\ \A p \in Pools : /\ Header <= PoolBottom[p] /\ PoolBottom[p] <= PoolTop[p]
                        /\ PoolTop[p] < WORD
    /\ \A p, q \in Pools : p # q => PoolTop[p] < PoolBottom[q] \/ PoolTop[q] < PoolBottom[p]
    /\ Reserved \subseteq MemRange /\ Avoids \subseteq SUBSET MemRange
    /\ Sizes \subseteq Nat /\ \A s \in Sizes : s + Header < WORD
    /\ Aligns \subseteq Nat
    /\ MaxCalls \in Nat /\ MaxCalls >= 1

VARIABLES
    cur,                \* cur_bottom of each pool
    hdr,                \* the headers of the blocks in use, by their address
    live,               \* the allocations the callers hold, [mem, size, avoid]
    calls,              \* the calls in progress
    panic,              \* the message the console stopped with, or "no"
    raced, empty        \* history, see above

history == <<raced, empty>>
Excused == raced \/ empty
vars == <<cur, hdr, live, calls, panic, history>>

Block == [size : Nat, free : BOOLEAN]

(* A call: M_PoolAlloc ("alloc"), M_PoolAllocAvoid ("avoid", whose dry runs *)
(* for POOL_ANY are "dry1" and "dry2"), the NULL it returns, or free.       *)
Call == [op : {"alloc", "avoid", "dry1", "dry2", "null", "free"},
         pool : Pools, size : Nat, align : Nat, avoid : SUBSET MemRange,
         pools : SUBSET Pools, \* the pools it may take the memory from
         top : Nat,     \* candidateTop, or the block free looks at
         mem1 : Nat]    \* what the first dry run found, 0 for NULL

(* M_Init *)
Init ==
    /\ cur = PoolTop
    /\ hdr = <<>>
    /\ live = {}
    /\ calls = <<>>
    /\ panic = "no"
    /\ raced = FALSE /\ empty = FALSE

Running == panic = "no" /\ calls # <<>>
Mine == calls[Len(calls)]
Become(c) == calls' = [calls EXCEPT ![Len(calls)] = c]
Return == calls' = Front(calls)
MayCall == panic = "no" /\ Len(calls) < MaxCalls

(* The pools in which a call looks for memory: M_PoolAlloc in one only.     *)
Tried(c) == IF c.op = "alloc" THEN {c.pool} ELSE c.pools

(* The running call moves cur_bottom under one that it has interrupted.     *)
MovesUnder ==
    \E i \in 1..(Len(calls) - 1) : Mine.pool \in {calls[i].pool} \cup Tried(calls[i])

-----------------------------------------------------------------------------
(* The arithmetic of addresses: 32 bits wide. *)
Plus(a, b) == IF a + b < WORD THEN a + b ELSE a + b - WORD
Minus(a, b) == IF a >= b THEN a - b ELSE a - b + WORD

EffectiveAlign(a) == IF a < MIN_ALIGN THEN MIN_ALIGN ELSE a

(* ALIGN_DOWN: the last multiple of a up to x. *)
AlignDown(x, a) == {m \in (x - a + 1)..x : m % a = 0 /\ \A y \in (m + 1)..x : y % a # 0}

RangesOverlap(lo, hi, r) ==
    /\ r.size # 0 /\ r.start + r.size < WORD
    /\ lo < r.start + r.size /\ r.start < hi

(* The memory that a block at m would take overlaps r. *)
Hits(m, size, r) == RangesOverlap(m - Header, Plus(m, size), r)

\* Mutant: the ranges of M_Reserve are not looked at.
BlockedAvoid(c, m) == {r \in c.avoid : Hits(m, c.size, r)}

Blocked(c, m) == {r \in c.avoid \cup Reserved : Hits(m, c.size, r)}

(* The candidate m of the call lies below the pool. *)
NoRoom(c, m) ==
    \/ c.op = "alloc" /\ c.top < Plus(c.size, Header)
    \/ c.op # "alloc" /\ c.top < c.size
    \/ m < PoolBottom[c.pool] + Header

Candidate(c) == AlignDown(Minus(c.top, c.size), c.align)

-----------------------------------------------------------------------------
(* M_PoolAlloc and M_PoolAllocAvoid. *)

NewCall(op, p, s, a, avoid) ==
    [op |-> op, pool |-> p, size |-> s, align |-> EffectiveAlign(a), avoid |-> avoid,
     pools |-> {p}, top |-> cur[p], mem1 |-> 0]

FreeBytes(p) == cur[p] - PoolBottom[p]

(* The pool with more free memory, MEM2 when they have the same.            *)
LargerPool ==
    IF "MEM2" \notin Pools \/ FreeBytes("MEM1") > FreeBytes("MEM2") THEN "MEM1" ELSE "MEM2"

(* A function is called for s bytes; nothing moves yet.  Bound: after what  *)
(* the properties except nothing more is asked for.                         *)
Begin(s) ==
    /\ MayCall
    /\ ~Excused
    /\ empty' = (empty \/ s = 0)
    /\ UNCHANGED <<cur, hdr, live, panic, raced>>

M_PoolAlloc(s, a) ==
    /\ Begin(s)
    /\ \E p \in Pools : calls' = Append(calls, NewCall("alloc", p, s, a, {}))

M_PoolAllocAny(s, a) ==
    /\ Begin(s)
    /\ calls' = Append(calls, [NewCall("alloc", LargerPool, s, a, {}) EXCEPT !.pools = Pools])

M_PoolAllocAvoid(s, a, avoid) ==
    /\ Begin(s)
    /\ \E p \in Pools : calls' = Append(calls, NewCall("avoid", p, s, a, avoid))

M_PoolAllocAvoidAny(s, a, avoid) ==
    /\ Begin(s)
    /\ calls' = Append(calls, [NewCall(IF "MEM2" \in Pools THEN "dry1" ELSE "avoid",
                                       "MEM1", s, a, avoid) EXCEPT !.pools = Pools])

Searching == Running /\ Mine.op \in {"alloc", "avoid", "dry1", "dry2"}

\* Mutant: the search leaves a gap below the range.
RetryTopGap(r) == r.start - MIN_ALIGN

RetryTop(r) == r.start

(* The candidate overlaps a range: the search goes on below it.             *)
Retry ==
    /\ Searching
    /\ \E m \in Candidate(Mine) :
          /\ ~NoRoom(Mine, m)
          /\ \E r \in Blocked(Mine, m) : Become([Mine EXCEPT !.top = RetryTop(r)])
    /\ UNCHANGED <<cur, hdr, live, panic, history>>

(* _poolAlloc panics, _poolAllocAvoid returns NULL. *)
OutOfMemory ==
    /\ Searching /\ Mine.op \in {"alloc", "avoid"}
    /\ \E m \in Candidate(Mine) : NoRoom(Mine, m)
    /\ IF Mine.op = "alloc" THEN panic' = "out of memory" /\ UNCHANGED calls
       ELSE Become([Mine EXCEPT !.op = "null"]) /\ UNCHANGED panic
    /\ UNCHANGED <<cur, hdr, live, history>>

ReturnNull ==
    /\ Running /\ Mine.op = "null"
    /\ Return
    /\ UNCHANGED <<cur, hdr, live, panic, history>>

(* The size of a block: all the memory up to the one allocated before it.   *)
BlockSize(c, m) == Minus(cur[c.pool], m)

(* The search ends at m: the header is written and the pool shrinks.        *)
Allocate ==
    /\ Searching /\ Mine.op \in {"alloc", "avoid"}
    /\ \E m \in Candidate(Mine) :
          /\ ~NoRoom(Mine, m) /\ Blocked(Mine, m) = {}
          /\ hdr' = [b \in DOMAIN hdr \cup {m - Header} |->
                        IF b = m - Header THEN [size |-> BlockSize(Mine, m), free |-> FALSE]
                        ELSE hdr[b]]
          /\ cur' = [cur EXCEPT ![Mine.pool] = m - Header]
          /\ live' = live \cup {[mem |-> m, size |-> Mine.size, avoid |-> Mine.avoid]}
    /\ raced' = (raced \/ MovesUnder)
    /\ Return
    /\ UNCHANGED <<panic, empty>>

(* The pool that has more memory left below the candidates of both.         *)
Choice(m1, m2) ==
    IF m2 = 0 \/ (m1 # 0 /\ m1 - PoolBottom["MEM1"] > m2 - PoolBottom["MEM2"])
    THEN "MEM1" ELSE "MEM2"

(* A dry run has found m, or nothing (0).                                   *)
DryResult(m) ==
    \/ /\ Mine.op = "dry1"
       /\ Become([Mine EXCEPT !.op = "dry2", !.pool = "MEM2", !.top = cur["MEM2"], !.mem1 = m])
    \/ /\ Mine.op = "dry2" /\ Mine.mem1 = 0 /\ m = 0
       /\ Become([Mine EXCEPT !.op = "null"])
    \/ /\ Mine.op = "dry2" /\ (Mine.mem1 # 0 \/ m # 0)
       /\ LET p == Choice(Mine.mem1, m)
          IN  Become([Mine EXCEPT !.op = "avoid", !.pool = p, !.top = cur[p]])

DryRun ==
    /\ Searching
    /\ \E m \in Candidate(Mine) :
          \/ NoRoom(Mine, m) /\ DryResult(0)
          \/ ~NoRoom(Mine, m) /\ Blocked(Mine, m) = {} /\ DryResult(m)
    /\ UNCHANGED <<cur, hdr, live, panic, history>>

-----------------------------------------------------------------------------
(* free. *)

InPool(p, x) == PoolBottom[p] <= x /\ x < PoolTop[p]
CanFree(b) == b \in DOMAIN hdr /\ hdr[b].free

(* A caller frees what it holds. *)
Free(a) ==
    /\ MayCall
    /\ a \in live
    /\ live' = live \ {a}
    /\ \/ /\ \A p \in Pools : ~InPool(p, a.mem)
          /\ panic' = "unknown memory" /\ UNCHANGED <<hdr, calls>>
       \/ \E p \in Pools :
             /\ InPool(p, a.mem)
             /\ LET b == a.mem - Header
                IN  IF a.mem < cur[p] \/ CanFree(b)
                    THEN panic' = "double free" /\ UNCHANGED <<hdr, calls>>
                    ELSE IF b \notin DOMAIN hdr
                    THEN panic' = "corrupted block metadata" /\ UNCHANGED <<hdr, calls>>
                    ELSE /\ hdr' = [hdr EXCEPT ![b].free = TRUE]
                         /\ calls' = Append(calls, [NewCall("free", p, 0, 0, {}) EXCEPT !.top = b])
                         /\ UNCHANGED panic
    /\ UNCHANGED <<cur, history>>

Freeing == Running /\ Mine.op = "free"
NextBlock(b) == Plus(b + Header, hdr[b].size)

\* Mutant: only the block that was freed is given back.
FreeOn(b) == calls' = Front(calls) /\ UNCHANGED panic

(* The loop goes on with the block after the one given back.                *)
FreeLoop(b) ==
    IF ~InPool(Mine.pool, b) THEN Return /\ UNCHANGED panic
    ELSE IF b \notin DOMAIN hdr THEN panic' = "corrupted block metadata" /\ UNCHANGED calls
    ELSE Become([Mine EXCEPT !.top = b]) /\ UNCHANGED panic

(* The lowest block of the pool is free: it is given back.                  *)
GiveBack ==
    /\ Freeing
    /\ Mine.top = cur[Mine.pool] /\ CanFree(Mine.top)
    /\ cur' = [cur EXCEPT ![Mine.pool] = NextBlock(Mine.top)]
    /\ hdr' = [b \in DOMAIN hdr \ {Mine.top} |-> hdr[b]]
    /\ FreeLoop(NextBlock(Mine.top))
    /\ raced' = (raced \/ MovesUnder)
    /\ UNCHANGED <<live, empty>>

FreeReturn ==
    /\ Freeing
    /\ ~(Mine.top = cur[Mine.pool] /\ CanFree(Mine.top))
    /\ Return
    /\ UNCHANGED <<cur, hdr, live, panic, history>>

-----------------------------------------------------------------------------
Next ==
    \/ \E s \in Sizes, a \in Aligns :
          \/ M_PoolAlloc(s, a) \/ M_PoolAllocAny(s, a)
          \/ \E avoid \in Avoids : M_PoolAllocAvoid(s, a, avoid) \/ M_PoolAllocAvoidAny(s, a, avoid)
    \/ Retry \/ OutOfMemory \/ ReturnNull \/ Allocate \/ DryRun
    \/ \E a \in live : Free(a)
    \/ GiveBack \/ FreeReturn

Spec == Init /\ [][Next]_vars

-----------------------------------------------------------------------------
(* Each variable has its type. *)
TypeOK ==
    /\ cur \in [Pools -> Nat]
    /\ DOMAIN hdr \subseteq Nat /\ hdr \in [DOMAIN hdr -> Block]
    /\ live \subseteq [mem : Nat, size : Nat, avoid : SUBSET MemRange]
    /\ calls \in Seq(Call)
    /\ panic \in {"no", "out of memory", "unknown memory", "double free",
                  "corrupted block metadata"}

(* A region with its header lies in a pool and off the ranges that are not  *)
(* to be handed out; two regions with their headers overlap.                *)
Room(a) ==
    /\ \E p \in Pools : PoolBottom[p] + Header <= a.mem /\ a.mem + a.size <= PoolTop[p]
    /\ \A r \in a.avoid \cup Reserved : ~Hits(a.mem, a.size, r)
Overlap(a, b) == a.mem - Header < b.mem + b.size /\ b.mem - Header < a.mem + a.size

(* The allocations the callers hold lie in the pools above cur_bottom, with *)
(* their headers in front of them, apart from one another and from the      *)
(* ranges that are never to be handed out.                                  *)
Disjoint ==
    /\ \A a \in live : /\ Room(a)
                       /\ \A p \in Pools : InPool(p, a.mem) => cur[p] <= a.mem - Header
    /\ \A a, b \in live : a # b => ~Overlap(a, b)

(* The checks of free never find the pool damaged (allocator.c:81, "to      *)
(* verify we haven't borked our metadata"), for callers that free only what *)
(* they hold and hold what they have not freed.                             *)
MetadataIntact == panic \in {"no", "out of memory"}

(* When everything has been freed, in whatever order, all the memory is     *)
(* back, although each free but one may have been postponed.                *)
AllReclaimed == live = {} /\ calls = <<>> => cur = PoolTop

(* The pools as their callers may rely on them, as long as no call has      *)
(* moved a pool's cur_bottom under another one and none has asked for       *)
(* nothing (allocator.c:153-178, 393-402: read and written without a lock). *)
PoolsKept == Excused \/ (TypeOK /\ Disjoint /\ MetadataIntact /\ AllReclaimed)

(* A block that fits: aligned, in the pool, in no range to be avoided.      *)
Fits(c, p, m) ==
    /\ m % c.align = 0
    /\ PoolBottom[p] + Header <= m /\ m + c.size <= cur[p]
    /\ \A r \in c.avoid \cup Reserved : ~Hits(m, c.size, r)

Refused == panic = "out of memory" \/ (Running /\ Mine.op = "null")
NoneFits(c, p) == \A m \in 0..cur[p] : ~Fits(c, p, m)

(* Memory is refused only if there is none where it was looked for: the     *)
(* search that jumps over the ranges misses no place that would do, and     *)
(* M_PoolAllocAvoid tries both pools.  M_PoolAlloc tries only one, for      *)
(* POOL_ANY that with more bytes free (allocator.c:304-317), and a panic    *)
(* says nothing about the other.                                            *)
RefusedOnlyWhenFull ==
    Refused /\ ~Excused => \A p \in Tried(Mine) : NoneFits(Mine, p)

(* Memory from any pool is refused only if no pool has it ("to allocate     *)
(* from a specific (or any) pool", allocator.c:277).                        *)
AnyRefusedOnlyWhenFull ==
    Refused /\ ~Excused => \A p \in Mine.pools : NoneFits(Mine, p)

-----------------------------------------------------------------------------
Heap == INSTANCE MemoryHeap WITH held <- live

(* The pools, their headers and the postponed frees implement a heap whose  *)
(* regions belong to one caller each, until that caller frees them; with    *)
(* the same exceptions.                                                     *)
HeapSpec == Heap!Init /\ [][Excused' \/ Heap!Next]_live
=============================================================================

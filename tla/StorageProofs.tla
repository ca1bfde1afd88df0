---------------------------- MODULE StorageProofs ----------------------------
(***************************************************************************)
(* The menu, the block layer, the filesystem layer and the boots: what     *)
(* holds whatever callback interrupts what, and, in the second half, what  *)
(* holds until two that work on devices, filesystems or configurations     *)
(* cross.                                                                  *)
(***************************************************************************)
EXTENDS Storage, SequenceTheorems, WellFoundedInduction, TLAPS

(* Tail drops the first element.                                            *)
LEMMA TailElements ==
  ASSUME NEW S, NEW s \in Seq(S), s # <<>>
  PROVE  /\ Len(s) \in Nat /\ Len(s) >= 1 /\ Tail(s) \in Seq(S) /\ Len(Tail(s)) = Len(s) - 1
         /\ \A j \in 1..(Len(s) - 1) : Tail(s)[j] = s[j + 1]
  BY HeadTailProperties

(* Front drops the last element.                                            *)
LEMMA FrontElements ==
  ASSUME NEW S, NEW s \in Seq(S), s # <<>>
  PROVE  /\ Front(s) \in Seq(S) /\ Len(Front(s)) = Len(s) - 1
         /\ \A j \in 1..(Len(s) - 1) : Front(s)[j] = s[j]
<1>1. PICK n \in Nat : n = Len(s) - 1
  BY EmptySeq, LenProperties
<1>2. Front(s) = SubSeq(s, 1, n) /\ \A j \in 1..n : s[j] \in S
  BY <1>1, ElementOfSeq DEF Front
<1>3. Front(s) \in Seq(S) /\ Len(Front(s)) = IF 1 <= n THEN n - 1 + 1 ELSE 0
  BY <1>2, SubSeqProperties
<1>4. Len(Front(s)) = n
  BY <1>3
<1>5. \A j \in 1..n : j \in 1..(n - 1 + 1) /\ s[1 + j - 1] = s[j]
  OBVIOUS
<1>6. \A j \in 1..n : Front(s)[j] = s[j]
  BY <1>2, <1>5, SubSeqProperties
<1>7. QED
  BY <1>1, <1>3, <1>4, <1>6

(* Induction over a set of numbers, for an operator cannot be a parameter:  *)
(* a set that holds 0 and with each number the next one holds all of them.  *)
LEMMA SetInduction ==
  ASSUME NEW S, 0 \in S, \A n \in Nat : n \in S => n + 1 \in S
  PROVE  \A n \in Nat : n \in S
<1> DEFINE T == {n \in Nat : n \notin S}
           R == {ss \in Nat \X Nat : ss[1] < ss[2]}
<1>1. SUFFICES ASSUME T # {} PROVE FALSE
  OBVIOUS
<1>2. PICK x \in T : \A y \in T : ~(<<y, x>> \in R)
  <2>1. IsWellFoundedOn(R, Nat)
    BY NatLessThanWellFounded DEF OpToRel
  <2>2. T \subseteq Nat
    OBVIOUS
  <2> HIDE DEF T, R
  <2>3. QED
    BY <1>1, <2>1, <2>2, WFMin
<1>3. x \in Nat /\ x # 0 /\ x \notin S
  OBVIOUS
<1>4. x - 1 \in Nat /\ (x - 1) + 1 = x /\ x - 1 < x
  BY <1>3
<1>5. x - 1 \in S
  <2>1. SUFFICES ASSUME x - 1 \notin S PROVE FALSE
    OBVIOUS
  <2>2. x - 1 \in T
    BY <1>4, <2>1
  <2>3. <<x - 1, x>> \in R
    BY <1>3, <1>4
  <2>4. QED
    BY <1>2, <2>2, <2>3
<1>6. QED
  BY <1>3, <1>4, <1>5

(* A step function, given as data, can be followed up to any number.        *)
Follows(f, x0, G, N) == f[0] = x0 /\ \A n \in 1..N : f[n] = G[n][f[n - 1]]

LEMMA FollowsUpTo ==
  ASSUME NEW X, NEW x0 \in X, NEW N \in Nat, NEW G \in [1..N -> [X -> X]]
  PROVE  \E f \in [0..N -> X] : Follows(f, x0, G, N)
<1> USE DEF Follows
<1> DEFINE Possible(m) == m <= N => \E f \in [0..m -> X] : Follows(f, x0, G, m)
           S == {m \in Nat : Possible(m)}
<1>1. Possible(0)
  <2> DEFINE f == [n \in 0..0 |-> x0]
  <2>1. f \in [0..0 -> X] /\ Follows(f, x0, G, 0)
    OBVIOUS
  <2>2. QED
    BY <2>1
<1>2. ASSUME NEW m \in Nat, Possible(m)
      PROVE  Possible(m + 1)
  <2>1. SUFFICES ASSUME m + 1 <= N
                 PROVE  \E f \in [0..(m + 1) -> X] : Follows(f, x0, G, m + 1)
    OBVIOUS
  <2>2. PICK g \in [0..m -> X] : Follows(g, x0, G, m)
    <3>1. m <= N
      BY <2>1
    <3>2. QED
      BY <1>2, <3>1
  <2>3. m + 1 \in 1..N /\ g[m] \in X
    BY <2>1
  <2>4. G[m + 1] \in [X -> X]
    BY <2>3
  <2> DEFINE next == G[m + 1][g[m]]
  <2>5. next \in X
    BY <2>3, <2>4
  <2> HIDE DEF next
  <2> DEFINE f == [n \in 0..(m + 1) |-> IF n = m + 1 THEN next ELSE g[n]]
  <2>6. f \in [0..(m + 1) -> X]
    BY <2>5
  <2>7. f[m + 1] = next /\ \A n \in 0..m : f[n] = g[n]
    OBVIOUS
  <2> HIDE DEF f
  <2>8. f[0] = x0
    BY <2>2, <2>7
  <2>9. ASSUME NEW n \in 1..(m + 1)
        PROVE  f[n] = G[n][f[n - 1]]
    <3>1. CASE n = m + 1
      <4>1. f[n] = next /\ f[n - 1] = g[m]
        BY <2>7, <3>1
      <4>2. QED
        BY <3>1, <4>1 DEF next
    <3>2. CASE n # m + 1
      <4>1. n \in 1..m /\ n - 1 \in 0..m /\ n \in 0..m
        BY <3>2
      <4>2. f[n] = g[n] /\ f[n - 1] = g[n - 1]
        BY <2>7, <4>1
      <4>3. QED
        BY <2>2, <4>1, <4>2
    <3>3. QED
      BY <3>1, <3>2
  <2>10. QED
    BY <2>6, <2>8, <2>9
<1>3. Possible(N)
  <2> HIDE DEF Possible
  <2>1. 0 \in S /\ \A n \in Nat : n \in S => n + 1 \in S
    BY <1>1, <1>2
  <2> HIDE DEF S
  <2>2. N \in S
    BY <2>1, SetInduction
  <2>3. QED
    BY <2>2 DEF S
<1>4. QED
  BY <1>3

(* A set of sequences that holds the empty one and with each sequence those *)
(* that are one element longer holds all of them.                           *)
LEMMA AppendInduction ==
  ASSUME NEW S, NEW T, <<>> \in T,
         \A s \in Seq(S) : \A e \in S : s \in T => Append(s, e) \in T
  PROVE  \A s \in Seq(S) : s \in T
<1> DEFINE N == {n \in Nat : \A s \in Seq(S) : Len(s) = n => s \in T}
<1>1. 0 \in N
  <2>1. ASSUME NEW s \in Seq(S), Len(s) = 0
        PROVE  s \in T
    <3>1. s = <<>>
      BY <2>1, EmptySeq
    <3>2. QED
      BY <3>1
  <2>2. QED
    BY <2>1
<1>2. ASSUME NEW n \in Nat, n \in N
      PROVE  n + 1 \in N
  <2>1. ASSUME NEW s \in Seq(S), Len(s) = n + 1
        PROVE  s \in T
    <3>1. s # <<>>
      BY <2>1, EmptySeq
    <3>2. PICK t \in Seq(S), e \in S : s = Append(t, e)
      BY <3>1, SequenceEmptyOrAppend
    <3>3. Len(t) \in Nat /\ Len(s) = Len(t) + 1
      BY <3>2, AppendProperties, LenProperties
    <3>4. Len(t) = n
      BY <2>1, <3>3
    <3>5. t \in T
      BY <1>2, <3>4
    <3>6. QED
      BY <3>2, <3>5
  <2>2. QED
    BY <2>1
<1>3. \A n \in Nat : n \in N
  <2> HIDE DEF N
  <2>1. QED
    BY <1>1, <1>2, SetInduction
<1>4. QED
  BY <1>3, LenProperties

(***************************************************************************)
(* The lists of MenuLists, one element at a time.                          *)
(***************************************************************************)
KeepsUpTo(f, list, p) ==
  /\ f[0] = <<>>
  /\ \A n \in 1..Len(list) :
       f[n] = IF list[n].owner = p THEN f[n - 1] ELSE Append(f[n - 1], list[n])
  /\ WithoutOwner(list, p) = f[Len(list)]

JoinsUpTo(f, list) ==
  /\ f[0] = <<>>
  /\ \A n \in 1..Len(list) : f[n] = list[n].entries \o f[n - 1]
  /\ Blocks(list) = f[Len(list)]

\* The function that WithoutOwner defines follows its equations.
LEMMA WithoutSteps ==
  ASSUME NEW S, NEW list \in Seq(S), NEW p
  PROVE  \E f \in [0..Len(list) -> Seq(S)] : KeepsUpTo(f, list, p)
<1> USE DEF KeepsUpTo
<1> DEFINE N == Len(list)
           G == [n \in 1..N |-> [x \in Seq(S) |->
                   IF list[n].owner = p THEN x ELSE Append(x, list[n])]]
           Rec(f) == [n \in 0..N |-> IF n = 0 THEN <<>>
                                     ELSE IF list[n].owner = p THEN f[n - 1]
                                     ELSE Append(f[n - 1], list[n])]
           c == CHOOSE f : f = Rec(f)
<1>1. N \in Nat /\ <<>> \in Seq(S) /\ \A n \in 1..N : list[n] \in S
  BY LenProperties, EmptySeq, ElementOfSeq
<1>2. G \in [1..N -> [Seq(S) -> Seq(S)]]
  BY <1>1, AppendProperties
<1>3. PICK f \in [0..N -> Seq(S)] : f[0] = <<>> /\ \A n \in 1..N : f[n] = G[n][f[n - 1]]
  <2> HIDE DEF G, N
  <2> DEFINE X == Seq(S)
             none == <<>>
  <2>1. none \in X /\ N \in Nat /\ G \in [1..N -> [X -> X]]
    BY <1>1, <1>2
  <2> HIDE DEF X, none, G, N
  <2>2. \E f \in [0..N -> X] : Follows(f, none, G, N)
    BY <2>1, FollowsUpTo, Zenon
  <2>3. QED
    BY <2>2 DEF Follows, X, none
<1>4. \A n \in 1..N : n \in 0..N /\ n - 1 \in 0..N /\ n # 0
  BY <1>1
<1>5. \A n \in 1..N : f[n] = IF list[n].owner = p THEN f[n - 1] ELSE Append(f[n - 1], list[n])
  BY <1>3, <1>4
<1>6. f = Rec(f)
  <2>1. \A n \in 0..N : n = 0 \/ n \in 1..N
    BY <1>1
  <2> HIDE DEF N
  <2>2. QED
    BY <1>3, <1>5, <2>1
<1>7. c = Rec(c)
  <2> HIDE DEF Rec
  <2>1. QED
    BY <1>6
<1>8. c[0] = <<>> /\ \A n \in 1..N : c[n] = IF list[n].owner = p THEN c[n - 1] ELSE Append(c[n - 1], list[n])
  <2> HIDE DEF c, N
  <2>1. \A n \in 0..N : c[n] = IF n = 0 THEN <<>>
                              ELSE IF list[n].owner = p THEN c[n - 1]
                              ELSE Append(c[n - 1], list[n])
    BY <1>7, Zenon
  <2>2. 0 \in 0..N
    BY <1>1
  <2>3. QED
    BY <1>4, <2>1, <2>2
<1>9. \A n \in 0..N : c[n] = f[n]
  <2> DEFINE T == {n \in Nat : n <= N => c[n] = f[n]}
  <2> HIDE DEF c
  <2>1. 0 \in T
    BY <1>3, <1>8
  <2>2. ASSUME NEW n \in Nat, n \in T
        PROVE  n + 1 \in T
    <3>1. SUFFICES ASSUME n + 1 <= N PROVE c[n + 1] = f[n + 1]
      OBVIOUS
    <3>2. n + 1 \in 1..N /\ (n + 1) - 1 = n /\ n <= N
      BY <1>1, <3>1
    <3>3. c[n] = f[n]
      BY <2>2, <3>2
    <3> HIDE DEF N, T
    <3>4. QED
      BY <1>5, <1>8, <3>2, <3>3
  <2>3. \A n \in Nat : n \in T
    <3> HIDE DEF T
    <3>1. QED
      BY <2>1, <2>2, SetInduction
  <2>4. QED
    BY <2>3
<1>10. c = Rec(c) /\ WithoutOwner(list, p) = c[N]
  BY <1>7 DEF WithoutOwner
<1>11. WithoutOwner(list, p) = f[N]
  <2> HIDE DEF c, N
  <2>1. QED
    BY <1>1, <1>9, <1>10
<1>12. QED
  BY <1>3, <1>5, <1>11

LEMMA WithoutAppend ==
  ASSUME NEW S, NEW s \in Seq(S), NEW e \in S, NEW p
  PROVE  /\ WithoutOwner(s, p) \in Seq(S)
         /\ WithoutOwner(Append(s, e), p) =
              IF e.owner = p THEN WithoutOwner(s, p) ELSE Append(WithoutOwner(s, p), e)
<1> DEFINE t == Append(s, e)
<1>1. /\ t \in Seq(S) /\ Len(t) = Len(s) + 1 /\ Len(s) \in Nat
      /\ t[Len(s) + 1] = e /\ \A i \in 1..Len(s) : t[i] = s[i]
  BY AppendProperties, LenProperties
<1> HIDE DEF t
<1>2. PICK f \in [0..Len(s) -> Seq(S)] : KeepsUpTo(f, s, p)
  BY WithoutSteps, Zenon
<1>3. PICK g \in [0..Len(t) -> Seq(S)] : KeepsUpTo(g, t, p)
  BY <1>1, WithoutSteps, Zenon
<1> USE DEF KeepsUpTo
<1>4. f[Len(s)] = g[Len(s)]
  <2> DEFINE T == {n \in Nat : n <= Len(s) => f[n] = g[n]}
  <2>1. 0 \in T
    BY <1>2, <1>3
  <2>2. ASSUME NEW n \in Nat, n \in T
        PROVE  n + 1 \in T
    <3>1. SUFFICES ASSUME n + 1 <= Len(s) PROVE f[n + 1] = g[n + 1]
      OBVIOUS
    <3>2. n + 1 \in 1..Len(s) /\ n + 1 \in 1..Len(t) /\ (n + 1) - 1 = n /\ n <= Len(s)
      <4> DEFINE a == Len(s)
                 b == Len(t)
      <4>1. a \in Nat /\ b = a + 1 /\ n + 1 <= a
        BY <1>1, <3>1
      <4> HIDE DEF a, b
      <4>2. n + 1 \in 1..a /\ n + 1 \in 1..b /\ (n + 1) - 1 = n /\ n <= a
        BY <4>1
      <4>3. QED
        BY <4>2 DEF a, b
    <3>3. f[n] = g[n]
      BY <2>2, <3>2
    <3> HIDE DEF T
    <3>4. QED
      BY <1>1, <1>2, <1>3, <3>2, <3>3
  <2>3. \A n \in Nat : n \in T
    <3> HIDE DEF T
    <3>1. QED
      BY <2>1, <2>2, SetInduction
  <2>4. Len(s) \in T
    BY <1>1, <2>3
  <2>5. QED
    BY <1>1, <2>4
<1>5. Len(t) \in 1..Len(t) /\ Len(t) - 1 = Len(s) /\ t[Len(t)] = e
  BY <1>1
<1>6. g[Len(t)] = IF e.owner = p THEN g[Len(s)] ELSE Append(g[Len(s)], e)
  BY <1>3, <1>5
<1>7. f[Len(s)] \in Seq(S)
  <2>1. Len(s) \in 0..Len(s)
    BY <1>1
  <2>2. QED
    BY <2>1
<1>8. QED
  BY <1>2, <1>3, <1>4, <1>6, <1>7 DEF t

LEMMA WithoutEmpty ==
  ASSUME NEW p
  PROVE  WithoutOwner(<<>>, p) = <<>>
<1>1. <<>> \in Seq({}) /\ Len(<<>>) = 0
  BY EmptySeq
<1> DEFINE none == <<>>
<1>2. none \in Seq({}) /\ Len(none) = 0
  BY <1>1
<1> HIDE DEF none
<1>3. PICK f \in [0..Len(none) -> Seq({})] : KeepsUpTo(f, none, p)
  BY <1>2, WithoutSteps, Zenon
<1>4. QED
  BY <1>2, <1>3 DEF none, KeepsUpTo

\* So does that of Blocks.
LEMMA BlocksSteps ==
  ASSUME NEW S, NEW list \in Seq([owner : Parts, entries : Seq(S)])
  PROVE  \E f \in [0..Len(list) -> Seq(S)] : JoinsUpTo(f, list)
<1> USE DEF JoinsUpTo
<1> DEFINE N == Len(list)
           G == [n \in 1..N |-> [x \in Seq(S) |-> list[n].entries \o x]]
           Rec(f) == [n \in 0..N |-> IF n = 0 THEN <<>>
                                     ELSE list[n].entries \o f[n - 1]]
           c == CHOOSE f : f = Rec(f)
<1>0. \A n \in 1..N : list[n] \in [owner : Parts, entries : Seq(S)]
  BY ElementOfSeq
<1>1. N \in Nat /\ <<>> \in Seq(S) /\ \A n \in 1..N : list[n].entries \in Seq(S)
  BY <1>0, LenProperties, EmptySeq
<1>2. G \in [1..N -> [Seq(S) -> Seq(S)]]
  BY <1>1, ConcatProperties
<1>3. PICK f \in [0..N -> Seq(S)] : f[0] = <<>> /\ \A n \in 1..N : f[n] = G[n][f[n - 1]]
  <2> HIDE DEF G, N
  <2> DEFINE X == Seq(S)
             none == <<>>
  <2>1. none \in X /\ N \in Nat /\ G \in [1..N -> [X -> X]]
    BY <1>1, <1>2
  <2> HIDE DEF X, none, G, N
  <2>2. \E f \in [0..N -> X] : Follows(f, none, G, N)
    BY <2>1, FollowsUpTo, Zenon
  <2>3. QED
    BY <2>2 DEF Follows, X, none
<1>4. \A n \in 1..N : n \in 0..N /\ n - 1 \in 0..N /\ n # 0
  BY <1>1
<1>5. \A n \in 1..N : f[n] = list[n].entries \o f[n - 1]
  BY <1>3, <1>4
<1>6. f = Rec(f)
  <2>1. \A n \in 0..N : n = 0 \/ n \in 1..N
    BY <1>1
  <2> HIDE DEF N
  <2>2. QED
    BY <1>3, <1>5, <2>1
<1>7. c = Rec(c)
  <2> HIDE DEF Rec
  <2>1. QED
    BY <1>6
<1>8. c[0] = <<>> /\ \A n \in 1..N : c[n] = list[n].entries \o c[n - 1]
  <2> HIDE DEF c, N
  <2>1. \A n \in 0..N : c[n] = IF n = 0 THEN <<>>
                              ELSE list[n].entries \o c[n - 1]
    BY <1>7, Zenon
  <2>2. 0 \in 0..N
    BY <1>1
  <2>3. QED
    BY <1>4, <2>1, <2>2
<1>9. \A n \in 0..N : c[n] = f[n]
  <2> DEFINE T == {n \in Nat : n <= N => c[n] = f[n]}
  <2> HIDE DEF c
  <2>1. 0 \in T
    BY <1>3, <1>8
  <2>2. ASSUME NEW n \in Nat, n \in T
        PROVE  n + 1 \in T
    <3>1. SUFFICES ASSUME n + 1 <= N PROVE c[n + 1] = f[n + 1]
      OBVIOUS
    <3>2. n + 1 \in 1..N /\ (n + 1) - 1 = n /\ n <= N
      BY <1>1, <3>1
    <3>3. c[n] = f[n]
      BY <2>2, <3>2
    <3> HIDE DEF N, T
    <3>4. QED
      BY <1>5, <1>8, <3>2, <3>3
  <2>3. \A n \in Nat : n \in T
    <3> HIDE DEF T
    <3>1. QED
      BY <2>1, <2>2, SetInduction
  <2>4. QED
    BY <2>3
<1>10. c = Rec(c) /\ Blocks(list) = c[N]
  BY <1>7 DEF Blocks
<1>11. Blocks(list) = f[N]
  <2> HIDE DEF c, N
  <2>1. QED
    BY <1>1, <1>9, <1>10
<1>12. QED
  BY <1>3, <1>5, <1>11

LEMMA BlocksAppend ==
  ASSUME NEW S, NEW s \in Seq([owner : Parts, entries : Seq(S)]),
         NEW e \in [owner : Parts, entries : Seq(S)]
  PROVE  /\ Blocks(s) \in Seq(S)
         /\ Blocks(Append(s, e)) = e.entries \o Blocks(s)
<1> DEFINE t == Append(s, e)
<1>1. /\ t \in Seq([owner : Parts, entries : Seq(S)]) /\ Len(t) = Len(s) + 1 /\ Len(s) \in Nat
      /\ t[Len(s) + 1] = e /\ \A i \in 1..Len(s) : t[i] = s[i]
  BY AppendProperties, LenProperties
<1> HIDE DEF t
<1>2. PICK f \in [0..Len(s) -> Seq(S)] : JoinsUpTo(f, s)
  BY BlocksSteps, Zenon
<1>3. PICK g \in [0..Len(t) -> Seq(S)] : JoinsUpTo(g, t)
  BY <1>1, BlocksSteps, Zenon
<1> USE DEF JoinsUpTo
<1>4. f[Len(s)] = g[Len(s)]
  <2> DEFINE T == {n \in Nat : n <= Len(s) => f[n] = g[n]}
  <2>1. 0 \in T
    BY <1>2, <1>3
  <2>2. ASSUME NEW n \in Nat, n \in T
        PROVE  n + 1 \in T
    <3>1. SUFFICES ASSUME n + 1 <= Len(s) PROVE f[n + 1] = g[n + 1]
      OBVIOUS
    <3>2. n + 1 \in 1..Len(s) /\ n + 1 \in 1..Len(t) /\ (n + 1) - 1 = n /\ n <= Len(s)
      BY <1>1, <3>1
    <3>3. f[n] = g[n]
      BY <2>2, <3>2
    <3> HIDE DEF T
    <3>4. QED
      BY <1>1, <1>2, <1>3, <3>2, <3>3
  <2>3. \A n \in Nat : n \in T
    <3> HIDE DEF T
    <3>1. QED
      BY <2>1, <2>2, SetInduction
  <2>4. Len(s) \in T
    BY <1>1, <2>3
  <2>5. QED
    BY <1>1, <2>4
<1>5. Len(t) \in 1..Len(t) /\ Len(t) - 1 = Len(s) /\ t[Len(t)] = e
  BY <1>1
<1>6. g[Len(t)] = e.entries \o g[Len(s)]
  BY <1>3, <1>5
<1>7. f[Len(s)] \in Seq(S)
  <2>1. Len(s) \in 0..Len(s)
    BY <1>1
  <2>2. QED
    BY <2>1
<1>8. QED
  BY <1>2, <1>3, <1>4, <1>6, <1>7 DEF t

LEMMA BlocksEmpty ==
  Blocks(<<>>) = <<>>
<1>1. <<>> \in Seq([owner : Parts, entries : Seq({})]) /\ Len(<<>>) = 0
  BY EmptySeq
<1> DEFINE none == <<>>
<1>2. none \in Seq([owner : Parts, entries : Seq({})]) /\ Len(none) = 0
  BY <1>1
<1> HIDE DEF none
<1>3. PICK f \in [0..Len(none) -> Seq({})] : JoinsUpTo(f, none)
  BY <1>2, BlocksSteps, Zenon
<1>4. QED
  BY <1>2, <1>3 DEF none, JoinsUpTo

\* What is left has no element of p, and none that was not in the list.
LEMMA WithoutKeeps ==
  ASSUME NEW S, NEW p
  PROVE  \A s \in Seq(S) :
           /\ WithoutOwner(s, p) \in Seq(S)
           /\ \A i \in 1..Len(WithoutOwner(s, p)) :
                /\ WithoutOwner(s, p)[i].owner # p
                /\ \E j \in 1..Len(s) : WithoutOwner(s, p)[i] = s[j]
<1> DEFINE Kept(s) == \A i \in 1..Len(WithoutOwner(s, p)) :
                        /\ WithoutOwner(s, p)[i].owner # p
                        /\ \E j \in 1..Len(s) : WithoutOwner(s, p)[i] = s[j]
           T == {s \in Seq(S) : Kept(s)}
<1>1. <<>> \in T
  BY WithoutEmpty, EmptySeq
<1>2. ASSUME NEW s \in Seq(S), NEW e \in S, s \in T
      PROVE  Append(s, e) \in T
  <2> DEFINE t == Append(s, e)
             w == WithoutOwner(s, p)
  <2>1. /\ t \in Seq(S) /\ Len(t) = Len(s) + 1 /\ Len(s) \in Nat
        /\ t[Len(s) + 1] = e /\ \A i \in 1..Len(s) : t[i] = s[i]
    BY AppendProperties, LenProperties
  <2>2. w \in Seq(S) /\ WithoutOwner(t, p) = IF e.owner = p THEN w ELSE Append(w, e)
    BY WithoutAppend
  <2>3. \A i \in 1..Len(w) : w[i].owner # p /\ \E j \in 1..Len(s) : w[i] = s[j]
    BY <1>2
  <2> HIDE DEF t, w
  <2>4. \A i \in 1..Len(w) : w[i].owner # p /\ \E j \in 1..Len(t) : w[i] = t[j]
    BY <2>1, <2>3
  <2>5. CASE e.owner = p
    BY <2>1, <2>2, <2>4, <2>5 DEF t
  <2>6. CASE e.owner # p
    <3> DEFINE v == Append(w, e)
    <3>1. /\ Len(v) = Len(w) + 1 /\ Len(w) \in Nat
          /\ v[Len(w) + 1] = e /\ \A i \in 1..Len(w) : v[i] = w[i]
      BY <2>2, AppendProperties, LenProperties
    <3>2. WithoutOwner(t, p) = v
      BY <2>2, <2>6
    <3> HIDE DEF v
    <3>3. ASSUME NEW i \in 1..Len(v)
          PROVE  v[i].owner # p /\ \E j \in 1..Len(t) : v[i] = t[j]
      <4>1. CASE i \in 1..Len(w)
        BY <2>4, <3>1, <4>1
      <4>2. CASE i = Len(w) + 1
        <5>1. Len(s) + 1 \in 1..Len(t) /\ v[i] = t[Len(s) + 1] /\ v[i] = e
          BY <2>1, <3>1, <4>2
        <5>2. QED
          BY <2>6, <5>1
      <4>3. QED
        BY <3>1, <4>1, <4>2
    <3>4. QED
      BY <2>1, <3>2, <3>3 DEF t
  <2>7. QED
    BY <2>5, <2>6
<1>3. \A s \in Seq(S) : s \in T
  <2> HIDE DEF T
  <2>1. QED
    BY <1>1, <1>2, AppendInduction
<1>4. ASSUME NEW s \in Seq(S)
      PROVE  WithoutOwner(s, p) \in Seq(S)
  <2>1. CASE S = {}
    <3>1. s = <<>>
      BY <2>1, EmptySeq, ElementOfSeq
    <3>2. QED
      BY <3>1, WithoutEmpty
  <2>2. CASE S # {}
    BY <2>2, WithoutAppend
  <2>3. QED
    BY <2>1, <2>2
<1>5. QED
  BY <1>3, <1>4

\* Leaving out p distributes over concatenation.
LEMMA WithoutConcat ==
  ASSUME NEW S, NEW p, NEW s \in Seq(S)
  PROVE  \A t \in Seq(S) : WithoutOwner(s \o t, p) = WithoutOwner(s, p) \o WithoutOwner(t, p)
<1> DEFINE T == {t \in Seq(S) : WithoutOwner(s \o t, p) = WithoutOwner(s, p) \o WithoutOwner(t, p)}
<1>0. WithoutOwner(s, p) \in Seq(S)
  BY WithoutKeeps
<1>1. <<>> \in T
  <2>1. s \o <<>> = s /\ WithoutOwner(s, p) \o <<>> = WithoutOwner(s, p)
    BY <1>0, ConcatEmptySeq
  <2>2. QED
    BY <2>1, WithoutEmpty, EmptySeq
<1>2. ASSUME NEW t \in Seq(S), NEW e \in S, t \in T
      PROVE  Append(t, e) \in T
  <2> DEFINE w == WithoutOwner(t, p)
             v == WithoutOwner(s, p)
             u == s \o t
  <2>1. v \in Seq(S) /\ w \in Seq(S) /\ u \in Seq(S) /\ <<e>> \in Seq(S)
    BY WithoutKeeps, ConcatProperties
  <2>2. WithoutOwner(u, p) = v \o w
    BY <1>2
  <2>3. s \o Append(t, e) = Append(u, e)
    <3>1. Append(t, e) = t \o <<e>> /\ Append(u, e) = u \o <<e>>
      BY <2>1, AppendIsConcat
    <3>2. QED
      BY <2>1, <3>1, ConcatAssociative
  <2>5. WithoutOwner(Append(t, e), p) = IF e.owner = p THEN w ELSE Append(w, e)
    BY WithoutAppend
  <2> HIDE DEF v, w, u
  <2>4. WithoutOwner(Append(u, e), p) = IF e.owner = p THEN v \o w ELSE Append(v \o w, e)
    <3>1. WithoutOwner(Append(u, e), p)
            = IF e.owner = p THEN WithoutOwner(u, p) ELSE Append(WithoutOwner(u, p), e)
      BY <2>1, WithoutAppend
    <3>2. QED
      BY <2>2, <3>1
  <2>6. Append(v \o w, e) = v \o Append(w, e)
    <3>1. v \o w \in Seq(S)
      BY <2>1, ConcatProperties
    <3>2. Append(w, e) = w \o <<e>> /\ Append(v \o w, e) = (v \o w) \o <<e>>
      BY <2>1, <3>1, AppendIsConcat
    <3> DEFINE c == <<e>>
    <3>3. c \in Seq(S)
      BY <2>1
    <3> HIDE DEF c
    <3>4. (v \o w) \o c = v \o (w \o c)
      <4>1. v \in Seq(S) /\ w \in Seq(S)
        BY <2>1
      <4>2. QED
        BY <3>3, <4>1, ConcatAssociative, SMTT(20)
    <3>5. QED
      BY <3>2, <3>4 DEF c
  <2>7. WithoutOwner(s \o Append(t, e), p) = v \o WithoutOwner(Append(t, e), p)
    BY <2>3, <2>4, <2>5, <2>6
  <2>8. Append(t, e) \in Seq(S)
    BY AppendProperties
  <2>9. QED
    BY <2>7, <2>8 DEF v
<1>3. \A t \in Seq(S) : t \in T
  <2> HIDE DEF T
  <2>1. QED
    BY <1>1, <1>2, AppendInduction
<1>4. QED
  BY <1>3

\* Of a block either all goes or all stays.
LEMMA WithoutOwned ==
  ASSUME NEW S, NEW p, NEW x \in Seq(S), \A j \in 1..Len(x) : x[j].owner = p
  PROVE  WithoutOwner(x, p) = <<>>
<1> DEFINE w == WithoutOwner(x, p)
<1>1. w \in Seq(S) /\ \A i \in 1..Len(w) : w[i].owner # p /\ \E j \in 1..Len(x) : w[i] = x[j]
  BY WithoutKeeps
<1> HIDE DEF w
<1>2. \A i \in 1..Len(w) : FALSE
  BY <1>1
<1>3. Len(w) = 0
  <2>1. Len(w) \in Nat /\ (Len(w) # 0 => 1 \in 1..Len(w))
    BY <1>1, LenProperties
  <2>2. QED
    BY <1>2, <2>1
<1>4. QED
  BY <1>1, <1>3, EmptySeq DEF w

LEMMA WithoutOther ==
  ASSUME NEW S, NEW p
  PROVE  \A s \in Seq(S) : (\A i \in 1..Len(s) : s[i].owner # p) => WithoutOwner(s, p) = s
<1> DEFINE T == {s \in Seq(S) : (\A i \in 1..Len(s) : s[i].owner # p) => WithoutOwner(s, p) = s}
<1>1. <<>> \in T
  BY WithoutEmpty, EmptySeq
<1>2. ASSUME NEW s \in Seq(S), NEW e \in S, s \in T
      PROVE  Append(s, e) \in T
  <2> DEFINE t == Append(s, e)
  <2>1. /\ t \in Seq(S) /\ Len(t) = Len(s) + 1 /\ Len(s) \in Nat
        /\ t[Len(s) + 1] = e /\ \A i \in 1..Len(s) : t[i] = s[i]
    BY AppendProperties, LenProperties
  <2>2. WithoutOwner(t, p) = IF e.owner = p THEN WithoutOwner(s, p) ELSE Append(WithoutOwner(s, p), e)
    BY WithoutAppend
  <2>3. SUFFICES ASSUME \A i \in 1..Len(t) : t[i].owner # p
                 PROVE  WithoutOwner(t, p) = t
    BY <2>1
  <2>4. e.owner # p /\ \A i \in 1..Len(s) : s[i].owner # p
    <3> HIDE DEF t
    <3>1. Len(s) + 1 \in 1..Len(t) /\ \A i \in 1..Len(s) : i \in 1..Len(t)
      BY <2>1
    <3>2. QED
      BY <2>1, <2>3, <3>1
  <2>5. WithoutOwner(s, p) = s
    BY <1>2, <2>4
  <2>6. QED
    BY <2>2, <2>4, <2>5
<1>3. \A s \in Seq(S) : s \in T
  <2> HIDE DEF T
  <2>1. QED
    BY <1>1, <1>2, AppendInduction
<1>4. QED
  BY <1>3

\* The menu of the partitions that are left is the menu without those of p.
LEMMA BlocksWithout ==
  ASSUME NEW S, NEW p
  PROVE  \A rs \in Seq([owner : Parts, entries : Seq(S)]) :
           (\A i \in 1..Len(rs) : \A j \in 1..Len(rs[i].entries) : rs[i].entries[j].owner = rs[i].owner)
             => Blocks(WithoutOwner(rs, p)) = WithoutOwner(Blocks(rs), p)
<1> DEFINE R == [owner : Parts, entries : Seq(S)]
           Uniform(rs) == \A i \in 1..Len(rs) :
                            \A j \in 1..Len(rs[i].entries) : rs[i].entries[j].owner = rs[i].owner
           T == {rs \in Seq(R) : Uniform(rs) => Blocks(WithoutOwner(rs, p)) = WithoutOwner(Blocks(rs), p)}
<1>1. <<>> \in T
  BY WithoutEmpty, BlocksEmpty, EmptySeq
<1>2. ASSUME NEW rs \in Seq(R), NEW r \in R, rs \in T
      PROVE  Append(rs, r) \in T
  <2> DEFINE t == Append(rs, r)
             w == WithoutOwner(rs, p)
             b == Blocks(rs)
  <2>1. /\ t \in Seq(R) /\ Len(t) = Len(rs) + 1 /\ Len(rs) \in Nat
        /\ t[Len(rs) + 1] = r /\ \A i \in 1..Len(rs) : t[i] = rs[i]
    BY AppendProperties, LenProperties
  <2>2. SUFFICES ASSUME Uniform(t)
                 PROVE  Blocks(WithoutOwner(t, p)) = WithoutOwner(Blocks(t), p)
    BY <2>1
  <2>3. Uniform(rs) /\ \A j \in 1..Len(r.entries) : r.entries[j].owner = r.owner
    <3> HIDE DEF t, R
    <3>1. Len(rs) + 1 \in 1..Len(t) /\ \A i \in 1..Len(rs) : i \in 1..Len(t)
      BY <2>1
    <3>2. QED
      BY <2>1, <2>2, <3>1
  <2>4. Blocks(w) = WithoutOwner(b, p)
    BY <1>2, <2>3
  <2>5. r.entries \in Seq(S) /\ b \in Seq(S) /\ Blocks(t) = r.entries \o b
    BY BlocksAppend
  <2>6. w \in Seq(R) /\ WithoutOwner(t, p) = IF r.owner = p THEN w ELSE Append(w, r)
    <3> HIDE DEF R
    <3>1. QED
      BY WithoutAppend
  <2>7. WithoutOwner(r.entries, p) = IF r.owner = p THEN <<>> ELSE r.entries
    <3> DEFINE x == r.entries
    <3>1. x \in Seq(S) /\ \A j \in 1..Len(x) : x[j].owner = r.owner
      BY <2>3, <2>5
    <3> HIDE DEF x
    <3>2. CASE r.owner = p
      <4>1. \A j \in 1..Len(x) : x[j].owner = p
        BY <3>1, <3>2
      <4>2. WithoutOwner(x, p) = <<>>
        BY <3>1, <4>1, WithoutOwned
      <4>3. QED
        BY <3>2, <4>2 DEF x
    <3>3. CASE r.owner # p
      <4>1. \A j \in 1..Len(x) : x[j].owner # p
        BY <3>1, <3>3
      <4>2. WithoutOwner(x, p) = x
        BY <3>1, <4>1, WithoutOther
      <4>3. QED
        BY <3>3, <4>2 DEF x
    <3>4. QED
      BY <3>2, <3>3
  <2>8. WithoutOwner(Blocks(t), p) = WithoutOwner(r.entries, p) \o WithoutOwner(b, p)
    BY <2>5, WithoutConcat
  <2>9. WithoutOwner(b, p) \in Seq(S)
    BY <2>5, WithoutKeeps
  <2> HIDE DEF t, w, b
  <2>10. CASE r.owner = p
    <3>1. <<>> \o WithoutOwner(b, p) = WithoutOwner(b, p)
      BY <2>9, ConcatEmptySeq
    <3>2. QED
      BY <2>4, <2>6, <2>7, <2>8, <2>10, <3>1
  <2>11. CASE r.owner # p
    <3>1. Blocks(Append(w, r)) = r.entries \o Blocks(w)
      BY <2>6, BlocksAppend
    <3>2. QED
      BY <2>4, <2>6, <2>7, <2>8, <2>11, <3>1
  <2>12. QED
    BY <2>10, <2>11
<1>3. \A rs \in Seq(R) : rs \in T
  <2> HIDE DEF T, R
  <2>1. QED
    BY <1>1, <1>2, AppendInduction
<1>4. QED
  BY <1>3

-----------------------------------------------------------------------------
(***************************************************************************)
(* The inductive invariant of whatever interrupts what.                    *)
(***************************************************************************)
\* The entries of the configuration files there are.
Known == {e \in Entries : /\ ConfigFile(e.file, e.src) \in Configs
                          /\ e.n \in 1..Len(ConfigFile(e.file, e.src).entries)}

Places == {"partition", "mount", "mounting", "npll", "npllRead", "gumboot", "gumbootRead", "add",
           "bootNow", "count", "fire", "unmount", "delpart", "resolve", "open", "load", "target",
           "write", "store"}

Tasks == {"register", "unregister", "boot", "shot", "restore", "count", "move", "redraw"}

FrameType ==
  [cb : Devices \cup {"ui", "autoboot"},
   task : Tasks, pc : Places,
   part : Parts \cup {NoPart}, rest : Seq(Parts \cup {"self"}),
   entry : Known \cup {NoEntry}, fd : Nat, found : Seq(Known),
   globals : [timeout : Int, default : Nat], first : BOOLEAN,
   old : Parts \cup {NoPart}, got : Seq(Parts), to : Nat]

\* Each wait belongs to one task, but for those of FS_Mount.
PlaceOK(f) ==
  /\ f.pc \in {"partition", "npll", "npllRead", "gumboot", "gumbootRead", "add", "bootNow"}
       => f.task = "register"
  /\ f.pc \in {"unmount", "delpart"} => f.task = "unregister"
  /\ f.pc \in {"resolve", "open", "load"} => f.task = "boot"
  /\ f.pc \in {"target", "write"} => f.task = "shot"
  /\ f.pc \in {"mount", "mounting"} => f.task \in {"register", "boot", "shot", "restore"}
  /\ f.pc \in {"count", "fire"} => f.task \in {"register", "count"}
  /\ f.pc = "store" => f.task \in {"move", "redraw"}

\* The callback waits with a descriptor that it has opened.
Reads(f) == f.pc \in {"npllRead", "gumbootRead"} \/ (f.pc = "load" /\ f.rest # <<>>)

HasPart == {"mount", "mounting", "npll", "npllRead", "gumboot", "gumbootRead", "add", "open", "write"}

FrameOK(f) ==
  /\ f \in FrameType /\ PlaceOK(f)
  /\ f.task \in {"register", "unregister"} => f.cb \in Devices /\ f.rest \in Seq(Parts)
  /\ f.pc \in HasPart => f.part \in Parts
  /\ f.pc = "delpart" => f.rest # <<>>
  /\ f.task = "boot" => f.entry \in Known /\ (f.pc # "load" => f.rest # <<>>)
  /\ Reads(f) => f.fd \in 1..Slots
  /\ f.pc \in {"partition", "mount", "mounting", "npll", "npllRead"} /\ f.task = "register"
       => f.found = <<>>
  /\ f.task = "register" => \A i \in 1..Len(f.found) : f.found[i].owner = f.part
  /\ f.pc = "store" => f.cb = "ui"

\* The callbacks that have begun are different ones, and a device that is
\* being polled is in the list of devices.
Stacked(s, there) ==
  /\ s \in Seq(FrameType)
  /\ \A i \in 1..Len(s) : FrameOK(s[i]) /\ (s[i].cb \in Devices => s[i].cb \in there)
  /\ \A i, j \in 1..Len(s) : s[i].cb = s[j].cb => i = j

\* A descriptor that is open belongs to what is mounted, and to the last
\* callback that waits with it; none after that one is mounting.
Opener(s, i, fd, what) ==
  /\ Reads(s[i]) /\ s[i].fd = fd
  /\ s[i].pc = "npllRead" => Npll[what] # Absent
  /\ s[i].pc = "gumbootRead" => Gumboot[what] # Absent
  /\ \A j \in 1..Len(s) : j > i => s[j].pc # "mounting" /\ ~(Reads(s[j]) /\ s[j].fd = fd)

Owned(s, open, what) ==
  /\ open \in [1..Slots -> Parts \cup {NoPart}]
  /\ \A fd \in 1..Slots : open[fd] # Free =>
       open[fd] = what /\ \E i \in 1..Len(s) : Opener(s, i, fd, what)

PartRecord == [owner : Parts, entries : Seq(Known)]

Listed ==
  /\ parts \in Seq(PartRecord) /\ rootMenu \in Seq(Known)
  /\ \A i \in 1..Len(parts) : \A j \in 1..Len(parts[i].entries) :
       parts[i].entries[j].owner = parts[i].owner
  /\ MenuInStep

Counted ==
  /\ curMenu \in {"root", "sysinfo"} /\ selected \in Nat /\ SelectedInMenu
  /\ autoboot \in [active : BOOLEAN, canceled : BOOLEAN, timeout : Nat]
  /\ input \in [pending : BOOLEAN, received : BOOLEAN]
  /\ cut \in BOOLEAN /\ slipped \in BOOLEAN
  /\ slipped \/ curMenu = "sysinfo" => autoboot.canceled
  /\ AutobootTarget

Typed ==
  /\ devices \subseteq Devices
  /\ mounted \in Parts \cup {NoPart} /\ {fatPart, wfsPart} \subseteq Parts \cup {NoPart}
  /\ consumed \in BOOLEAN /\ hook \in BOOLEAN
  /\ halt \in {"no", "assert", "busy", "panic", "wild", "started", "left"}
  /\ halt = "no" => started = NotStarted

Nested == Stacked(stack, devices) /\ Len(stack) <= MaxNesting /\ registered \subseteq devices
OpenKept == halt = "no" => Owned(stack, files, mounted)
FilesKept == files \in [1..Slots -> Parts \cup {NoPart}] /\ \A fd \in 1..Slots : files[fd] \in {Free, mounted}

Kept == Typed /\ Nested /\ OpenKept /\ FilesKept /\ Listed /\ Counted

-----------------------------------------------------------------------------
(***************************************************************************)
(* What entering, continuing and leaving a callback keeps, for any stack.  *)
(***************************************************************************)
LEMMA ReplaceLast ==
  ASSUME NEW S, NEW s \in Seq(S), s # <<>>, NEW f \in S
  PROVE  /\ Append(Front(s), f) \in Seq(S) /\ Append(Front(s), f) # <<>>
         /\ Len(Append(Front(s), f)) = Len(s) /\ Len(s) \in Nat /\ Len(s) >= 1
         /\ Append(Front(s), f)[Len(s)] = f
         /\ \A i \in 1..Len(s) : i < Len(s) => Append(Front(s), f)[i] = s[i]
<1> DEFINE u == Front(s)
<1>1. /\ u \in Seq(S) /\ Len(u) = Len(s) - 1
      /\ \A j \in 1..(Len(s) - 1) : u[j] = s[j]
      /\ Len(s) \in Nat /\ Len(s) >= 1
  <2>1. Len(s) \in Nat /\ Len(s) >= 1
    BY TailElements
  <2>2. QED
    BY <2>1, FrontElements
<1> HIDE DEF u
<1>2. /\ Append(u, f) \in Seq(S) /\ Append(u, f) # <<>> /\ Len(Append(u, f)) = Len(u) + 1
      /\ \A j \in 1..Len(u) : Append(u, f)[j] = u[j]
      /\ Append(u, f)[Len(u) + 1] = f
  <2>1. Len(Append(u, f)) # 0
    BY <1>1, AppendProperties
  <2>2. QED
    BY <1>1, <2>1, AppendProperties, EmptySeq
<1>3. Len(u) + 1 = Len(s)
  BY <1>1
<1>4. ASSUME NEW i \in 1..Len(s), i < Len(s)
      PROVE  Append(u, f)[i] = s[i]
  <2>1. i \in 1..(Len(s) - 1) /\ i \in 1..Len(u)
    BY <1>1, <1>4
  <2>2. QED
    BY <1>1, <1>2, <2>1
<1>5. QED
  BY <1>1, <1>2, <1>3, <1>4 DEF u

LEMMA StackedTop ==
  ASSUME NEW s, NEW there, Stacked(s, there), s # <<>>
  PROVE  /\ Len(s) \in Nat /\ Len(s) >= 1 /\ Len(s) \in 1..Len(s) /\ Last(s) = s[Len(s)]
         /\ FrameOK(Last(s)) /\ (Last(s).cb \in Devices => Last(s).cb \in there)
<1>1. s \in Seq(FrameType)
  BY DEF Stacked
<1>2. Len(s) \in Nat /\ Len(s) >= 1
  BY <1>1, TailElements
<1>3. QED
  BY <1>2 DEF Stacked, Last

LEMMA StackedEnter ==
  ASSUME NEW s, NEW there, Stacked(s, there), NEW f, FrameOK(f),
         NEW now, there \subseteq now, f.cb \in Devices => f.cb \in now,
         \A i \in 1..Len(s) : s[i].cb # f.cb
  PROVE  Stacked(Append(s, f), now) /\ Len(Append(s, f)) = Len(s) + 1 /\ Len(s) \in Nat
<1> DEFINE t == Append(s, f)
<1>1. s \in Seq(FrameType) /\ f \in FrameType
  BY DEF Stacked, FrameOK
<1>2. /\ t \in Seq(FrameType) /\ Len(t) = Len(s) + 1 /\ Len(s) \in Nat
      /\ t[Len(s) + 1] = f /\ \A i \in 1..Len(s) : t[i] = s[i]
  BY <1>1, AppendProperties, LenProperties
<1> HIDE DEF t
<1>3. \A i \in 1..Len(t) : i \in 1..Len(s) \/ i = Len(s) + 1
  BY <1>2
<1>4. \A i \in 1..Len(t) : FrameOK(t[i]) /\ (t[i].cb \in Devices => t[i].cb \in now)
  BY <1>2, <1>3 DEF Stacked
<1>5. \A i, j \in 1..Len(t) : t[i].cb = t[j].cb => i = j
  BY <1>2, <1>3 DEF Stacked
<1>6. QED
  BY <1>2, <1>4, <1>5 DEF Stacked, t

LEMMA StackedContinue ==
  ASSUME NEW s, NEW there, Stacked(s, there), s # <<>>, NEW f, FrameOK(f),
         f.cb = Last(s).cb
  PROVE  Stacked(Append(Front(s), f), there) /\ Len(Append(Front(s), f)) = Len(s)
<1> DEFINE t == Append(Front(s), f)
<1>1. s \in Seq(FrameType) /\ f \in FrameType
  BY DEF Stacked, FrameOK
<1>2. /\ t \in Seq(FrameType) /\ Len(t) = Len(s) /\ Len(s) \in Nat /\ Len(s) >= 1
      /\ t[Len(s)] = f /\ \A i \in 1..Len(s) : i < Len(s) => t[i] = s[i]
  BY <1>1, ReplaceLast
<1> HIDE DEF t
<1>3. \A i \in 1..Len(t) : i \in 1..Len(s) /\ (i < Len(s) \/ i = Len(s))
  BY <1>2
<1>4. Last(s) = s[Len(s)] /\ Len(s) \in 1..Len(s)
  BY StackedTop
<1>5. \A i \in 1..Len(t) : t[i].cb = s[i].cb /\ FrameOK(t[i])
  BY <1>2, <1>3, <1>4 DEF Stacked
<1>6. QED
  BY <1>2, <1>3, <1>5 DEF Stacked, t

LEMMA StackedReturn ==
  ASSUME NEW s, NEW there, Stacked(s, there), s # <<>>,
         NEW now, \A d \in there : d = Last(s).cb \/ d \in now
  PROVE  Stacked(Front(s), now) /\ Len(Front(s)) = Len(s) - 1 /\ Len(s) \in Nat /\ Len(s) >= 1
<1> DEFINE t == Front(s)
<1>1. s \in Seq(FrameType)
  BY DEF Stacked
<1>2. /\ t \in Seq(FrameType) /\ Len(t) = Len(s) - 1 /\ Len(s) \in Nat /\ Len(s) >= 1
      /\ \A i \in 1..(Len(s) - 1) : t[i] = s[i]
  BY <1>1, FrontElements, TailElements
<1> HIDE DEF t
<1>3. Last(s) = s[Len(s)] /\ Len(s) \in 1..Len(s)
  BY StackedTop
<1>4. \A i \in 1..Len(t) : i \in 1..Len(s) /\ i # Len(s) /\ t[i] = s[i]
  BY <1>2
<1>5. QED
  BY <1>2, <1>3, <1>4 DEF Stacked, t

LEMMA StackedNone ==
  ASSUME NEW there
  PROVE  Stacked(<<>>, there) /\ Len(<<>>) = 0
<1>1. <<>> \in Seq(FrameType) /\ Len(<<>>) = 0
  BY EmptySeq
<1> DEFINE none == <<>>
<1>2. none \in Seq(FrameType) /\ Len(none) = 0
  BY <1>1
<1> HIDE DEF none
<1>3. \A i \in 1..Len(none) : FALSE
  BY <1>2
<1>4. QED
  BY <1>2, <1>3 DEF Stacked, none

-----------------------------------------------------------------------------
(***************************************************************************)
(* The same for the descriptors.                                           *)
(***************************************************************************)
Waits(f) == ~Reads(f) /\ f.pc # "mounting"

LEMMA NoFilesOwned ==
  ASSUME NEW s, NEW what
  PROVE  Owned(s, NoFiles, what) /\ \A fd \in 1..Slots : NoFiles[fd] = Free
  BY DEF Owned, NoFiles, Free

LEMMA OwnedEnter ==
  ASSUME NEW s \in Seq(FrameType), NEW open, NEW what, Owned(s, open, what),
         NEW f \in FrameType, Waits(f)
  PROVE  Owned(Append(s, f), open, what)
<1> DEFINE t == Append(s, f)
<1>1. /\ t \in Seq(FrameType) /\ Len(t) = Len(s) + 1 /\ Len(s) \in Nat
      /\ t[Len(s) + 1] = f /\ \A i \in 1..Len(s) : t[i] = s[i]
  BY AppendProperties, LenProperties
<1> HIDE DEF t
<1>2. \A i \in 1..Len(t) : i \in 1..Len(s) \/ i = Len(s) + 1
  BY <1>1
<1>3. ASSUME NEW fd \in 1..Slots, open[fd] # Free
      PROVE  \E i \in 1..Len(t) : Opener(t, i, fd, what)
  <2>1. PICK i \in 1..Len(s) : Opener(s, i, fd, what)
    BY <1>3 DEF Owned
  <2>2. i \in 1..Len(t) /\ t[i] = s[i]
    BY <1>1
  <2>3. \A j \in 1..Len(t) : j > i => t[j].pc # "mounting" /\ ~(Reads(t[j]) /\ t[j].fd = fd)
    BY <1>1, <1>2, <2>1 DEF Opener, Waits
  <2>4. QED
    BY <2>1, <2>2, <2>3 DEF Opener
<1>4. QED
  BY <1>3 DEF Owned, t

\* The running callback goes on, and neither had a descriptor nor has one.
LEMMA OwnedContinue ==
  ASSUME NEW s \in Seq(FrameType), s # <<>>, NEW open, NEW what, Owned(s, open, what),
         ~Reads(Last(s)), NEW f \in FrameType, Waits(f)
  PROVE  Owned(Append(Front(s), f), open, what)
<1> DEFINE t == Append(Front(s), f)
<1>1. /\ t \in Seq(FrameType) /\ Len(t) = Len(s) /\ Len(s) \in Nat /\ Len(s) >= 1
      /\ t[Len(s)] = f /\ \A i \in 1..Len(s) : i < Len(s) => t[i] = s[i]
  BY ReplaceLast
<1> HIDE DEF t
<1>2. Last(s) = s[Len(s)]
  BY DEF Last
<1>3. ASSUME NEW fd \in 1..Slots, open[fd] # Free
      PROVE  \E i \in 1..Len(t) : Opener(t, i, fd, what)
  <2>1. PICK i \in 1..Len(s) : Opener(s, i, fd, what)
    BY <1>3 DEF Owned
  <2>2. i # Len(s) /\ i < Len(s) /\ t[i] = s[i] /\ i \in 1..Len(t)
    BY <1>1, <1>2, <2>1 DEF Opener
  <2>3. \A j \in 1..Len(t) : j \in 1..Len(s) /\ (j < Len(s) \/ j = Len(s))
    BY <1>1
  <2>4. \A j \in 1..Len(t) : j > i => t[j].pc # "mounting" /\ ~(Reads(t[j]) /\ t[j].fd = fd)
    BY <1>1, <2>1, <2>3 DEF Opener, Waits
  <2>5. QED
    BY <2>1, <2>2, <2>4 DEF Opener
<1>4. QED
  BY <1>3 DEF Owned, t

LEMMA OwnedReturn ==
  ASSUME NEW s \in Seq(FrameType), s # <<>>, NEW open, NEW what, Owned(s, open, what),
         ~Reads(Last(s))
  PROVE  Owned(Front(s), open, what)
<1> DEFINE t == Front(s)
<1>1. /\ t \in Seq(FrameType) /\ Len(t) = Len(s) - 1 /\ Len(s) \in Nat /\ Len(s) >= 1
      /\ \A i \in 1..(Len(s) - 1) : t[i] = s[i]
  BY FrontElements, TailElements
<1> HIDE DEF t
<1>2. Last(s) = s[Len(s)]
  BY DEF Last
<1>3. ASSUME NEW fd \in 1..Slots, open[fd] # Free
      PROVE  \E i \in 1..Len(t) : Opener(t, i, fd, what)
  <2>1. PICK i \in 1..Len(s) : Opener(s, i, fd, what)
    BY <1>3 DEF Owned
  <2>2. i # Len(s) /\ i \in 1..Len(t) /\ t[i] = s[i]
    BY <1>1, <1>2, <2>1 DEF Opener
  <2>3. \A j \in 1..Len(t) : j \in 1..Len(s) /\ t[j] = s[j]
    BY <1>1
  <2>4. QED
    BY <2>1, <2>2, <2>3 DEF Opener
<1>4. QED
  BY <1>3 DEF Owned, t

\* FS_Open gives the running callback a descriptor that was free.
LEMMA OwnedOpens ==
  ASSUME NEW s \in Seq(FrameType), s # <<>>, NEW open, NEW what \in Parts, Owned(s, open, what),
         ~Reads(Last(s)), NEW fd \in 1..Slots, open[fd] = Free,
         NEW f \in FrameType, Reads(f), f.fd = fd,
         f.pc = "npllRead" => Npll[what] # Absent,
         f.pc = "gumbootRead" => Gumboot[what] # Absent
  PROVE  Owned(Append(Front(s), f), [open EXCEPT ![fd] = what], what)
<1> DEFINE t == Append(Front(s), f)
           now == [open EXCEPT ![fd] = what]
<1>1. /\ t \in Seq(FrameType) /\ Len(t) = Len(s) /\ Len(s) \in Nat /\ Len(s) >= 1
      /\ t[Len(s)] = f /\ \A i \in 1..Len(s) : i < Len(s) => t[i] = s[i]
  BY ReplaceLast
<1>2. Last(s) = s[Len(s)]
  BY DEF Last
<1>3. /\ now \in [1..Slots -> Parts \cup {NoPart}] /\ now[fd] = what
      /\ \A g \in 1..Slots : g # fd => now[g] = open[g]
  BY DEF Owned
<1> HIDE DEF t, now
<1>4. Len(s) \in 1..Len(t) /\ Opener(t, Len(s), fd, what)
  BY <1>1 DEF Opener
<1>5. ASSUME NEW g \in 1..Slots, g # fd, now[g] # Free
      PROVE  now[g] = what /\ \E i \in 1..Len(t) : Opener(t, i, g, what)
  <2>0. open[g] # Free /\ now[g] = open[g]
    BY <1>3, <1>5
  <2>1. PICK i \in 1..Len(s) : Opener(s, i, g, what)
    BY <2>0 DEF Owned
  <2>2. i # Len(s) /\ i < Len(s) /\ t[i] = s[i] /\ i \in 1..Len(t)
    BY <1>1, <1>2, <2>1 DEF Opener
  <2>3. \A j \in 1..Len(t) : j \in 1..Len(s) /\ (j < Len(s) \/ j = Len(s))
    BY <1>1
  <2>4. f.pc # "mounting"
    BY DEF Reads
  <2>5. \A j \in 1..Len(t) : j > i => t[j].pc # "mounting" /\ ~(Reads(t[j]) /\ t[j].fd = g)
    BY <1>1, <1>5, <2>1, <2>3, <2>4 DEF Opener
  <2>6. QED
    BY <2>0, <2>1, <2>2, <2>5 DEF Opener, Owned
<1>6. QED
  BY <1>3, <1>4, <1>5 DEF Owned, t, now

\* FS_Close frees that of the running callback, which goes on or returns.
LEMMA OwnedCloses ==
  ASSUME NEW s \in Seq(FrameType), s # <<>>, NEW open, NEW what, Owned(s, open, what),
         Reads(Last(s)), Last(s).fd \in 1..Slots
  PROVE  /\ Owned(Front(s), [open EXCEPT ![Last(s).fd] = Free], what)
         /\ \A f \in FrameType : Waits(f) =>
              Owned(Append(Front(s), f), [open EXCEPT ![Last(s).fd] = Free], what)
<1> DEFINE fd == Last(s).fd
           now == [open EXCEPT ![fd] = Free]
           u == Front(s)
<1>1. /\ u \in Seq(FrameType) /\ Len(u) = Len(s) - 1 /\ Len(s) \in Nat /\ Len(s) >= 1
      /\ \A i \in 1..(Len(s) - 1) : u[i] = s[i]
  BY FrontElements, TailElements
<1>2. Last(s) = s[Len(s)]
  BY DEF Last
<1>3. /\ now \in [1..Slots -> Parts \cup {NoPart}] /\ now[fd] = Free
      /\ \A g \in 1..Slots : g # fd => now[g] = open[g]
  BY DEF Owned, Free
<1>4. s[Len(s)].fd = fd
  BY <1>2
<1> HIDE DEF u, now, fd
<1>5. ASSUME NEW g \in 1..Slots, now[g] # Free
      PROVE  now[g] = what /\ \E i \in 1..Len(u) : Opener(u, i, g, what)
  <2>0. g # fd /\ open[g] # Free /\ now[g] = open[g]
    BY <1>3, <1>5
  <2>1. PICK i \in 1..Len(s) : Opener(s, i, g, what)
    BY <2>0 DEF Owned
  <2>2. i # Len(s) /\ i \in 1..Len(u) /\ u[i] = s[i]
    BY <1>1, <1>4, <2>0, <2>1 DEF Opener
  <2>3. \A j \in 1..Len(u) : j \in 1..Len(s) /\ u[j] = s[j]
    BY <1>1
  <2>4. QED
    BY <2>0, <2>1, <2>2, <2>3 DEF Opener, Owned
<1>6. Owned(u, now, what)
  BY <1>3, <1>5 DEF Owned
<1>7. ASSUME NEW f \in FrameType, Waits(f)
      PROVE  Owned(Append(u, f), now, what)
  BY <1>1, <1>6, <1>7, OwnedEnter
<1>8. QED
  BY <1>6, <1>7 DEF u, now, fd

\* While the running callback mounts nothing is open, and what it has opened
\* itself and nobody has closed is still of the file that it opened.
LEMMA OwnedMounting ==
  ASSUME NEW s \in Seq(FrameType), s # <<>>, NEW open, NEW what, Owned(s, open, what),
         Last(s).pc = "mounting"
  PROVE  open = NoFiles
<1>1. Len(s) \in Nat /\ Len(s) >= 1 /\ Last(s) = s[Len(s)]
  BY TailElements DEF Last
<1>2. ASSUME NEW fd \in 1..Slots, open[fd] # Free
      PROVE  FALSE
  <2>1. PICK i \in 1..Len(s) : Opener(s, i, fd, what)
    BY <1>2 DEF Owned
  <2>2. i = Len(s) \/ (i < Len(s) /\ Len(s) \in 1..Len(s))
    BY <1>1
  <2>3. QED
    BY <1>1, <2>1, <2>2 DEF Opener, Reads
<1>3. \A fd \in 1..Slots : open[fd] = Free
  BY <1>2
<1>4. QED
  BY <1>3 DEF Owned, NoFiles

LEMMA OwnedReading ==
  ASSUME NEW s \in Seq(FrameType), s # <<>>, NEW open, NEW what, Owned(s, open, what),
         Reads(Last(s)), Last(s).fd \in 1..Slots, open[Last(s).fd] # Free
  PROVE  /\ open[Last(s).fd] = what
         /\ Last(s).pc = "npllRead" => Npll[what] # Absent
         /\ Last(s).pc = "gumbootRead" => Gumboot[what] # Absent
<1> DEFINE fd == Last(s).fd
<1>1. Len(s) \in Nat /\ Len(s) >= 1 /\ Last(s) = s[Len(s)]
  BY TailElements DEF Last
<1>2. PICK i \in 1..Len(s) : Opener(s, i, fd, what)
  BY DEF Owned
<1>3. i = Len(s)
  <2>1. i = Len(s) \/ (i < Len(s) /\ Len(s) \in 1..Len(s))
    BY <1>1
  <2>2. QED
    BY <1>1, <1>2, <2>1 DEF Opener
<1>4. QED
  BY <1>1, <1>2, <1>3 DEF Opener, Owned

-----------------------------------------------------------------------------
(***************************************************************************)
(* The entries of a configuration, and where the running callback is.      *)
(***************************************************************************)
EntryType == [paths : Seq(Parts \cup {"self"}), linux : BOOLEAN, hook : BOOLEAN]

LEMMA ConfigRead ==
  ASSUME NEW file \in {"npll", "gumboot"}, NEW src \in Parts, ConfigFile(file, src) # Absent
  PROVE  /\ ConfigFile(file, src) \in Configs
         /\ ConfigFile(file, src).timeout \in Int /\ ConfigFile(file, src).default \in Nat
         /\ ConfigFile(file, src).entries \in Seq(EntryType)
<1>1. ConfigFile(file, src) \in Configs \cup {Absent}
  BY StorageAssumption DEF ConfigFile
<1>2. ConfigFile(file, src) \in Configs
  BY <1>1
<1>3. QED
  BY <1>2 DEF Configs, EntryType

LEMMA EntriesRead ==
  ASSUME NEW file \in {"npll", "gumboot"}, NEW src \in Parts, ConfigFile(file, src) # Absent,
         NEW owner \in Parts
  PROVE  /\ EntriesOf(file, src, owner) \in Seq(Known)
         /\ \A i \in 1..Len(EntriesOf(file, src, owner)) :
              /\ EntriesOf(file, src, owner)[i].owner = owner
              /\ EntriesOf(file, src, owner)[i].src = src
              /\ EntriesOf(file, src, owner)[i].file = file
<1> DEFINE N == Len(ConfigFile(file, src).entries)
           es == EntriesOf(file, src, owner)
           e(i) == [owner |-> owner, src |-> src, file |-> file, n |-> i]
<1>1. N \in Nat /\ ConfigFile(file, src) \in Configs
  BY ConfigRead, LenProperties
<1>2. \A i \in 1..N : e(i) \in Known
  BY <1>1 DEF Known, Entries
<1>3. es = [i \in 1..N |-> e(i)]
  BY DEF EntriesOf
<1> HIDE DEF N, es, e
<1>4. es \in Seq(Known) /\ Len(es) = N
  BY <1>1, <1>2, <1>3, IsASeq
<1>5. \A i \in 1..Len(es) : es[i] = e(i)
  BY <1>3, <1>4
<1>6. QED
  BY <1>4, <1>5 DEF es, e

LEMMA WhatKnown ==
  ASSUME NEW e \in Known
  PROVE  What(e) \in EntryType /\ e \in Entries
<1>1. /\ e.file \in {"npll", "gumboot"} /\ e.src \in Parts /\ e.owner \in Parts
      /\ ConfigFile(e.file, e.src) \in Configs
      /\ e.n \in 1..Len(ConfigFile(e.file, e.src).entries)
  BY DEF Known, Entries
<1>2. ConfigFile(e.file, e.src).entries \in Seq(EntryType)
  BY <1>1 DEF Configs, EntryType
<1>3. ConfigFile(e.file, e.src).entries[e.n] \in EntryType
  <2> DEFINE es == ConfigFile(e.file, e.src).entries
             n == e.n
  <2>1. es \in Seq(EntryType) /\ n \in 1..Len(es)
    BY <1>1, <1>2
  <2> HIDE DEF es, n
  <2>2. es[n] \in EntryType
    BY <2>1, ElementOfSeq
  <2>3. QED
    BY <2>2 DEF es, n
<1>4. QED
  BY <1>3 DEF What, Known

LEMMA AtFacts ==
  ASSUME Kept, NEW pc, At(pc)
  PROVE  /\ stack # <<>> /\ stack \in Seq(FrameType) /\ Top.pc = pc /\ Top = Last(stack)
         /\ FrameOK(Top) /\ Top \in FrameType /\ (Top.cb \in Devices => Top.cb \in devices)
         /\ Stacked(stack, devices) /\ Owned(stack, files, mounted)
         /\ halt = "no" /\ started = NotStarted
         /\ Len(stack) \in Nat /\ Len(stack) >= 1
<1>1. stack # <<>> /\ halt = "no" /\ Top.pc = pc /\ Stacked(stack, devices)
  BY DEF At, Kept, Nested
<1>2. FrameOK(Top) /\ (Top.cb \in Devices => Top.cb \in devices) /\ Len(stack) \in Nat /\ Len(stack) >= 1
  BY <1>1, StackedTop DEF Top
<1>3. QED
  BY <1>1, <1>2 DEF Top, Kept, OpenKept, Typed, Stacked, FrameOK

LEMMA ContinueNests ==
  ASSUME Kept, NEW pc, At(pc), NEW f, FrameOK(f), f.cb = Top.cb, Continue(f), devices' = devices
  PROVE  Nested'
<1>1. Stacked(Append(Front(stack), f), devices) /\ Len(Append(Front(stack), f)) = Len(stack)
  BY AtFacts, StackedContinue
<1>2. QED
  BY <1>1 DEF Continue, Kept, Nested

LEMMA ReturnNests ==
  ASSUME Kept, NEW pc, At(pc), Return, devices' = devices
  PROVE  Nested'
<1>1. Stacked(Front(stack), devices) /\ Len(Front(stack)) = Len(stack) - 1 /\ Len(stack) \in Nat
  BY AtFacts, StackedReturn
<1>2. registered' \subseteq devices
  BY AtFacts DEF Return, Kept, Nested
<1>3. Len(Front(stack)) <= MaxNesting
  BY <1>1, StorageAssumption DEF Kept, Nested
<1>4. QED
  BY <1>1, <1>2, <1>3 DEF Return, Nested

LEMMA EnterNests ==
  ASSUME Kept, NEW cb, Callback(cb), NEW f, FrameOK(f), f.cb = cb, stack' = Append(stack, f),
         devices \subseteq devices', cb \in Devices => cb \in devices',
         registered' \subseteq registered
  PROVE  /\ Nested' /\ stack \in Seq(FrameType)
         /\ Stacked(stack, devices) /\ Owned(stack, files, mounted)
<1>1. \A i \in 1..Len(stack) : stack[i].cb # f.cb
  BY DEF Callback, Kept, Nested, Stacked
<1>2. Stacked(Append(stack, f), devices') /\ Len(Append(stack, f)) = Len(stack) + 1 /\ Len(stack) \in Nat
  BY <1>1, StackedEnter DEF Kept, Nested
<1>3. QED
  BY <1>2, StorageAssumption DEF Kept, Nested, Callback, OpenKept, Stacked

LEMMA MenuSame ==
  ASSUME Kept, UNCHANGED menuVars
  PROVE  Listed' /\ Counted'
<1>1. /\ parts' = parts /\ rootMenu' = rootMenu /\ curMenu' = curMenu /\ selected' = selected
      /\ autoboot' = autoboot /\ input' = input /\ cut' = cut /\ slipped' = slipped
  BY DEF menuVars, slips
<1>2. Listed'
  BY <1>1 DEF Kept, Listed, MenuInStep
<1>3. Counted'
  BY <1>1 DEF Kept, Counted, SelectedInMenu, NumEntries, AutobootTarget
<1>4. QED
  BY <1>2, <1>3

-----------------------------------------------------------------------------
(***************************************************************************)
(* Every step keeps the invariant.                                         *)
(***************************************************************************)
LEMMA InputArrivesKeeps ==
  ASSUME Kept, InputArrives
  PROVE  Kept'
<1>1. Counted'
  BY DEF InputArrives, Running, Idle, Kept, Counted, SelectedInMenu, NumEntries, AutobootTarget, slips
<1>2. Listed'
  BY DEF InputArrives, Running, Idle, Kept, Listed, MenuInStep
<1>3. Nested' /\ OpenKept' /\ FilesKept' /\ Typed'
  BY DEF InputArrives, Running, Idle, Kept, Nested, OpenKept, FilesKept, Typed, fsVars, cfgVars
<1>4. QED
  BY <1>1, <1>2, <1>3 DEF Kept

LEMMA NewFrame ==
  ASSUME NEW cb \in Devices \cup {"ui", "autoboot"}, NEW pc \in Places,
         NEW task \in Tasks
  PROVE  /\ Frame(cb, task, pc) \in FrameType /\ Frame(cb, task, pc).cb = cb
         /\ Frame(cb, task, pc).task = task /\ Frame(cb, task, pc).pc = pc
         /\ Frame(cb, task, pc).found = <<>>
<1>1. <<>> \in Seq(Parts \cup {"self"}) /\ <<>> \in Seq(Known) /\ <<>> \in Seq(Parts)
  BY EmptySeq
<1>2. NoGlobals \in [timeout : Int, default : Nat]
  BY DEF NoGlobals
<1>3. QED
  BY <1>1, <1>2 DEF Frame, FrameType

LEMMA DeviceFrame ==
  ASSUME NEW d \in Devices, NEW task \in {"register", "unregister"}, NEW pc \in {"partition", "unmount"},
         task = "register" <=> pc = "partition"
  PROVE  /\ FrameOK([Frame(d, task, pc) EXCEPT !.rest = PartsOf[d]])
         /\ Waits([Frame(d, task, pc) EXCEPT !.rest = PartsOf[d]])
         /\ [Frame(d, task, pc) EXCEPT !.rest = PartsOf[d]].cb = d
<1> DEFINE g == Frame(d, task, pc)
           f == [g EXCEPT !.rest = PartsOf[d]]
<1>1. g \in FrameType /\ g.cb = d /\ g.task = task /\ g.pc = pc /\ g.found = <<>>
  <2>1. /\ d \in Devices \cup {"ui", "autoboot"} /\ pc \in Places
        /\ task \in Tasks
    BY DEF Places, Tasks
  <2>2. QED
    BY <2>1, NewFrame
<1>2. PartsOf[d] \in Seq(Parts) /\ PartsOf[d] \in Seq(Parts \cup {"self"})
  <2>1. PartsOf[d] \in Seq(Parts)
    BY StorageAssumption
  <2>2. QED
    BY <2>1, SeqMonotonic
<1> HIDE DEF g
<1>3. f \in FrameType /\ f.cb = d /\ f.task = task /\ f.pc = pc /\ f.found = <<>> /\ f.rest = PartsOf[d]
  BY <1>1, <1>2 DEF FrameType
<1> HIDE DEF f
<1>4. \A i \in 1..Len(f.found) : FALSE
  BY <1>3, EmptySeq
<1>5. FrameOK(f) /\ Waits(f)
  BY <1>2, <1>3, <1>4 DEF FrameOK, PlaceOK, Reads, HasPart, Waits
<1>6. QED
  BY <1>3, <1>5 DEF f, g

LEMMA RegisterKeeps ==
  ASSUME Kept, NEW d \in Devices, B_Register(d)
  PROVE  Kept'
<1> DEFINE f == [Frame(d, "register", "partition") EXCEPT !.rest = PartsOf[d]]
<1>1. FrameOK(f) /\ Waits(f) /\ f.cb = d /\ f \in FrameType
  BY DeviceFrame DEF FrameOK
<1> HIDE DEF f
<1>2. Callback(d) /\ stack' = Append(stack, f) /\ registered' = registered /\ devices' = devices \cup {d}
  BY DEF B_Register, Enter, f
<1>3. Nested' /\ Owned(Append(stack, f), files, mounted)
  BY <1>1, <1>2, EnterNests, OwnedEnter
<1>4. Listed' /\ Counted'
  BY MenuSame DEF B_Register
<1>5. OpenKept' /\ FilesKept' /\ Typed'
  BY <1>2, <1>3 DEF B_Register, Running, Kept, OpenKept, FilesKept, Typed, fsVars, cfgVars
<1>6. QED
  BY <1>3, <1>4, <1>5 DEF Kept

LEMMA UnregisterKeeps ==
  ASSUME Kept, NEW d \in Devices, B_Unregister(d)
  PROVE  Kept'
<1> DEFINE f == [Frame(d, "unregister", "unmount") EXCEPT !.rest = PartsOf[d]]
<1>1. FrameOK(f) /\ Waits(f) /\ f.cb = d /\ f \in FrameType
  BY DeviceFrame DEF FrameOK
<1> HIDE DEF f
<1>2. Callback(d) /\ stack' = Append(stack, f) /\ registered' \subseteq registered /\ devices' = devices
      /\ d \in devices
  BY DEF B_Unregister, f, Kept, Nested
<1>3. Nested' /\ Owned(Append(stack, f), files, mounted)
  BY <1>1, <1>2, EnterNests, OwnedEnter
<1>4. Listed' /\ Counted'
  BY MenuSame DEF B_Unregister
<1>5. OpenKept' /\ FilesKept' /\ Typed'
  BY <1>2, <1>3 DEF B_Unregister, Running, Kept, OpenKept, FilesKept, Typed, fsVars, cfgVars
<1>6. QED
  BY <1>3, <1>4, <1>5 DEF Kept

\* A frame that goes on at another place, all else being as it was.
LEMMA Moved ==
  ASSUME NEW f \in FrameType, NEW pc \in Places
  PROVE  /\ [f EXCEPT !.pc = pc] \in FrameType /\ [f EXCEPT !.pc = pc].pc = pc
         /\ [f EXCEPT !.pc = pc].cb = f.cb /\ [f EXCEPT !.pc = pc].task = f.task
         /\ [f EXCEPT !.pc = pc].part = f.part /\ [f EXCEPT !.pc = pc].rest = f.rest
         /\ [f EXCEPT !.pc = pc].entry = f.entry /\ [f EXCEPT !.pc = pc].fd = f.fd
         /\ [f EXCEPT !.pc = pc].found = f.found /\ [f EXCEPT !.pc = pc].old = f.old
         /\ [f EXCEPT !.pc = pc].got = f.got /\ [f EXCEPT !.pc = pc].first = f.first
         /\ [f EXCEPT !.pc = pc].globals = f.globals
  BY DEF FrameType


\* The filesystem is given up, or was, and every descriptor with it.
LEMMA NothingOpen ==
  ASSUME files' = NoFiles
  PROVE  FilesKept' /\ OpenKept'
<1>1. NoFiles \in [1..Slots -> Parts \cup {NoPart}] /\ \A fd \in 1..Slots : NoFiles[fd] = Free
  BY DEF NoFiles, Free
<1>2. FilesKept'
  BY <1>1 DEF FilesKept, Free
<1>3. Owned(stack', NoFiles, mounted')
  BY NoFilesOwned
<1>4. QED
  BY <1>2, <1>3 DEF OpenKept

LEMMA ReleasedTyped ==
  ASSUME NEW kind, NEW held \in Parts \cup {NoPart}
  PROVE  Released(kind, held) \in Parts \cup {NoPart}
  BY DEF Released

\* The places the running callback may go to without a descriptor.
LEMMA GotoOK ==
  ASSUME NEW f, FrameOK(f), NEW pc \in Places,
         \/ f.pc = "mount" /\ pc = "mounting"
         \/ f.pc \in {"mount", "mounting"} /\ f.task = "register" /\ pc = "partition"
         \/ f.pc = "mounting" /\ f.task = "register" /\ pc = "npll"
         \/ f.pc = "mounting" /\ f.task = "boot" /\ pc = "open"
         \/ f.pc = "mounting" /\ f.task = "shot" /\ pc = "write"
         \/ f.pc = "gumboot" /\ pc = "add"
         \/ f.pc = "add" /\ pc = "bootNow"
         \/ f.pc = "bootNow" /\ pc = "count"
         \/ f.pc = "count" /\ pc = "fire"
         \/ f.pc = "unmount" /\ f.rest # <<>> /\ pc = "delpart"
  PROVE  /\ FrameOK([f EXCEPT !.pc = pc]) /\ [f EXCEPT !.pc = pc].cb = f.cb
         /\ [f EXCEPT !.pc = pc] \in FrameType
         /\ ~Reads(f) /\ (pc # "mounting" => Waits([f EXCEPT !.pc = pc]))
<1> DEFINE g == [f EXCEPT !.pc = pc]
<1>1. /\ g \in FrameType /\ g.pc = pc /\ g.cb = f.cb /\ g.task = f.task /\ g.part = f.part
      /\ g.rest = f.rest /\ g.entry = f.entry /\ g.fd = f.fd /\ g.found = f.found
  BY Moved DEF FrameOK
<1> HIDE DEF g
<1>2. ~Reads(f) /\ ~Reads(g) /\ (pc # "mounting" => Waits(g))
  BY <1>1 DEF Reads, Waits
<1>3. PlaceOK(g)
  BY <1>1 DEF FrameOK, PlaceOK
<1>4. FrameOK(g)
  BY <1>1, <1>2, <1>3 DEF FrameOK, PlaceOK, HasPart
<1>5. QED
  BY <1>1, <1>2, <1>4 DEF g

LEMMA GotoNests ==
  ASSUME Kept, NEW at, At(at), NEW pc \in Places, Goto(pc), devices' = devices,
         FrameOK([Top EXCEPT !.pc = pc])
  PROVE  Nested'
<1> DEFINE f == [Top EXCEPT !.pc = pc]
<1>1. FrameOK(f) /\ f.cb = Top.cb /\ Continue(f)
  BY AtFacts, Moved DEF Goto
<1> HIDE DEF f
<1>2. QED
  BY <1>1, ContinueNests

\* It goes to pc or returns, and had no descriptor.
LEMMA GotoOpen ==
  ASSUME Kept, NEW at, At(at), NEW pc \in Places, Goto(pc), ~Reads(Top),
         Waits([Top EXCEPT !.pc = pc]), files' = files, mounted' = mounted
  PROVE  OpenKept' /\ FilesKept'
<1> DEFINE f == [Top EXCEPT !.pc = pc]
<1>1. f \in FrameType /\ stack' = Append(Front(stack), f) /\ Waits(f)
  BY AtFacts, Moved DEF Goto, Continue
<1> HIDE DEF f
<1>2. Owned(Append(Front(stack), f), files, mounted)
  BY <1>1, AtFacts, OwnedContinue
<1>3. QED
  BY <1>1, <1>2 DEF OpenKept, FilesKept, Kept

LEMMA ReturnOpen ==
  ASSUME Kept, NEW at, At(at), Return, ~Reads(Top), files' = files, mounted' = mounted
  PROVE  OpenKept' /\ FilesKept'
<1>1. Owned(Front(stack), files, mounted)
  BY AtFacts, OwnedReturn
<1>2. QED
  BY <1>1 DEF Return, OpenKept, FilesKept, Kept

LEMMA RefusedNests ==
  ASSUME Kept, NEW pc \in {"mount", "mounting"}, At(pc), Refused, devices' = devices
  PROVE  Nested' /\ (files' = files /\ mounted' = mounted => OpenKept' /\ FilesKept')
<1>1. FrameOK(Top) /\ Top.pc = pc /\ ~Reads(Top)
  BY AtFacts DEF Reads
<1>2. CASE Top.task = "register" /\ Goto("partition")
  <2>1. FrameOK([Top EXCEPT !.pc = "partition"]) /\ Waits([Top EXCEPT !.pc = "partition"])
        /\ "partition" \in Places
    BY <1>1, <1>2, GotoOK DEF Places
  <2>2. QED
    BY <1>1, <1>2, <2>1, GotoNests, GotoOpen
<1>3. CASE Return
  BY <1>1, <1>3, ReturnNests, ReturnOpen
<1>4. QED
  BY <1>2, <1>3 DEF Refused

LEMMA MountStartKeeps ==
  ASSUME Kept, MountStart
  PROVE  Kept'
<1>0. At("mount")
  BY DEF MountStart
<1>1. FrameOK(Top) /\ Top.pc = "mount" /\ Top.part \in Parts /\ halt = "no" /\ started = NotStarted
  BY <1>0, AtFacts DEF FrameOK, HasPart
<1>2. Released("FAT", fatPart) \in Parts \cup {NoPart} /\ Released("WFS", wfsPart) \in Parts \cup {NoPart}
  BY ReleasedTyped DEF Kept, Typed
<1>3. /\ files' = NoFiles /\ mounted' = NoPart /\ devices' = devices
      /\ {fatPart', wfsPart'} \subseteq Parts \cup {NoPart}
      /\ consumed' = consumed /\ hook' = hook
  BY <1>1, <1>2 DEF MountStart, cfgVars
<1>4. Listed' /\ Counted'
  BY MenuSame DEF MountStart
<1>5. FilesKept' /\ OpenKept'
  BY <1>3, NothingOpen
<1>6. \/ Stop("assert") /\ registered' = registered
      \/ Refused /\ Running
      \/ Goto("mounting") /\ Running
  BY DEF MountStart
<1>7. CASE Stop("assert") /\ registered' = registered
  <2>1. Nested'
    BY <1>3, <1>7, StackedNone, StorageAssumption DEF Stop, Nested, Kept
  <2>2. Typed'
    BY <1>3, <1>7 DEF Stop, Typed, Kept
  <2>3. QED
    BY <1>4, <1>5, <2>1, <2>2 DEF Kept
<1>8. CASE Refused /\ Running
  <2>1. Nested'
    BY <1>0, <1>3, <1>8, RefusedNests
  <2>2. Typed'
    BY <1>3, <1>8 DEF Running, Typed, Kept
  <2>3. QED
    BY <1>4, <1>5, <2>1, <2>2 DEF Kept
<1>9. CASE Goto("mounting") /\ Running
  <2>1. Nested'
    <3>1. FrameOK([Top EXCEPT !.pc = "mounting"]) /\ "mounting" \in Places
      BY <1>1, GotoOK DEF Places
    <3>2. QED
      BY <1>0, <1>3, <1>9, <3>1, GotoNests
  <2>2. Typed'
    BY <1>3, <1>9 DEF Running, Typed, Kept
  <2>3. QED
    BY <1>4, <1>5, <2>1, <2>2 DEF Kept
<1>10. QED
  BY <1>6, <1>7, <1>8, <1>9

LEMMA MountEndKeeps ==
  ASSUME Kept, MountEnd
  PROVE  Kept'
<1>0. At("mounting") /\ devices' = devices /\ files' = files /\ Running
  BY DEF MountEnd
<1>1. FrameOK(Top) /\ Top.pc = "mounting" /\ Top.part \in Parts /\ ~Reads(Top)
      /\ Top.task # "unregister"
  BY <1>0, AtFacts DEF FrameOK, HasPart, Reads, PlaceOK
<1>2. files = NoFiles
  BY <1>0, AtFacts, OwnedMounting
<1>3. FilesKept' /\ OpenKept'
  BY <1>0, <1>2, NothingOpen
<1>4. Listed' /\ Counted'
  BY MenuSame DEF MountEnd
<1>5. Typed'
  BY <1>0, <1>1 DEF MountEnd, Running, Typed, Kept, cfgVars
<1>6. Nested'
  <2>1. CASE Refused
    BY <1>0, <2>1, RefusedNests
  <2>2. CASE AfterMount
    <3>1. ASSUME NEW pc \in Places, Goto(pc),
                 \/ pc = "npll" /\ Top.task = "register"
                 \/ pc = "open" /\ Top.task = "boot"
                 \/ pc = "write" /\ Top.task = "shot"
          PROVE  Nested'
      <4>1. FrameOK([Top EXCEPT !.pc = pc])
        BY <1>1, <3>1, GotoOK
      <4>2. QED
        BY <1>0, <3>1, <4>1, GotoNests
    <3>2. CASE Return
      BY <1>0, <3>2, ReturnNests
    <3>3. \/ Top.task = "register" /\ Goto("npll")
          \/ Top.task = "boot" /\ Goto("open")
          \/ Top.task = "shot" /\ Goto("write")
          \/ Return
      BY <2>2 DEF AfterMount
    <3>4. "npll" \in Places /\ "open" \in Places /\ "write" \in Places
      BY DEF Places
    <3>5. QED
      BY <3>1, <3>2, <3>3, <3>4
  <2>3. QED
    BY <2>1, <2>2 DEF MountEnd
<1>7. QED
  BY <1>3, <1>4, <1>5, <1>6 DEF Kept

LEMMA NothingMountedKeeps ==
  ASSUME Kept, NothingMounted
  PROVE  Kept'
<1>1. Listed' /\ Counted'
  BY MenuSame DEF NothingMounted
<1>2. Nested'
  BY StackedNone, StorageAssumption DEF NothingMounted, Stop, Nested, Kept
<1>3. OpenKept' /\ FilesKept' /\ Typed'
  BY DEF NothingMounted, Stop, OpenKept, FilesKept, Typed, Kept, fsVars, cfgVars
<1>4. QED
  BY <1>1, <1>2, <1>3 DEF Kept

LEMMA ContinueOpen ==
  ASSUME Kept, NEW at, At(at), NEW f \in FrameType, Waits(f), Continue(f), ~Reads(Top),
         files' = files, mounted' = mounted
  PROVE  OpenKept' /\ FilesKept'
<1>1. Owned(Append(Front(stack), f), files, mounted)
  BY AtFacts, OwnedContinue
<1>2. QED
  BY <1>1 DEF OpenKept, FilesKept, Kept, Continue

LEMMA ProbePartitionKeeps ==
  ASSUME Kept, ProbePartition
  PROVE  Kept'
<1>0. At("partition") /\ devices' = devices /\ files' = files /\ mounted' = mounted /\ Running
  BY DEF ProbePartition
<1>1. /\ FrameOK(Top) /\ Top \in FrameType /\ Top.pc = "partition" /\ ~Reads(Top)
      /\ Top.task = "register" /\ Top.rest \in Seq(Parts) /\ Top.cb \in Devices
      /\ Top.found = <<>>
  BY <1>0, AtFacts DEF FrameOK, Reads, PlaceOK
<1>2. Listed' /\ Counted'
  BY MenuSame DEF ProbePartition
<1>3. CASE Top.rest = <<>> /\ Return /\ UNCHANGED wfsPart
  <2>1. Nested' /\ OpenKept' /\ FilesKept'
    BY <1>0, <1>1, <1>3, ReturnNests, ReturnOpen
  <2>2. Typed'
    BY <1>0, <1>3 DEF ProbePartition, Running, Typed, Kept, cfgVars
  <2>3. QED
    BY <1>2, <2>1, <2>2 DEF Kept
<1>4. CASE Top.rest # <<>>
  <2> DEFINE p == Head(Top.rest)
             r == Tail(Top.rest)
             f == [Top EXCEPT !.rest = r]
             g == [f EXCEPT !.part = p, !.pc = "mount"]
  <2>1. p \in Parts /\ r \in Seq(Parts) /\ r \in Seq(Parts \cup {"self"})
    BY <1>1, <1>4, HeadTailProperties, SeqMonotonic
  <2>2. /\ (Recognises(p) /\ wfsPart' = WfsAfterProbe(p) /\ Continue(g))
           \/ (Continue(f) /\ UNCHANGED wfsPart)
    BY <1>4 DEF ProbePartition
  <2>3. wfsPart' \in Parts \cup {NoPart}
    BY <2>1, <2>2 DEF WfsAfterProbe, Kept, Typed
  <2> HIDE DEF p, r
  <2>4. /\ f \in FrameType /\ f.cb = Top.cb /\ f.pc = "partition" /\ f.task = "register"
        /\ f.rest = r /\ f.found = <<>> /\ f.part = Top.part
    BY <1>1, <2>1 DEF FrameType
  <2> HIDE DEF f
  <2>5. /\ g \in FrameType /\ g.cb = Top.cb /\ g.pc = "mount" /\ g.task = "register"
        /\ g.rest = r /\ g.found = <<>> /\ g.part = p
    BY <2>1, <2>4 DEF FrameType, Places
  <2> HIDE DEF g
  <2>6. \A i \in 1..Len(<<>>) : FALSE
    BY EmptySeq
  <2>7. FrameOK(f) /\ Waits(f)
    BY <1>1, <2>1, <2>4, <2>6 DEF FrameOK, PlaceOK, Reads, HasPart, Waits
  <2>8. FrameOK(g) /\ Waits(g)
    BY <1>1, <2>1, <2>5, <2>6 DEF FrameOK, PlaceOK, Reads, HasPart, Waits
  <2>9. Nested' /\ OpenKept' /\ FilesKept'
    BY <1>0, <1>1, <2>2, <2>4, <2>5, <2>7, <2>8, ContinueNests, ContinueOpen
  <2>10. Typed'
    BY <1>0, <2>3 DEF ProbePartition, Running, Typed, Kept, cfgVars
  <2>11. QED
    BY <1>2, <2>9, <2>10 DEF Kept
<1>5. QED
  BY <1>3, <1>4 DEF ProbePartition

LEMMA FS_UnmountTyped ==
  ASSUME Kept, FS_Unmount
  PROVE  /\ files' = NoFiles /\ mounted' = NoPart
         /\ {fatPart', wfsPart'} \subseteq Parts \cup {NoPart}
  BY ReleasedTyped DEF FS_Unmount, Kept, Typed

LEMMA UnmountPartitionKeeps ==
  ASSUME Kept, UnmountPartition
  PROVE  Kept'
<1>0. At("unmount") /\ devices' = devices /\ Goto("delpart") /\ Running /\ Top.rest # <<>>
      /\ consumed' = consumed /\ hook' = hook
  BY DEF UnmountPartition, cfgVars
<1>1. FrameOK(Top) /\ Top.pc = "unmount"
  BY <1>0, AtFacts
<1>2. /\ FrameOK([Top EXCEPT !.pc = "delpart"]) /\ Waits([Top EXCEPT !.pc = "delpart"])
      /\ ~Reads(Top) /\ "delpart" \in Places
  BY <1>0, <1>1, GotoOK DEF Places
<1>3. Nested'
  BY <1>0, <1>2, GotoNests
<1>4. Listed' /\ Counted'
  BY MenuSame DEF UnmountPartition
<1>5. CASE FS_Unmount
  <2>1. FilesKept' /\ OpenKept'
    BY <1>5, FS_UnmountTyped, NothingOpen
  <2>2. Typed'
    BY <1>0, <1>5, FS_UnmountTyped DEF Running, Typed, Kept
  <2>3. QED
    BY <1>3, <1>4, <2>1, <2>2 DEF Kept
<1>6. CASE UNCHANGED fsVars
  <2>1. FilesKept' /\ OpenKept'
    BY <1>0, <1>2, <1>6, GotoOpen DEF fsVars
  <2>2. Typed'
    BY <1>0, <1>6 DEF Running, Typed, Kept, fsVars
  <2>3. QED
    BY <1>3, <1>4, <2>1, <2>2 DEF Kept
<1>7. QED
  BY <1>5, <1>6 DEF UnmountPartition

LEMMA RemoveDeviceKeeps ==
  ASSUME Kept, RemoveDevice
  PROVE  Kept'
<1>0. /\ At("unmount") /\ devices' = devices \ {Top.cb} /\ Return /\ Running
      /\ files' = files /\ mounted' = mounted
  BY DEF RemoveDevice, fsVars
<1>1. FrameOK(Top) /\ Top.pc = "unmount" /\ ~Reads(Top) /\ Top.task = "unregister" /\ Top.cb \in Devices
  BY <1>0, AtFacts DEF FrameOK, PlaceOK, Reads
<1>2. /\ Stacked(Front(stack), devices') /\ Len(Front(stack)) = Len(stack) - 1
      /\ Len(stack) \in Nat
  BY <1>0, AtFacts, StackedReturn
<1>3. registered' \subseteq devices'
  BY <1>0, <1>1 DEF Return, Kept, Nested
<1>4. Nested'
  BY <1>0, <1>2, <1>3, StorageAssumption DEF Return, Kept, Nested
<1>5. FilesKept' /\ OpenKept'
  BY <1>0, <1>1, ReturnOpen
<1>6. Listed' /\ Counted'
  BY MenuSame DEF RemoveDevice
<1>7. Typed'
  BY <1>0 DEF RemoveDevice, Running, Typed, Kept, fsVars, cfgVars
<1>8. QED
  BY <1>4, <1>5, <1>6, <1>7 DEF Kept

LEMMA OpensOpen ==
  ASSUME Kept, NEW at, At(at), ~Reads(Top), NEW fd \in 1..Slots, Opens(fd),
         mounted # NoPart, mounted' = mounted,
         NEW f \in FrameType, Reads(f), f.fd = fd, Continue(f),
         f.pc = "npllRead" => Npll[mounted] # Absent,
         f.pc = "gumbootRead" => Gumboot[mounted] # Absent
  PROVE  OpenKept' /\ FilesKept'
<1>1. files' = [files EXCEPT ![fd] = mounted] /\ files[fd] = Free /\ mounted \in Parts
  BY DEF Opens, FreeSlots, Kept, Typed
<1>2. Owned(Append(Front(stack), f), [files EXCEPT ![fd] = mounted], mounted)
  BY <1>1, AtFacts, OwnedOpens
<1>3. OpenKept'
  BY <1>1, <1>2 DEF OpenKept, Continue
<1>4. FilesKept'
  BY <1>1 DEF Kept, FilesKept
<1>5. QED
  BY <1>3, <1>4

LEMMA ClosesOpen ==
  ASSUME Kept, NEW at, At(at), Reads(Top), FS_Close(Top.fd), mounted' = mounted,
         Return \/ \E f \in FrameType : Waits(f) /\ Continue(f)
  PROVE  OpenKept' /\ FilesKept'
<1>1. Top.fd \in 1..Slots /\ files' = [files EXCEPT ![Top.fd] = Free]
  BY AtFacts DEF FS_Close, FrameOK
<1>2. /\ Owned(Front(stack), files', mounted)
      /\ \A f \in FrameType : Waits(f) => Owned(Append(Front(stack), f), files', mounted)
  BY <1>1, AtFacts, OwnedCloses
<1>3. OpenKept'
  BY <1>1, <1>2 DEF OpenKept, Return, Continue
<1>4. FilesKept'
  BY <1>1 DEF Kept, FilesKept, Free
<1>5. QED
  BY <1>3, <1>4

LEMMA OpenNpllKeeps ==
  ASSUME Kept, OpenNpll
  PROVE  Kept'
<1>0. /\ At("npll") /\ mounted # NoPart /\ devices' = devices /\ mounted' = mounted /\ Running
      /\ {fatPart', wfsPart'} = {fatPart, wfsPart} /\ consumed' = consumed /\ hook' = hook
  BY DEF OpenNpll, cfgVars
<1>1. /\ FrameOK(Top) /\ Top \in FrameType /\ Top.pc = "npll" /\ ~Reads(Top)
      /\ Top.task = "register" /\ Top.part \in Parts /\ Top.found = <<>>
  BY <1>0, AtFacts DEF FrameOK, Reads, PlaceOK, HasPart
<1>2. Listed' /\ Counted'
  BY MenuSame DEF OpenNpll
<1>3. Typed'
  BY <1>0 DEF Running, Typed, Kept
<1>4. \A i \in 1..Len(<<>>) : FALSE
  BY EmptySeq
<1>5. CASE Npll[mounted] # Absent /\ \E s \in 1..Slots : Opens(s) /\
             Continue([Top EXCEPT !.first = ~consumed, !.fd = s, !.pc = "npllRead"])
  <2>1. PICK s \in 1..Slots :
           Opens(s) /\ Continue([Top EXCEPT !.first = ~consumed, !.fd = s, !.pc = "npllRead"])
    BY <1>5
  <2> DEFINE first == ~consumed
             f == [Top EXCEPT !.first = first, !.fd = s, !.pc = "npllRead"]
  <2>2. first \in BOOLEAN
    BY DEF Kept, Typed
  <2> HIDE DEF first
  <2>3. s \in Nat
    BY StorageAssumption
  <2>4. /\ f \in FrameType /\ f.cb = Top.cb /\ f.pc = "npllRead" /\ f.task = Top.task /\ f.fd = s
        /\ f.rest = Top.rest /\ f.found = Top.found /\ f.part = Top.part
    BY <1>1, <2>2, <2>3 DEF FrameType, Places
  <2>5. Continue(f)
    BY <2>1 DEF first
  <2> HIDE DEF f
  <2>6. FrameOK(f) /\ Reads(f)
    BY <1>1, <1>4, <2>4 DEF FrameOK, PlaceOK, Reads, HasPart
  <2>7. Nested'
    BY <1>0, <2>4, <2>5, <2>6, ContinueNests
  <2>8. OpenKept' /\ FilesKept'
    BY <1>0, <1>1, <1>5, <2>1, <2>4, <2>5, <2>6, OpensOpen
  <2>9. QED
    BY <1>2, <1>3, <2>7, <2>8 DEF Kept
<1>6. CASE UNCHANGED files /\ Continue([Top EXCEPT !.first = FALSE, !.pc = "gumboot"])
  <2> DEFINE f == [Top EXCEPT !.first = FALSE, !.pc = "gumboot"]
  <2>1. /\ f \in FrameType /\ f.cb = Top.cb /\ f.pc = "gumboot" /\ f.task = Top.task
        /\ f.rest = Top.rest /\ f.found = Top.found /\ f.part = Top.part
    BY <1>1 DEF FrameType, Places
  <2>2. Continue(f)
    BY <1>6
  <2> HIDE DEF f
  <2>3. FrameOK(f) /\ Waits(f)
    BY <1>1, <1>4, <2>1 DEF FrameOK, PlaceOK, Reads, HasPart, Waits
  <2>4. Nested' /\ OpenKept' /\ FilesKept'
    BY <1>0, <1>1, <1>6, <2>1, <2>2, <2>3, ContinueNests, ContinueOpen
  <2>5. QED
    BY <1>2, <1>3, <2>4 DEF Kept
<1>7. QED
  BY <1>5, <1>6 DEF OpenNpll

LEMMA OpenGumbootKeeps ==
  ASSUME Kept, OpenGumboot
  PROVE  Kept'
<1>0. /\ At("gumboot") /\ mounted # NoPart /\ devices' = devices /\ mounted' = mounted /\ Running
      /\ {fatPart', wfsPart'} = {fatPart, wfsPart} /\ consumed' = consumed /\ hook' = hook
  BY DEF OpenGumboot, cfgVars
<1>1. /\ FrameOK(Top) /\ Top \in FrameType /\ Top.pc = "gumboot" /\ ~Reads(Top)
      /\ Top.task = "register" /\ Top.part \in Parts
  BY <1>0, AtFacts DEF FrameOK, Reads, PlaceOK, HasPart
<1>2. Listed' /\ Counted'
  BY MenuSame DEF OpenGumboot
<1>3. Typed'
  BY <1>0 DEF Running, Typed, Kept
<1>5. CASE Gumboot[mounted] # Absent /\ \E s \in 1..Slots : Opens(s) /\
             Continue([Top EXCEPT !.fd = s, !.pc = "gumbootRead"])
  <2>1. PICK s \in 1..Slots :
           Opens(s) /\ Continue([Top EXCEPT !.fd = s, !.pc = "gumbootRead"])
    BY <1>5
  <2> DEFINE f == [Top EXCEPT !.fd = s, !.pc = "gumbootRead"]
  <2>3. s \in Nat
    BY StorageAssumption
  <2>4. /\ f \in FrameType /\ f.cb = Top.cb /\ f.pc = "gumbootRead" /\ f.task = Top.task /\ f.fd = s
        /\ f.rest = Top.rest /\ f.found = Top.found /\ f.part = Top.part
    BY <1>1, <2>3 DEF FrameType, Places
  <2>5. Continue(f)
    BY <2>1
  <2> HIDE DEF f
  <2>6. FrameOK(f) /\ Reads(f)
    BY <1>1, <2>4 DEF FrameOK, PlaceOK, Reads, HasPart
  <2>7. Nested'
    BY <1>0, <2>4, <2>5, <2>6, ContinueNests
  <2>8. OpenKept' /\ FilesKept'
    BY <1>0, <1>1, <1>5, <2>1, <2>4, <2>5, <2>6, OpensOpen
  <2>9. QED
    BY <1>2, <1>3, <2>7, <2>8 DEF Kept
<1>6. CASE UNCHANGED files /\ Goto("add")
  <2>1. /\ FrameOK([Top EXCEPT !.pc = "add"]) /\ Waits([Top EXCEPT !.pc = "add"])
        /\ "add" \in Places
    BY <1>1, GotoOK DEF Places
  <2>2. Nested' /\ OpenKept' /\ FilesKept'
    BY <1>0, <1>1, <1>6, <2>1, GotoNests, GotoOpen
  <2>3. QED
    BY <1>2, <1>3, <2>2 DEF Kept
<1>7. QED
  BY <1>5, <1>6 DEF OpenGumboot

LEMMA ReadNpllKeeps ==
  ASSUME Kept, ReadNpll
  PROVE  Kept'
<1>0. /\ At("npllRead") /\ mounted # NoPart /\ devices' = devices /\ mounted' = mounted /\ Running
      /\ {fatPart', wfsPart'} = {fatPart, wfsPart} /\ hook' = hook /\ FS_Close(Top.fd)
  BY DEF ReadNpll
<1>1. /\ FrameOK(Top) /\ Top \in FrameType /\ Top.pc = "npllRead" /\ Reads(Top)
      /\ Top.task = "register" /\ Top.part \in Parts /\ Top.fd \in 1..Slots
      /\ mounted \in Parts
  BY <1>0, AtFacts DEF FrameOK, Reads, PlaceOK, HasPart, Kept, Typed
<1>2. Listed' /\ Counted'
  BY MenuSame DEF ReadNpll
<1>3. Typed'
  BY <1>0 DEF ReadNpll, ProbeFails, Running, Typed, Kept, cfgVars
<1>4. CASE ProbeFails
  <2>1. Nested' /\ OpenKept' /\ FilesKept'
    BY <1>0, <1>1, <1>4, ReturnNests, ClosesOpen DEF ProbeFails
  <2>2. QED
    BY <1>2, <1>3, <2>1 DEF Kept
<1>5. CASE ~ProbeFails
  <2> DEFINE cfg == Npll[mounted]
             es == EntriesOf("npll", mounted, Top.part)
             gl == IF Top.first THEN [timeout |-> cfg.timeout, default |-> cfg.default]
                                ELSE NoGlobals
             f == [Top EXCEPT !.pc = "gumboot", !.found = es, !.globals = gl]
  <2>1. Valid(Top.fd) /\ Continue(f)
    BY <1>5 DEF ReadNpll
  <2>2. ConfigFile("npll", mounted) = cfg /\ cfg # Absent /\ "npll" \in {"npll", "gumboot"}
    BY <1>0, <1>1, <2>1, AtFacts, OwnedReading DEF Valid, ConfigFile
  <2>3. cfg.timeout \in Int /\ cfg.default \in Nat
    BY <1>1, <2>2, ConfigRead
  <2>4. es \in Seq(Known) /\ \A i \in 1..Len(es) : es[i].owner = Top.part
    BY <1>1, <2>2, EntriesRead
  <2>5. gl \in [timeout : Int, default : Nat]
    BY <2>3 DEF NoGlobals
  <2> HIDE DEF gl, es, cfg
  <2>6. /\ f \in FrameType /\ f.cb = Top.cb /\ f.pc = "gumboot" /\ f.task = Top.task
        /\ f.rest = Top.rest /\ f.found = es /\ f.part = Top.part
    BY <1>1, <2>4, <2>5 DEF FrameType, Places
  <2> HIDE DEF f
  <2>7. FrameOK(f) /\ Waits(f)
    BY <1>1, <2>4, <2>6 DEF FrameOK, PlaceOK, Reads, HasPart, Waits
  <2>8. Nested' /\ OpenKept' /\ FilesKept'
    BY <1>0, <1>1, <2>1, <2>6, <2>7, ContinueNests, ClosesOpen
  <2>9. QED
    BY <1>2, <1>3, <2>8 DEF Kept
<1>6. QED
  BY <1>4, <1>5

LEMMA ReadGumbootKeeps ==
  ASSUME Kept, ReadGumboot
  PROVE  Kept'
<1>0. /\ At("gumbootRead") /\ mounted # NoPart /\ devices' = devices /\ mounted' = mounted /\ Running
      /\ {fatPart', wfsPart'} = {fatPart, wfsPart} /\ hook' = hook /\ FS_Close(Top.fd)
      /\ consumed' = consumed
  BY DEF ReadGumboot, ProbeFails, cfgVars
<1>1. /\ FrameOK(Top) /\ Top \in FrameType /\ Top.pc = "gumbootRead" /\ Reads(Top)
      /\ Top.task = "register" /\ Top.part \in Parts /\ Top.fd \in 1..Slots
      /\ mounted \in Parts
  BY <1>0, AtFacts DEF FrameOK, Reads, PlaceOK, HasPart, Kept, Typed
<1>2. Listed' /\ Counted'
  BY MenuSame DEF ReadGumboot
<1>3. Typed'
  BY <1>0 DEF Running, Typed, Kept
<1>4. CASE ProbeFails
  <2>1. Nested' /\ OpenKept' /\ FilesKept'
    BY <1>0, <1>1, <1>4, ReturnNests, ClosesOpen DEF ProbeFails
  <2>2. QED
    BY <1>2, <1>3, <2>1 DEF Kept
<1>5. CASE ~ProbeFails
  <2> DEFINE cfg == Gumboot[mounted]
             es == EntriesOf("gumboot", mounted, Top.part)
             all == Top.found \o es
             gl == GumbootGlobals(cfg)
             f == [Top EXCEPT !.pc = "add", !.found = all, !.globals = gl]
  <2>1. Valid(Top.fd) /\ Continue(f)
    BY <1>5 DEF ReadGumboot
  <2>2. ConfigFile("gumboot", mounted) = cfg /\ cfg # Absent /\ "gumboot" \in {"npll", "gumboot"}
    BY <1>0, <1>1, <2>1, AtFacts, OwnedReading DEF Valid, ConfigFile
  <2>3. cfg.timeout \in Int /\ cfg.default \in Nat
    BY <1>1, <2>2, ConfigRead
  <2>4. es \in Seq(Known) /\ \A i \in 1..Len(es) : es[i].owner = Top.part
    BY <1>1, <2>2, EntriesRead
  <2>5. gl \in [timeout : Int, default : Nat]
    BY <1>1, <2>3 DEF GumbootGlobals, FrameType
  <2> HIDE DEF gl, cfg
  <2>6. all \in Seq(Known) /\ \A i \in 1..Len(all) : all[i].owner = Top.part
    <3> DEFINE a == Top.found
    <3>1. a \in Seq(Known) /\ \A i \in 1..Len(a) : a[i].owner = Top.part
      BY <1>1 DEF FrameOK, FrameType
    <3> HIDE DEF a, es
    <3>2. /\ a \o es \in Seq(Known) /\ Len(a) \in Nat /\ Len(es) \in Nat
          /\ Len(a \o es) = Len(a) + Len(es)
          /\ \A i \in 1..(Len(a) + Len(es)) : (a \o es)[i] = IF i <= Len(a) THEN a[i] ELSE es[i - Len(a)]
      BY <2>4, <3>1, ConcatProperties, LenProperties
    <3>3. \A i \in 1..(Len(a) + Len(es)) : i \in 1..Len(a) \/ (~(i <= Len(a)) /\ i - Len(a) \in 1..Len(es))
      BY <3>2
    <3>4. \A i \in 1..Len(a \o es) : (a \o es)[i].owner = Top.part
      BY <2>4, <3>1, <3>2, <3>3
    <3>5. QED
      BY <3>2, <3>4 DEF a
  <2> HIDE DEF all, es
  <2>7. /\ f \in FrameType /\ f.cb = Top.cb /\ f.pc = "add" /\ f.task = Top.task
        /\ f.rest = Top.rest /\ f.found = all /\ f.part = Top.part
    BY <1>1, <2>5, <2>6 DEF FrameType, Places
  <2> HIDE DEF f
  <2>8. FrameOK(f) /\ Waits(f)
    BY <1>1, <2>6, <2>7 DEF FrameOK, PlaceOK, Reads, HasPart, Waits
  <2>9. Nested' /\ OpenKept' /\ FilesKept'
    BY <1>0, <1>1, <2>1, <2>7, <2>8, ContinueNests, ClosesOpen
  <2>10. QED
    BY <1>2, <1>3, <2>9 DEF Kept
<1>6. QED
  BY <1>4, <1>5

LEMMA AddedToMenu ==
  ASSUME Kept, NEW p \in Parts, NEW es \in Seq(Known), \A i \in 1..Len(es) : es[i].owner = p,
         parts' = Append(parts, [owner |-> p, entries |-> es]), rootMenu' = es \o rootMenu
  PROVE  /\ Listed' /\ rootMenu' \in Seq(Known) /\ Len(rootMenu') = Len(es) + Len(rootMenu)
         /\ Len(es) \in Nat /\ Len(rootMenu) \in Nat
<1> DEFINE r == [owner |-> p, entries |-> es]
<1>1. r \in PartRecord /\ r.owner = p /\ r.entries = es
  BY DEF PartRecord
<1>2. parts \in Seq(PartRecord) /\ rootMenu \in Seq(Known) /\ rootMenu = Blocks(parts)
  BY DEF Kept, Listed, MenuInStep
<1> HIDE DEF r
<1>3. /\ parts' \in Seq(PartRecord) /\ Len(parts') = Len(parts) + 1 /\ Len(parts) \in Nat
      /\ parts'[Len(parts) + 1] = r /\ \A i \in 1..Len(parts) : parts'[i] = parts[i]
  BY <1>1, <1>2, AppendProperties, LenProperties DEF r
<1>4. Blocks(Append(parts, r)) = es \o Blocks(parts)
  BY <1>1, <1>2, BlocksAppend DEF PartRecord
<1>5. rootMenu' = Blocks(parts')
  BY <1>2, <1>4 DEF r
<1>6. rootMenu' \in Seq(Known) /\ Len(rootMenu') = Len(es) + Len(rootMenu)
      /\ Len(es) \in Nat /\ Len(rootMenu) \in Nat
  BY <1>2, ConcatProperties, LenProperties
<1>7. ASSUME NEW i \in 1..Len(parts')
      PROVE  \A j \in 1..Len(parts'[i].entries) : parts'[i].entries[j].owner = parts'[i].owner
  <2>1. CASE i \in 1..Len(parts)
    BY <1>3, <2>1 DEF Kept, Listed
  <2>2. CASE i = Len(parts) + 1
    BY <1>1, <1>3, <2>2
  <2>3. QED
    BY <1>3, <2>1, <2>2
<1>8. QED
  BY <1>3, <1>5, <1>6, <1>7 DEF Listed, MenuInStep

LEMMA AddPartKeeps ==
  ASSUME Kept, AddPart
  PROVE  Kept'
<1>0. /\ At("add") /\ devices' = devices /\ mounted' = mounted /\ files' = files /\ Running
      /\ fatPart' = fatPart /\ wfsPart' = wfsPart /\ hook' = hook /\ consumed' = consumed
  BY DEF AddPart, fsVars, cfgVars
<1>1. /\ FrameOK(Top) /\ Top \in FrameType /\ Top.pc = "add" /\ ~Reads(Top)
      /\ Top.task = "register" /\ Top.part \in Parts
  BY <1>0, AtFacts DEF FrameOK, Reads, PlaceOK, HasPart
<1>2. Typed'
  BY <1>0 DEF Running, Typed, Kept
<1>5. Return => Nested' /\ OpenKept' /\ FilesKept'
  BY <1>0, <1>1, ReturnNests, ReturnOpen
<1>6. Goto("bootNow") => Nested' /\ OpenKept' /\ FilesKept'
  <2>1. /\ FrameOK([Top EXCEPT !.pc = "bootNow"]) /\ Waits([Top EXCEPT !.pc = "bootNow"])
        /\ "bootNow" \in Places
    BY <1>1, GotoOK DEF Places
  <2>2. QED
    BY <1>0, <1>1, <2>1, GotoNests, GotoOpen
<1>7. Return \/ Goto("bootNow")
  BY DEF AddPart
<1>8. Listed' /\ Counted'
  <2>1. CASE Top.found = <<>>
    BY <2>1, MenuSame DEF AddPart
  <2>2. CASE Top.found # <<>>
    <3> DEFINE es == Top.found
               d == Top.globals.default
    <3>1. es \in Seq(Known) /\ (\A i \in 1..Len(es) : es[i].owner = Top.part)
          /\ Top.globals.timeout \in Int /\ d \in Nat
      BY <1>1 DEF FrameOK, FrameType
    <3>2. /\ parts' = Append(parts, [owner |-> Top.part, entries |-> es])
          /\ rootMenu' = es \o rootMenu
      BY <2>2 DEF AddPart, Prepended
    <3>3. /\ Listed' /\ Len(rootMenu') = Len(es) + Len(rootMenu)
          /\ Len(es) \in Nat /\ Len(rootMenu) \in Nat
      <4> HIDE DEF es
      <4>1. QED
        BY <1>1, <3>1, <3>2, AddedToMenu
    <3>4. curMenu' = curMenu /\ input' = input /\ cut' = cut /\ slipped' = slipped
      BY <2>2 DEF AddPart, slips
    <3>5. Builtins \in Nat
      BY StorageAssumption
    <3>6. CASE MayAutoboot(Top)
      <4>1. /\ selected' = d /\ autoboot' = [autoboot EXCEPT !.active = TRUE, !.timeout = Top.globals.timeout]
            /\ ~autoboot.canceled /\ ~input.received /\ d < Len(es) /\ Top.globals.timeout >= 0
        BY <2>2, <3>6 DEF AddPart, MayAutoboot
      <4>2. autoboot' \in [active : BOOLEAN, canceled : BOOLEAN, timeout : Nat] /\ ~autoboot'.canceled
        <5> DEFINE t == Top.globals.timeout
        <5>1. t \in Nat /\ autoboot \in [active : BOOLEAN, canceled : BOOLEAN, timeout : Nat]
          BY <3>1, <4>1 DEF Kept, Counted
        <5>2. autoboot' = [autoboot EXCEPT !.active = TRUE, !.timeout = t] /\ ~autoboot.canceled
          BY <4>1
        <5> HIDE DEF t
        <5>3. QED
          BY <5>1, <5>2
      <4>3. curMenu = "root" /\ ~slipped
        BY <4>1 DEF Kept, Counted
      <4> HIDE DEF es, d
      <4>4. selected' < Len(rootMenu') /\ selected' \in Nat /\ selected' < Len(rootMenu') + 1 + Builtins
        BY <3>1, <3>3, <3>5, <4>1
      <4>5. SelectedInMenu' /\ AutobootTarget'
        BY <3>4, <4>2, <4>3, <4>4 DEF SelectedInMenu, NumEntries, AutobootTarget
      <4>6. QED
        BY <3>3, <3>4, <4>2, <4>3, <4>4, <4>5 DEF Kept, Counted
    <3>7. CASE ~MayAutoboot(Top)
      <4>1. selected' = selected /\ autoboot' = autoboot
        BY <2>2, <3>7 DEF AddPart
      <4> HIDE DEF es, d
      <4>2. selected \in Nat /\ SelectedInMenu /\ AutobootTarget
        BY DEF Kept, Counted
      <4>3. SelectedInMenu'
        BY <3>3, <3>4, <3>5, <4>1, <4>2 DEF SelectedInMenu, NumEntries
      <4>4. AutobootTarget'
        BY <3>3, <3>4, <4>1, <4>2 DEF AutobootTarget
      <4>5. QED
        BY <3>3, <3>4, <4>1, <4>3, <4>4 DEF Kept, Counted
    <3>8. QED
      BY <3>6, <3>7
  <2>3. QED
    BY <2>1, <2>2
<1>9. QED
  BY <1>2, <1>5, <1>6, <1>7, <1>8 DEF Kept

LEMMA TakenFromMenu ==
  ASSUME Kept, NEW p, parts' = WithoutOwner(parts, p), rootMenu' = WithoutOwner(rootMenu, p)
  PROVE  Listed'
<1>1. parts \in Seq(PartRecord) /\ rootMenu \in Seq(Known) /\ rootMenu = Blocks(parts)
  BY DEF Kept, Listed, MenuInStep
<1>2. /\ parts' \in Seq(PartRecord)
      /\ \A i \in 1..Len(parts') : \E j \in 1..Len(parts) : parts'[i] = parts[j]
  BY <1>1, WithoutKeeps
<1>3. rootMenu' \in Seq(Known)
  BY <1>1, WithoutKeeps
<1>4. \A i \in 1..Len(parts) : \A j \in 1..Len(parts[i].entries) :
        parts[i].entries[j].owner = parts[i].owner
  BY DEF Kept, Listed
<1>5. Blocks(WithoutOwner(parts, p)) = WithoutOwner(Blocks(parts), p)
  BY <1>1, <1>4, BlocksWithout DEF PartRecord
<1>6. rootMenu' = Blocks(parts')
  BY <1>1, <1>5
<1>7. ASSUME NEW i \in 1..Len(parts')
      PROVE  \A j \in 1..Len(parts'[i].entries) : parts'[i].entries[j].owner = parts'[i].owner
  <2>1. PICK k \in 1..Len(parts) : parts'[i] = parts[k]
    BY <1>2
  <2>2. QED
    BY <1>4, <2>1
<1>8. QED
  BY <1>2, <1>3, <1>6, <1>7 DEF Listed, MenuInStep

LEMMA DelPartKeeps ==
  ASSUME Kept, DelPart
  PROVE  Kept'
<1> DEFINE p == Head(Top.rest)
           r == Tail(Top.rest)
           f == [Top EXCEPT !.rest = r, !.pc = "unmount"]
<1>0. /\ At("delpart") /\ devices' = devices /\ mounted' = mounted /\ files' = files /\ Running
      /\ fatPart' = fatPart /\ wfsPart' = wfsPart /\ hook' = hook /\ consumed' = consumed
      /\ curMenu' = curMenu /\ input' = input /\ slipped' = slipped
  BY DEF DelPart, fsVars, cfgVars
<1>1. /\ FrameOK(Top) /\ Top \in FrameType /\ Top.pc = "delpart" /\ ~Reads(Top)
      /\ Top.task = "unregister" /\ Top.rest \in Seq(Parts) /\ Top.rest # <<>> /\ Top.cb \in Devices
  BY <1>0, AtFacts DEF FrameOK, Reads, PlaceOK
<1>2. r \in Seq(Parts) /\ r \in Seq(Parts \cup {"self"})
  BY <1>1, HeadTailProperties, SeqMonotonic
<1>3. /\ Canceled /\ parts' = WithoutOwner(parts, p) /\ rootMenu' = WithoutOwner(rootMenu, p)
      /\ selected' = Clamped(rootMenu') /\ Continue(f)
  BY DEF DelPart, Without
<1> HIDE DEF p, r
<1>4. /\ f \in FrameType /\ f.cb = Top.cb /\ f.pc = "unmount" /\ f.task = "unregister" /\ f.rest = r
  BY <1>1, <1>2 DEF FrameType, Places
<1> HIDE DEF f
<1>5. FrameOK(f) /\ Waits(f)
  BY <1>1, <1>2, <1>4 DEF FrameOK, PlaceOK, Reads, HasPart, Waits
<1>6. Nested' /\ OpenKept' /\ FilesKept'
  BY <1>0, <1>1, <1>3, <1>4, <1>5, ContinueNests, ContinueOpen
<1>7. Typed'
  BY <1>0 DEF Running, Typed, Kept
<1>8. Listed'
  BY <1>3, TakenFromMenu
<1>9. Counted'
  <2>1. Len(rootMenu') \in Nat /\ Builtins \in Nat
    BY <1>8, LenProperties, StorageAssumption DEF Listed
  <2>2. /\ selected \in Nat /\ SelectedInMenu /\ curMenu \in {"root", "sysinfo"}
        /\ cut' \in BOOLEAN
    BY DEF Kept, Counted, DelPart
  <2>3. CASE curMenu = "root"
    <3> DEFINE n == Len(rootMenu') + 1 + Builtins
    <3>1. n \in Nat /\ n >= 1 /\ NumEntries(rootMenu') = n
      BY <2>1, <2>3 DEF NumEntries
    <3> HIDE DEF n
    <3>4. selected' = IF rootMenu' # rootMenu /\ selected >= n THEN n - 1 ELSE selected
      BY <1>3, <2>3, <3>1 DEF Clamped
    <3>6. CASE rootMenu' = rootMenu
      <4>1. selected' = selected
        BY <3>4, <3>6
      <4>2. QED
        BY <1>0, <1>3, <2>2, <2>3, <3>6, <4>1 DEF Canceled, Kept, Counted, SelectedInMenu, NumEntries, AutobootTarget
    <3>5. rootMenu' # rootMenu => selected' \in Nat /\ selected' < n
      BY <2>2, <3>1, <3>4
    <3>2. rootMenu' # rootMenu => selected' \in Nat /\ selected' < Len(rootMenu') + 1 + Builtins
      BY <3>5 DEF n
    <3>3. QED
      BY <3>6, <1>0, <1>3, <2>2, <2>3, <3>2 DEF Canceled, Kept, Counted, SelectedInMenu, NumEntries, AutobootTarget
  <2>4. CASE curMenu = "sysinfo"
    <3>1. selected' = selected
      BY <1>3, <2>4 DEF Clamped
    <3>2. QED
      BY <1>0, <1>3, <2>2, <2>4, <3>1 DEF Canceled, Kept, Counted, SelectedInMenu, NumEntries, AutobootTarget
  <2>5. QED
    BY <2>2, <2>3, <2>4
<1>10. QED
  BY <1>6, <1>7, <1>8, <1>9 DEF Kept

\* The callback of an entry that is in the menu.
LEMMA BootFrameOK ==
  ASSUME NEW f \in FrameType, NEW e \in Known
  PROVE  /\ FrameOK(BootFrame(f, e)) /\ Waits(BootFrame(f, e)) /\ BootFrame(f, e) \in FrameType
         /\ BootFrame(f, e).cb = f.cb /\ BootFrame(f, e).task = "boot"
         /\ BootFrame(f, e).entry = e /\ BootFrame(f, e).rest = What(e).paths
         /\ BootFrame(f, e).got = <<>>
         /\ BootFrame(f, e).pc = (IF What(e).paths = <<>> THEN "load" ELSE "resolve")
<1> DEFINE r == What(e).paths
           at == IF r = <<>> THEN "load" ELSE "resolve"
           g == [f EXCEPT !.task = "boot", !.entry = e, !.rest = r, !.got = <<>>, !.pc = at]
<1>1. r \in Seq(Parts \cup {"self"})
  BY WhatKnown DEF EntryType
<1>2. at \in Places /\ (at = "load" => r = <<>>) /\ (at # "load" => r # <<>> /\ at = "resolve")
  BY DEF Places
<1>3. BootFrame(f, e) = g
  BY DEF BootFrame
<1>4. <<>> \in Seq(Parts)
  BY EmptySeq
<1> HIDE DEF r, at
<1>5. /\ g \in FrameType /\ g.cb = f.cb /\ g.task = "boot" /\ g.pc = at /\ g.entry = e
      /\ g.rest = r /\ g.got = <<>>
  BY <1>1, <1>2, <1>4 DEF FrameType, Tasks
<1> HIDE DEF g
<1>6. FrameOK(g) /\ Waits(g)
  BY <1>2, <1>5 DEF FrameOK, PlaceOK, Reads, HasPart, Waits
<1>7. QED
  BY <1>3, <1>5, <1>6 DEF r, at

LEMMA SelectedEntry ==
  ASSUME Kept, selected < Len(rootMenu)
  PROVE  rootMenu[selected + 1] \in Known /\ selected + 1 \in 1..Len(rootMenu)
<1>1. rootMenu \in Seq(Known) /\ selected \in Nat /\ Len(rootMenu) \in Nat
  BY LenProperties DEF Kept, Listed, Counted
<1>2. selected + 1 \in 1..Len(rootMenu)
  BY <1>1
<1>3. QED
  BY <1>1, <1>2, ElementOfSeq

\* The menu after Select, which finds an entry of a configuration selected
\* unless the countdown was cancelled.
LEMMA SelectMenu ==
  ASSUME Kept, NEW f, NEW running, Select(f, running), UNCHANGED <<parts, rootMenu, cut, slipped>>,
         autoboot' \in [active : BOOLEAN, canceled : BOOLEAN, timeout : Nat],
         input' \in [pending : BOOLEAN, received : BOOLEAN],
         \/ autoboot'.canceled /\ ~autoboot'.active
         \/ autoboot' = autoboot /\ curMenu = "root" /\ selected < Len(rootMenu)
  PROVE  Listed' /\ Counted'
<1>0. rootMenu' = rootMenu /\ cut' = cut /\ slipped' = slipped
  OBVIOUS
<1>1. Listed'
  BY DEF Kept, Listed, MenuInStep
<1>2. /\ Len(rootMenu) \in Nat /\ Builtins \in Nat /\ selected \in Nat /\ SelectedInMenu
      /\ curMenu \in {"root", "sysinfo"} /\ cut \in BOOLEAN /\ slipped \in BOOLEAN
  BY LenProperties, StorageAssumption DEF Kept, Listed, Counted
<1>3. CASE autoboot' = autoboot /\ curMenu = "root" /\ selected < Len(rootMenu)
  <2>1. curMenu' = curMenu /\ selected' = selected
    BY <1>2, <1>3 DEF Select, NumEntries
  <2>2. SelectedInMenu' /\ AutobootTarget'
    BY <1>0, <1>3, <2>1 DEF Kept, Counted, SelectedInMenu, AutobootTarget, NumEntries
  <2>3. QED
    BY <1>0, <1>1, <1>2, <1>3, <2>1, <2>2 DEF Kept, Counted
<1>4. CASE autoboot'.canceled /\ ~autoboot'.active
  <2>1. AutobootTarget'
    BY <1>4 DEF AutobootTarget
  <2>2. ASSUME curMenu' \in {"root", "sysinfo"}, selected' \in Nat, SelectedInMenu'
        PROVE  Counted'
    BY <1>0, <1>2, <1>4, <2>1, <2>2 DEF Counted
  <2>3. CASE curMenu' = curMenu /\ selected' = selected
    <3>1. SelectedInMenu'
      BY <1>0, <1>2, <2>3 DEF SelectedInMenu, NumEntries
    <3>2. QED
      BY <1>1, <1>2, <2>2, <2>3, <3>1
  <2>4. CASE curMenu' = "sysinfo" /\ selected' = 0
    <3>1. SelectedInMenu'
      BY <2>4 DEF SelectedInMenu, NumEntries
    <3>2. QED
      BY <1>1, <2>2, <2>4, <3>1
  <2>5. CASE /\ curMenu' = "root"
             /\ selected' = IF selected < Len(rootMenu) + 1 + Builtins THEN selected
                            ELSE Len(rootMenu) + Builtins
    <3> DEFINE n == Len(rootMenu) + Builtins
    <3>1. n \in Nat /\ Len(rootMenu) + 1 + Builtins = n + 1
      BY <1>2
    <3>2. selected' = IF selected < n + 1 THEN selected ELSE n
      BY <2>5, <3>1
    <3> HIDE DEF n
    <3>3. selected' \in Nat /\ selected' < n + 1
      BY <1>2, <3>1, <3>2
    <3>4. SelectedInMenu'
      BY <1>0, <2>5, <3>1, <3>3 DEF SelectedInMenu, NumEntries
    <3>5. QED
      BY <1>1, <2>2, <2>5, <3>3, <3>4
  <2>6. QED
    BY <1>2, <2>3, <2>4, <2>5 DEF Select
<1>5. QED
  BY <1>3, <1>4

\* The menu's callback begins with frame g.
LEMMA MenuEnters ==
  ASSUME Kept, NEW cb \in {"ui", "autoboot"}, Callback(cb), NEW g, FrameOK(g), Waits(g), g.cb = cb,
         Enter(g), UNCHANGED <<devices, fsVars, halt, started, consumed, hook>>
  PROVE  Nested' /\ OpenKept' /\ FilesKept' /\ Typed'
<1>1. cb \notin Devices /\ g \in FrameType
  BY StorageAssumption DEF FrameOK
<1>2. stack' = Append(stack, g) /\ registered' = registered
  BY DEF Enter
<1>3. Nested' /\ Owned(Append(stack, g), files, mounted)
  BY <1>1, <1>2, EnterNests, OwnedEnter
<1>4. OpenKept' /\ FilesKept' /\ Typed'
  BY <1>2, <1>3 DEF Callback, Kept, OpenKept, FilesKept, Typed, fsVars
<1>5. QED
  BY <1>3, <1>4

LEMMA CountdownKeeps ==
  ASSUME Kept, Countdown
  PROVE  Kept'
<1> DEFINE g == Frame("autoboot", "count", "count")
<1>1. FrameOK(g) /\ Waits(g) /\ g.cb = "autoboot"
  <2>1. /\ "autoboot" \in Devices \cup {"ui", "autoboot"} /\ "count" \in Places /\ "count" \in Tasks
    BY DEF Places, Tasks
  <2>2. g \in FrameType /\ g.cb = "autoboot" /\ g.task = "count" /\ g.pc = "count"
    BY <2>1, NewFrame
  <2> HIDE DEF g
  <2>3. QED
    BY <2>2 DEF FrameOK, PlaceOK, Reads, HasPart, Waits
<1>2. /\ Callback("autoboot") /\ Enter(g)
      /\ UNCHANGED <<devices, fsVars, halt, started, consumed, hook>>
  BY DEF Countdown, Running, cfgVars
<1> HIDE DEF g
<1>3. Nested' /\ OpenKept' /\ FilesKept' /\ Typed'
  BY <1>1, <1>2, MenuEnters
<1>4. Listed' /\ Counted'
  BY MenuSame DEF Countdown
<1>5. QED
  BY <1>3, <1>4 DEF Kept

\* The countdown or UI_AddPart's call of it goes on or ends.
LEMMA CountingGoes ==
  ASSUME Kept, NEW at \in {"bootNow", "count"}, At(at),
         Return \/ Goto(IF at = "count" THEN "fire" ELSE "count"),
         UNCHANGED <<devices, fsVars, halt, started, consumed, hook>>
  PROVE  Nested' /\ OpenKept' /\ FilesKept' /\ Typed'
<1> DEFINE pc == IF at = "count" THEN "fire" ELSE "count"
<1>1. FrameOK(Top) /\ Top \in FrameType /\ Top.pc = at /\ ~Reads(Top)
  BY AtFacts DEF Reads
<1>2. files' = files /\ mounted' = mounted
  BY DEF fsVars
<1>3. Typed'
  BY DEF Kept, Typed, fsVars
<1>4. CASE Return
  BY <1>1, <1>2, <1>3, <1>4, ReturnNests, ReturnOpen
<1>5. CASE Goto(pc)
  <2>1. pc \in Places /\ pc # "mounting" /\ (at = "count" => pc = "fire") /\ (at = "bootNow" => pc = "count")
    BY DEF Places
  <2> HIDE DEF pc
  <2>2. FrameOK([Top EXCEPT !.pc = pc]) /\ Waits([Top EXCEPT !.pc = pc])
    BY <1>1, <2>1, GotoOK
  <2>3. QED
    BY <1>1, <1>2, <1>3, <1>5, <2>1, <2>2, GotoNests, GotoOpen
<1>6. QED
  BY <1>4, <1>5

LEMMA BootNowKeeps ==
  ASSUME Kept, BootNow
  PROVE  Kept'
<1>1. /\ At("bootNow") /\ (Return \/ Goto("count"))
      /\ UNCHANGED <<devices, fsVars, halt, started, consumed, hook>>
  BY DEF BootNow, Running, cfgVars
<1>2. Nested' /\ OpenKept' /\ FilesKept' /\ Typed'
  BY <1>1, CountingGoes
<1>3. Listed' /\ Counted'
  BY MenuSame DEF BootNow
<1>4. QED
  BY <1>2, <1>3 DEF Kept

LEMMA CountKeeps ==
  ASSUME Kept, Count
  PROVE  Kept'
<1>1. /\ At("count") /\ (Return \/ Goto("fire"))
      /\ UNCHANGED <<devices, fsVars, halt, started, consumed, hook>>
  BY DEF Count, Running, cfgVars
<1>2. Nested' /\ OpenKept' /\ FilesKept' /\ Typed'
  BY <1>1, CountingGoes
<1>3. UNCHANGED <<parts, rootMenu, curMenu, selected, input, cut, slipped>>
  BY DEF Count, slips
<1>4. Listed'
  BY <1>3 DEF Kept, Listed, MenuInStep
<1>5. autoboot \in [active : BOOLEAN, canceled : BOOLEAN, timeout : Nat]
  BY DEF Kept, Counted
<1>6. /\ autoboot' \in [active : BOOLEAN, canceled : BOOLEAN, timeout : Nat]
      /\ autoboot'.canceled = autoboot.canceled /\ (autoboot'.active => autoboot.active)
  <2>1. CASE autoboot.timeout > 1
    <3> DEFINE t == autoboot.timeout - 1
    <3>1. t \in Nat /\ autoboot' = [autoboot EXCEPT !.timeout = t]
      BY <1>5, <2>1 DEF Count
    <3> HIDE DEF t
    <3>2. autoboot' \in [active : BOOLEAN, canceled : BOOLEAN, timeout : Nat]
      BY <1>5, <3>1
    <3>3. autoboot'.canceled = autoboot.canceled /\ autoboot'.active = autoboot.active
      BY <1>5, <3>1
    <3>4. QED
      BY <3>2, <3>3
  <2>2. CASE ~(autoboot.timeout > 1)
    <3>1. autoboot' = [autoboot EXCEPT !.active = FALSE, !.timeout = 0]
      BY <2>2 DEF Count
    <3>2. autoboot' \in [active : BOOLEAN, canceled : BOOLEAN, timeout : Nat]
      BY <1>5, <3>1
    <3>3. autoboot'.canceled = autoboot.canceled /\ ~autoboot'.active
      BY <1>5, <3>1
    <3>4. QED
      BY <3>2, <3>3
  <2>3. QED
    BY <2>1, <2>2
<1>7. Counted'
  BY <1>3, <1>6 DEF Kept, Counted, SelectedInMenu, NumEntries, AutobootTarget
<1>8. QED
  BY <1>2, <1>4, <1>7 DEF Kept

\* What the countdown calls: with it not cancelled, an entry of a
\* configuration.
Aimed == autoboot.canceled \/ (curMenu = "root" /\ selected < Len(rootMenu))

LEMMA FireKeeps ==
  ASSUME Kept, Aimed, Fire
  PROVE  Kept'
<1>1. /\ At("fire") /\ Select(Top, TRUE)
      /\ UNCHANGED <<devices, fsVars, parts, rootMenu, autoboot, input, cut, slipped, started, consumed, hook>>
  BY DEF Fire, cfgVars, slips
<1>2. FrameOK(Top) /\ Top \in FrameType /\ Top.pc = "fire" /\ ~Reads(Top) /\ halt = "no"
      /\ started = NotStarted
  BY <1>1, AtFacts DEF Reads
<1>3. Listed' /\ Counted'
  <2>1. /\ autoboot' \in [active : BOOLEAN, canceled : BOOLEAN, timeout : Nat]
        /\ input' \in [pending : BOOLEAN, received : BOOLEAN]
        /\ autoboot' = autoboot /\ (autoboot'.canceled => ~autoboot'.active)
    BY <1>1 DEF Kept, Counted, AutobootTarget
  <2>2. \/ autoboot'.canceled /\ ~autoboot'.active
        \/ autoboot' = autoboot /\ curMenu = "root" /\ selected < Len(rootMenu)
    BY <2>1 DEF Aimed
  <2>3. QED
    BY <1>1, <2>1, <2>2, SelectMenu
<1>4. ASSUME halt' \in {"no", "wild", "left"}
      PROVE  Typed'
  BY <1>1, <1>2, <1>4 DEF Kept, Typed, fsVars
<1>5. files' = files /\ mounted' = mounted /\ devices' = devices
  BY <1>1 DEF fsVars
<1> DEFINE g == BootFrame(Top, rootMenu[selected + 1])
<1>6. \/ selected < Len(rootMenu) /\ Continue(g) /\ halt' = halt
      \/ Return /\ halt' \in {halt, "left"}
      \/ Stop("wild") /\ registered' = registered
  <2> HIDE DEF g
  <2>1. QED
    BY <1>1 DEF Select, g
<1>7. CASE selected < Len(rootMenu) /\ Continue(g) /\ halt' = halt
  <2>1. FrameOK(g) /\ Waits(g) /\ g \in FrameType /\ g.cb = Top.cb
    BY <1>2, <1>7, SelectedEntry, BootFrameOK
  <2> HIDE DEF g
  <2>2. Nested' /\ OpenKept' /\ FilesKept'
    BY <1>1, <1>2, <1>5, <1>7, <2>1, ContinueNests, ContinueOpen
  <2>3. QED
    BY <1>2, <1>3, <1>4, <1>7, <2>2 DEF Kept
<1>8. CASE Return /\ halt' \in {halt, "left"}
  <2>1. Nested' /\ OpenKept' /\ FilesKept'
    BY <1>1, <1>2, <1>5, <1>8, ReturnNests, ReturnOpen
  <2>2. QED
    BY <1>2, <1>3, <1>4, <1>8, <2>1 DEF Kept
<1>9. CASE Stop("wild") /\ registered' = registered
  <2>1. Nested'
    BY <1>5, <1>9, StackedNone, StorageAssumption DEF Stop, Nested, Kept
  <2>2. OpenKept' /\ FilesKept'
    BY <1>5, <1>9 DEF Stop, OpenKept, FilesKept, Kept
  <2>3. QED
    BY <1>3, <1>4, <1>9, <2>1, <2>2 DEF Stop, Kept
<1>10. QED
  BY <1>6, <1>7, <1>8, <1>9

\* The menu's callback is about to move the selection.
LEMMA WillSelectKeeps ==
  ASSUME Kept, Callback("ui"), NEW task \in {"move", "redraw"}, NEW n \in Nat, WillSelect(task, n),
         UNCHANGED <<devices, fsVars, halt, started, consumed, hook>>
  PROVE  Nested' /\ OpenKept' /\ FilesKept' /\ Typed'
<1> DEFINE f == Frame("ui", task, "store")
           g == [f EXCEPT !.to = n]
<1>1. f \in FrameType /\ f.cb = "ui" /\ f.task = task /\ f.pc = "store" /\ f.found = <<>>
  <2>1. "ui" \in Devices \cup {"ui", "autoboot"} /\ "store" \in Places /\ task \in Tasks
    BY DEF Places, Tasks
  <2>2. QED
    BY <2>1, NewFrame
<1>2. Enter(g)
  BY DEF WillSelect
<1> HIDE DEF f
<1>3. g \in FrameType /\ g.cb = "ui" /\ g.task = task /\ g.pc = "store"
  BY <1>1 DEF FrameType
<1> HIDE DEF g
<1>4. FrameOK(g) /\ Waits(g)
  BY <1>3 DEF FrameOK, PlaceOK, Reads, HasPart, Waits
<1>5. QED
  BY <1>2, <1>3, <1>4, MenuEnters

LEMMA UI_RedrawKeeps ==
  ASSUME Kept, UI_Redraw
  PROVE  Kept'
<1> DEFINE n == NumEntries(rootMenu) - 1
<1>1. n \in Nat
  BY LenProperties, StorageAssumption DEF Kept, Listed, NumEntries
<1>2. /\ Callback("ui") /\ WillSelect("redraw", n)
      /\ UNCHANGED <<devices, fsVars, halt, started, consumed, hook>>
  BY DEF UI_Redraw, Running, cfgVars
<1> HIDE DEF n
<1>3. Nested' /\ OpenKept' /\ FilesKept' /\ Typed'
  BY <1>1, <1>2, WillSelectKeeps
<1>4. Listed' /\ Counted'
  BY MenuSame DEF UI_Redraw
<1>5. QED
  BY <1>3, <1>4 DEF Kept

\* The movement that goes on: what it was compared with, and that a removal
\* in between is known.
StoreOK(f) ==
  /\ autoboot.canceled
  /\ cut \/ f.to < NumEntries(rootMenu) \/ (slipped /\ f.task = "move")

LEMMA StoreKeeps ==
  ASSUME Kept, StoreOK(Top), Store
  PROVE  Kept'
<1>1. /\ At("store") /\ Return
      /\ UNCHANGED <<devices, fsVars, parts, rootMenu, curMenu, autoboot, input, halt, started, consumed, hook>>
      /\ selected' = Top.to /\ cut' = FALSE /\ slipped' = (cut \/ (slipped /\ Top.task = "move"))
  BY DEF Store, Running, cfgVars
<1>2. FrameOK(Top) /\ Top \in FrameType /\ Top.pc = "store" /\ ~Reads(Top)
  BY <1>1, AtFacts DEF Reads
<1>3. Nested' /\ OpenKept' /\ FilesKept'
  BY <1>1, <1>2, ReturnNests, ReturnOpen DEF fsVars
<1>4. Typed'
  BY <1>1 DEF Kept, Typed, fsVars
<1>5. Listed'
  BY <1>1 DEF Kept, Listed, MenuInStep
<1>6. selected' \in Nat /\ slipped' \in BOOLEAN
  BY <1>1, <1>2 DEF FrameType, Kept, Counted
<1>7. SelectedInMenu'
  BY <1>1 DEF StoreOK, SelectedInMenu, NumEntries
<1>8. Counted'
  BY <1>1, <1>6, <1>7 DEF StoreOK, Kept, Counted, AutobootTarget
<1>9. QED
  BY <1>3, <1>4, <1>5, <1>8 DEF Kept

LEMMA UI_HandleInputsKeeps ==
  ASSUME Kept, UI_HandleInputs
  PROVE  Kept'
<1>0. /\ Callback("ui") /\ halt = "no" /\ started = NotStarted
      /\ UNCHANGED <<devices, fsVars, parts, rootMenu, cut, slipped, started, consumed, hook>>
      /\ input' = [input EXCEPT !.pending = FALSE] /\ Canceled
  BY DEF UI_HandleInputs, Callback, cfgVars, slips, Kept, Typed
<1>1. /\ autoboot' \in [active : BOOLEAN, canceled : BOOLEAN, timeout : Nat]
      /\ ~autoboot'.active /\ autoboot'.canceled
      /\ input' \in [pending : BOOLEAN, received : BOOLEAN]
  BY <1>0 DEF Canceled, Kept, Counted
<1>2. /\ "ui" \notin Devices /\ Builtins \in Nat /\ Len(rootMenu) \in Nat /\ selected \in Nat
      /\ curMenu \in {"root", "sysinfo"} /\ cut \in BOOLEAN /\ slipped \in BOOLEAN
  BY LenProperties, StorageAssumption DEF Kept, Listed, Counted
<1>3. ASSUME Idle, halt' \in {"no", "left"}
      PROVE  Nested' /\ OpenKept' /\ FilesKept' /\ Typed'
  BY <1>0, <1>3 DEF Idle, Kept, Nested, OpenKept, FilesKept, Typed, fsVars
<1>4. ASSUME UNCHANGED <<curMenu, selected>>
      PROVE  Listed' /\ Counted'
  <2>1. Listed'
    BY <1>0 DEF Kept, Listed, MenuInStep
  <2>2. SelectedInMenu'
    BY <1>0, <1>4 DEF Kept, Counted, SelectedInMenu, NumEntries
  <2>3. QED
    BY <1>0, <1>1, <1>2, <1>4, <2>1, <2>2 DEF Counted, AutobootTarget
<1>5. CASE (Down \/ Up \/ Scroll) /\ UNCHANGED <<curMenu, selected, halt>>
  <2>1. CASE Idle
    BY <1>0, <1>3, <1>4, <1>5, <2>1 DEF Kept
  <2>2. ASSUME NEW n \in Nat, WillSelect("move", n)
        PROVE  Kept'
    <3>1. Nested' /\ OpenKept' /\ FilesKept' /\ Typed'
      BY <1>0, <1>5, <2>2, WillSelectKeeps
    <3>2. QED
      BY <1>4, <1>5, <3>1 DEF Kept
  <2>3. selected + 1 \in Nat /\ (selected > 0 => selected - 1 \in Nat)
    BY <1>2
  <2>4. QED
    BY <1>5, <2>1, <2>2, <2>3 DEF Down, Up, Scroll
<1>6. CASE Select(Frame("ui", "boot", "resolve"), FALSE)
  <2> DEFINE f == Frame("ui", "boot", "resolve")
             g == BootFrame(f, rootMenu[selected + 1])
  <2>1. f \in FrameType /\ f.cb = "ui"
    <3>1. "ui" \in Devices \cup {"ui", "autoboot"} /\ "resolve" \in Places
          /\ "boot" \in Tasks
      BY DEF Places, Tasks
    <3>2. QED
      BY <3>1, NewFrame
  <2>2. Select(f, FALSE)
    BY <1>6
  <2> HIDE DEF f
  <2>3. Listed' /\ Counted'
    BY <1>0, <1>1, <2>2, SelectMenu
  <2>4. \/ selected < Len(rootMenu) /\ Enter(g) /\ halt' = halt
        \/ Idle /\ halt' \in {"no", "left"}
        \/ Stop("wild") /\ registered' = registered
    <3> HIDE DEF g
    <3>1. QED
      BY <1>0, <2>2 DEF Select, g
  <2>5. CASE selected < Len(rootMenu) /\ Enter(g) /\ halt' = halt
    <3>1. FrameOK(g) /\ Waits(g) /\ g \in FrameType /\ g.cb = "ui"
      BY <2>1, <2>5, SelectedEntry, BootFrameOK
    <3> HIDE DEF g
    <3>2. Nested' /\ OpenKept' /\ FilesKept' /\ Typed'
      BY <1>0, <2>5, <3>1, MenuEnters
    <3>3. QED
      BY <2>3, <3>2 DEF Kept
  <2>6. CASE Idle /\ halt' \in {"no", "left"}
    BY <1>3, <2>3, <2>6 DEF Kept
  <2>7. CASE Stop("wild") /\ registered' = registered
    <3>1. Nested'
      BY <1>0, <2>7, StackedNone, StorageAssumption DEF Stop, Nested, Kept
    <3>2. OpenKept' /\ FilesKept' /\ Typed'
      BY <1>0, <2>7 DEF Stop, OpenKept, FilesKept, Typed, Kept, fsVars
    <3>3. QED
      BY <2>3, <3>1, <3>2 DEF Kept
  <2>8. QED
    BY <2>4, <2>5, <2>6, <2>7
<1>7. CASE /\ Enter([Frame("ui", "shot", "target") EXCEPT !.old = mounted])
           /\ UNCHANGED <<curMenu, selected, halt>>
  <2> DEFINE f == Frame("ui", "shot", "target")
             g == [f EXCEPT !.old = mounted]
  <2>1. f \in FrameType /\ f.cb = "ui" /\ f.task = "shot" /\ f.pc = "target" /\ f.found = <<>>
    <3>1. "ui" \in Devices \cup {"ui", "autoboot"} /\ "target" \in Places
          /\ "shot" \in Tasks
      BY DEF Places, Tasks
    <3>2. QED
      BY <3>1, NewFrame
  <2>2. Enter(g)
    BY <1>7
  <2> HIDE DEF f
  <2>3. g \in FrameType /\ g.cb = "ui" /\ g.task = "shot" /\ g.pc = "target"
    BY <2>1 DEF FrameType, Kept, Typed
  <2> HIDE DEF g
  <2>4. FrameOK(g) /\ Waits(g)
    BY <2>3 DEF FrameOK, PlaceOK, Reads, HasPart, Waits
  <2>5. Nested' /\ OpenKept' /\ FilesKept' /\ Typed'
    BY <1>0, <1>7, <2>2, <2>3, <2>4, MenuEnters
  <2>6. QED
    BY <1>4, <1>7, <2>5 DEF Kept
<1>8. QED
  BY <1>5, <1>6, <1>7 DEF UI_HandleInputs

LEMMA TargetKnown ==
  ASSUME NEW e \in Known, NEW path \in Parts \cup {"self"}
  PROVE  Target(e, path) \in Parts
<1>1. e.src \in Parts
  BY WhatKnown DEF Entries
<1>2. QED
  BY <1>1 DEF Target, SelfIs

LEMMA ResolveKeeps ==
  ASSUME Kept, Resolve
  PROVE  Kept'
<1> DEFINE path == Head(Top.rest)
           p == Target(Top.entry, path)
           at == IF mounted = p THEN "open" ELSE "mount"
           f == [Top EXCEPT !.part = p, !.pc = at]
<1>0. /\ At("resolve") /\ devices' = devices /\ mounted' = mounted /\ files' = files /\ Running
      /\ fatPart' = fatPart /\ consumed' = consumed /\ hook' = hook
  BY DEF Resolve, cfgVars
<1>1. /\ FrameOK(Top) /\ Top \in FrameType /\ Top.pc = "resolve" /\ ~Reads(Top) /\ Top.task = "boot"
      /\ Top.entry \in Known /\ Top.rest # <<>> /\ Top.rest \in Seq(Parts \cup {"self"})
  <2>1. FrameOK(Top) /\ Top \in FrameType /\ Top.pc = "resolve"
    BY <1>0, AtFacts
  <2>2. Top.rest \in Seq(Parts \cup {"self"})
    BY <2>1 DEF FrameType
  <2>3. QED
    BY <2>1, <2>2 DEF FrameOK, Reads, PlaceOK
<1>2. path \in Parts \cup {"self"}
  BY <1>1, HeadTailProperties
<1>3. p \in Parts
  BY <1>1, <1>2, TargetKnown
<1>4. /\ Continue(f) \/ Return
      /\ wfsPart' = wfsPart \/ wfsPart' = WfsAfterProbe(p)
  BY DEF Resolve
<1>5. wfsPart' \in Parts \cup {NoPart}
  BY <1>3, <1>4 DEF WfsAfterProbe, Kept, Typed
<1> HIDE DEF path, p
<1>6. at \in {"open", "mount"} /\ at \in Places
  BY DEF Places
<1> HIDE DEF at
<1>7. /\ f \in FrameType /\ f.cb = Top.cb /\ f.pc = at /\ f.task = "boot" /\ f.rest = Top.rest
      /\ f.part = p /\ f.entry = Top.entry
  BY <1>1, <1>3, <1>6 DEF FrameType
<1> HIDE DEF f
<1>8. FrameOK(f) /\ Waits(f)
  BY <1>1, <1>3, <1>6, <1>7 DEF FrameOK, PlaceOK, Reads, HasPart, Waits
<1>9. Nested' /\ OpenKept' /\ FilesKept'
  BY <1>0, <1>1, <1>4, <1>7, <1>8, ContinueNests, ContinueOpen, ReturnNests, ReturnOpen
<1>10. Listed' /\ Counted'
  BY MenuSame DEF Resolve
<1>11. Typed'
  BY <1>0, <1>5 DEF Running, Typed, Kept
<1>12. QED
  BY <1>9, <1>10, <1>11 DEF Kept

LEMMA OpenFileKeeps ==
  ASSUME Kept, OpenFile
  PROVE  Kept'
<1>0. /\ At("open") /\ mounted # NoPart /\ devices' = devices /\ mounted' = mounted /\ Running
      /\ {fatPart', wfsPart'} = {fatPart, wfsPart} /\ consumed' = consumed
  BY DEF OpenFile, cfgVars
<1>1. /\ FrameOK(Top) /\ Top \in FrameType /\ Top.pc = "open" /\ ~Reads(Top) /\ Top.task = "boot"
      /\ Top.entry \in Known /\ Top.rest # <<>>
  BY <1>0, AtFacts DEF FrameOK, Reads, PlaceOK
<1>2. Listed' /\ Counted'
  BY MenuSame DEF OpenFile
<1>3. CASE /\ \E s \in 1..Slots : Opens(s) /\ Continue([Top EXCEPT !.fd = s, !.pc = "load"])
           /\ hook' = HookFor(Top)
  <2>1. PICK s \in 1..Slots : Opens(s) /\ Continue([Top EXCEPT !.fd = s, !.pc = "load"])
    BY <1>3
  <2> DEFINE f == [Top EXCEPT !.fd = s, !.pc = "load"]
  <2>2. s \in Nat
    BY StorageAssumption
  <2>3. /\ f \in FrameType /\ f.cb = Top.cb /\ f.pc = "load" /\ f.task = "boot" /\ f.fd = s
        /\ f.rest = Top.rest /\ f.entry = Top.entry
    BY <1>1, <2>2 DEF FrameType, Places
  <2>4. Continue(f)
    BY <2>1
  <2> HIDE DEF f
  <2>5. FrameOK(f) /\ Reads(f)
    BY <1>1, <2>3 DEF FrameOK, PlaceOK, Reads, HasPart
  <2>6. Nested'
    BY <1>0, <2>3, <2>4, <2>5, ContinueNests
  <2>7. OpenKept' /\ FilesKept'
    BY <1>0, <1>1, <2>1, <2>3, <2>4, <2>5, OpensOpen
  <2>8. hook' \in BOOLEAN
    <3>1. What(Top.entry).hook \in BOOLEAN
      BY <1>1, WhatKnown DEF EntryType
    <3>2. QED
      BY <1>3, <3>1 DEF HookFor, NeedsHook, Kept, Typed
  <2>9. Typed'
    BY <1>0, <2>8 DEF Running, Typed, Kept
  <2>10. QED
    BY <1>2, <2>6, <2>7, <2>9 DEF Kept
<1>4. CASE Return /\ UNCHANGED <<files, hook>>
  <2>1. Nested' /\ OpenKept' /\ FilesKept'
    BY <1>0, <1>1, <1>4, ReturnNests, ReturnOpen
  <2>2. Typed'
    BY <1>0, <1>4 DEF Running, Typed, Kept
  <2>3. QED
    BY <1>2, <2>1, <2>2 DEF Kept
<1>5. QED
  BY <1>3, <1>4 DEF OpenFile

LEMMA LoadAuxKeeps ==
  ASSUME Kept, LoadAux
  PROVE  Kept'
<1>0. /\ At("load") /\ Len(Top.rest) > 1 /\ devices' = devices /\ mounted' = mounted /\ Running
      /\ {fatPart', wfsPart'} = {fatPart, wfsPart} /\ consumed' = consumed /\ hook' = hook
      /\ FS_Close(Top.fd)
  BY DEF LoadAux, cfgVars
<1>1. /\ FrameOK(Top) /\ Top \in FrameType /\ Top.pc = "load" /\ Top.task = "boot"
      /\ Top.entry \in Known /\ Top.rest \in Seq(Parts \cup {"self"}) /\ Top.got \in Seq(Parts)
  BY <1>0, AtFacts DEF FrameOK, PlaceOK, FrameType
<1>2. Reads(Top) /\ Top.fd \in 1..Slots
  <2>1. Top.rest # <<>>
    BY <1>0, EmptySeq
  <2>2. QED
    BY <1>1, <2>1 DEF Reads, FrameOK
<1>3. Listed' /\ Counted'
  BY MenuSame DEF LoadAux
<1>4. Typed'
  BY <1>0 DEF Running, Typed, Kept
<1>5. CASE Return
  <2>1. Nested' /\ OpenKept' /\ FilesKept'
    BY <1>0, <1>2, <1>5, ReturnNests, ClosesOpen
  <2>2. QED
    BY <1>3, <1>4, <2>1 DEF Kept
<1>6. CASE ~Return
  <2> DEFINE r == Tail(Top.rest)
             got == Append(Top.got, files[Top.fd])
             f == [Top EXCEPT !.got = got, !.rest = r, !.pc = "resolve"]
  <2>1. Valid(Top.fd) /\ Continue(f)
    BY <1>6 DEF LoadAux
  <2>2. files[Top.fd] \in Parts
    BY <1>2, <2>1 DEF Valid, Free, Kept, FilesKept
  <2>3. got \in Seq(Parts)
    BY <1>1, <2>2, AppendProperties
  <2>4. r \in Seq(Parts \cup {"self"}) /\ r # <<>>
    <3> DEFINE u == Top.rest
    <3>1. u \in Seq(Parts \cup {"self"}) /\ Len(u) > 1
      BY <1>0, <1>1
    <3> HIDE DEF u
    <3>2. u # <<>>
      BY <3>1, EmptySeq
    <3>3. Tail(u) \in Seq(Parts \cup {"self"}) /\ Len(Tail(u)) = Len(u) - 1 /\ Len(u) \in Nat
      BY <3>1, <3>2, TailElements
    <3>4. Len(Tail(u)) # 0
      <4> DEFINE a == Len(Tail(u))
                 b == Len(u)
      <4>1. a = b - 1 /\ b \in Nat /\ b > 1
        BY <3>1, <3>3
      <4> HIDE DEF a, b
      <4>2. a # 0
        BY <4>1
      <4>3. QED
        BY <4>2 DEF a
    <3>5. QED
      BY <3>3, <3>4, EmptySeq DEF u
  <2> HIDE DEF r, got
  <2>5. /\ f \in FrameType /\ f.cb = Top.cb /\ f.pc = "resolve" /\ f.task = "boot"
        /\ f.rest = r /\ f.entry = Top.entry
    BY <1>1, <2>3, <2>4 DEF FrameType, Places
  <2> HIDE DEF f
  <2>6. FrameOK(f) /\ Waits(f)
    BY <1>1, <2>4, <2>5 DEF FrameOK, PlaceOK, Reads, HasPart, Waits
  <2>7. Nested' /\ OpenKept' /\ FilesKept'
    BY <1>0, <1>2, <2>1, <2>5, <2>6, ContinueNests, ClosesOpen
  <2>8. QED
    BY <1>3, <1>4, <2>7 DEF Kept
<1>7. QED
  BY <1>5, <1>6

LEMMA H_PrepareKeeps ==
  ASSUME Kept, NEW program, H_PrepareForExecEntry(program), UNCHANGED <<menuVars, cfgVars, hook>>
  PROVE  Kept'
<1>1. /\ FS_Unmount /\ devices' = devices \ registered /\ registered' = {} /\ stack' = <<>>
      /\ halt' \in {"started", "busy"}
  BY DEF H_PrepareForExecEntry, Stop
<1>2. FilesKept' /\ OpenKept'
  BY <1>1, FS_UnmountTyped, NothingOpen
<1>3. Typed'
  BY <1>1, FS_UnmountTyped DEF Typed, Kept, cfgVars
<1>4. Nested'
  BY <1>1, StackedNone, StorageAssumption DEF Nested, Kept
<1>5. QED
  BY <1>2, <1>3, <1>4, MenuSame DEF Kept

LEMMA LoadExecKeeps ==
  ASSUME Kept, LoadExec
  PROVE  Kept'
<1>0. At("load") /\ Len(Top.rest) = 1 /\ UNCHANGED <<menuVars, cfgVars, hook>>
  BY DEF LoadExec
<1>1. CASE H_PrepareForExecEntry([entry |-> Top.entry, hook |-> hook,
                                  got |-> Append(Top.got, files[Top.fd])])
  BY <1>0, <1>1, H_PrepareKeeps
<1>2. CASE /\ FS_Close(Top.fd) /\ Return
           /\ Running /\ UNCHANGED <<mounted, fatPart, wfsPart, devices>>
  <2>1. Reads(Top)
    <3>1. Top.pc = "load"
      BY <1>0, AtFacts
    <3>2. Top.rest # <<>>
      BY <1>0, EmptySeq
    <3>3. QED
      BY <3>1, <3>2 DEF Reads
  <2>2. Nested' /\ OpenKept' /\ FilesKept'
    BY <1>0, <1>2, <2>1, ReturnNests, ClosesOpen
  <2>3. Typed'
    BY <1>0, <1>2 DEF Running, Typed, Kept, cfgVars
  <2>4. QED
    BY <1>0, <2>2, <2>3, MenuSame DEF Kept
<1>3. CASE Stop("panic") /\ UNCHANGED <<fsVars, started, devices, registered>>
  <2>1. Nested'
    BY <1>3, StackedNone, StorageAssumption DEF Stop, Nested, Kept
  <2>2. OpenKept' /\ FilesKept' /\ Typed'
    BY <1>0, <1>3 DEF Stop, OpenKept, FilesKept, Typed, Kept, fsVars, cfgVars
  <2>3. QED
    BY <1>0, <2>1, <2>2, MenuSame DEF Kept
<1>4. QED
  BY <1>1, <1>2, <1>3 DEF LoadExec

LEMMA StartChannelKeeps ==
  ASSUME Kept, StartChannel
  PROVE  Kept'
<1>0. At("load") /\ Top.rest = <<>> /\ UNCHANGED <<menuVars, cfgVars, hook>>
  BY DEF StartChannel
<1>1. CASE H_PrepareForExecEntry([entry |-> Top.entry, got |-> <<>>, hook |-> FALSE])
  BY <1>0, <1>1, H_PrepareKeeps
<1>2. CASE Return /\ Running /\ UNCHANGED <<fsVars, devices>>
  <2>1. ~Reads(Top)
    BY <1>0, AtFacts DEF Reads
  <2>2. Nested' /\ OpenKept' /\ FilesKept'
    BY <1>0, <1>2, <2>1, ReturnNests, ReturnOpen DEF fsVars
  <2>3. Typed'
    BY <1>0, <1>2 DEF Running, Typed, Kept, fsVars, cfgVars
  <2>4. QED
    BY <1>0, <2>2, <2>3, MenuSame DEF Kept
<1>3. QED
  BY <1>1, <1>2 DEF StartChannel

LEMMA ChooseTargetKeeps ==
  ASSUME Kept, ChooseTarget
  PROVE  Kept'
<1>0. /\ At("target") /\ devices' = devices /\ mounted' = mounted /\ files' = files /\ Running
      /\ fatPart' = fatPart /\ consumed' = consumed /\ hook' = hook
  BY DEF ChooseTarget, cfgVars
<1>1. /\ FrameOK(Top) /\ Top \in FrameType /\ Top.pc = "target" /\ ~Reads(Top) /\ Top.task = "shot"
      /\ Top.old \in Parts \cup {NoPart}
  BY <1>0, AtFacts DEF FrameOK, Reads, PlaceOK, FrameType
<1>2. Listed' /\ Counted'
  BY MenuSame DEF ChooseTarget
<1>3. ASSUME NEW p \in Parts, NEW pc \in {"write", "mount"},
             Continue([Top EXCEPT !.part = p, !.pc = pc])
      PROVE  Nested' /\ OpenKept' /\ FilesKept'
  <2> DEFINE f == [Top EXCEPT !.part = p, !.pc = pc]
  <2>1. /\ f \in FrameType /\ f.cb = Top.cb /\ f.pc = pc /\ f.task = "shot" /\ f.part = p
    BY <1>1 DEF FrameType, Places
  <2>2. Continue(f)
    BY <1>3
  <2> HIDE DEF f
  <2>3. FrameOK(f) /\ Waits(f)
    BY <1>1, <2>1 DEF FrameOK, PlaceOK, Reads, HasPart, Waits
  <2>4. QED
    BY <1>0, <1>1, <2>1, <2>2, <2>3, ContinueNests, ContinueOpen
<1>4. CASE /\ Top.old # NoPart /\ wfsPart' = wfsPart
           /\ Continue([Top EXCEPT !.part = Top.old, !.pc = "write"])
  <2>1. Nested' /\ OpenKept' /\ FilesKept'
    BY <1>1, <1>3, <1>4
  <2>2. Typed'
    BY <1>0, <1>4 DEF Running, Typed, Kept
  <2>3. QED
    BY <1>2, <2>1, <2>2 DEF Kept
<1>5. CASE \E p \in Parts : wfsPart' = WfsAfterProbe(p) /\ Continue([Top EXCEPT !.part = p, !.pc = "mount"])
  <2>1. PICK p \in Parts : wfsPart' = WfsAfterProbe(p) /\ Continue([Top EXCEPT !.part = p, !.pc = "mount"])
    BY <1>5
  <2>2. Nested' /\ OpenKept' /\ FilesKept'
    BY <1>3, <2>1
  <2>3. Typed'
    BY <1>0, <2>1 DEF Running, Typed, Kept, WfsAfterProbe
  <2>4. QED
    BY <1>2, <2>2, <2>3 DEF Kept
<1>6. CASE Return /\ wfsPart' = wfsPart
  <2>1. Nested' /\ OpenKept' /\ FilesKept'
    BY <1>0, <1>1, <1>6, ReturnNests, ReturnOpen
  <2>2. Typed'
    BY <1>0, <1>6 DEF Running, Typed, Kept
  <2>3. QED
    BY <1>2, <2>1, <2>2 DEF Kept
<1>7. QED
  BY <1>4, <1>5, <1>6 DEF ChooseTarget

LEMMA SaveScreenshotKeeps ==
  ASSUME Kept, SaveScreenshot
  PROVE  Kept'
<1>0. /\ At("write") /\ devices' = devices /\ Running /\ consumed' = consumed /\ hook' = hook
  BY DEF SaveScreenshot, cfgVars
<1>1. /\ FrameOK(Top) /\ Top \in FrameType /\ Top.pc = "write" /\ ~Reads(Top) /\ Top.task = "shot"
      /\ Top.old \in Parts \cup {NoPart}
  BY <1>0, AtFacts DEF FrameOK, Reads, PlaceOK, FrameType
<1>2. Listed' /\ Counted'
  BY MenuSame DEF SaveScreenshot
<1>3. CASE Return /\ UNCHANGED fsVars
  <2>1. Nested' /\ OpenKept' /\ FilesKept'
    BY <1>0, <1>1, <1>3, ReturnNests, ReturnOpen DEF fsVars
  <2>2. Typed'
    BY <1>0, <1>3 DEF Running, Typed, Kept, fsVars
  <2>3. QED
    BY <1>2, <2>1, <2>2 DEF Kept
<1>4. CASE FS_Unmount
  <2>1. FilesKept' /\ OpenKept'
    BY <1>4, FS_UnmountTyped, NothingOpen
  <2>2. Typed'
    BY <1>0, <1>4, FS_UnmountTyped DEF Running, Typed, Kept
  <2>3. CASE Return
    BY <1>0, <1>2, <2>1, <2>2, <2>3, ReturnNests DEF Kept
  <2>4. CASE /\ Top.old # NoPart
             /\ Continue([Top EXCEPT !.task = "restore", !.part = Top.old, !.pc = "mount"])
    <3> DEFINE p == Top.old
               f == [Top EXCEPT !.task = "restore", !.part = p, !.pc = "mount"]
    <3>1. p \in Parts /\ Continue(f)
      BY <1>1, <2>4
    <3> HIDE DEF p
    <3>2. /\ f \in FrameType /\ f.cb = Top.cb /\ f.pc = "mount" /\ f.task = "restore" /\ f.part = p
      BY <1>1, <3>1 DEF FrameType, Places, Tasks
    <3> HIDE DEF f
    <3>3. FrameOK(f)
      BY <3>1, <3>2 DEF FrameOK, PlaceOK, Reads, HasPart
    <3>4. Nested'
      BY <1>0, <3>1, <3>2, <3>3, ContinueNests
    <3>5. QED
      BY <1>2, <2>1, <2>2, <3>4 DEF Kept
  <2>5. QED
    BY <1>4, <2>3, <2>4 DEF SaveScreenshot
<1>5. QED
  BY <1>3, <1>4 DEF SaveScreenshot

-----------------------------------------------------------------------------
(***************************************************************************)
(* A movement of the selection and a countdown, interrupted by others.     *)
(***************************************************************************)
NoStore == \A i \in 1..Len(stack) : stack[i].pc # "store"

\* A callback that is about to move the selection has cancelled the
\* countdown for good, so that none can begin, or select, above it.
Moving ==
  \A i \in 1..Len(stack) :
    /\ stack[i].pc = "store" =>
         /\ StoreOK(stack[i])
         /\ \A j \in 1..Len(stack) : j > i => stack[j].pc \notin {"bootNow", "count", "fire"}
    /\ stack[i].pc \in {"count", "fire"} => Aimed

LEMMA FramesOf ==
  ASSUME stack \in Seq(FrameType)
  PROVE  /\ \A f : stack' = Append(stack, f) =>
              \A i \in 1..Len(stack') : (i \in 1..Len(stack) /\ stack'[i] = stack[i]) \/ (i = Len(stack) + 1 /\ stack'[i] = f)
         /\ stack # <<>> => \A f : Continue(f) =>
              \A i \in 1..Len(stack') : (i \in 1..Len(stack) /\ stack'[i] = stack[i]) \/ (i = Len(stack) /\ stack'[i] = f)
         /\ stack # <<>> /\ stack' = Front(stack) =>
              \A i \in 1..Len(stack') : i \in 1..Len(stack) /\ i # Len(stack) /\ stack'[i] = stack[i]
<1>1. ASSUME NEW f, stack' = Append(stack, f), NEW i \in 1..Len(stack')
      PROVE  (i \in 1..Len(stack) /\ stack'[i] = stack[i]) \/ (i = Len(stack) + 1 /\ stack'[i] = f)
  <2> DEFINE S == FrameType \cup {f}
  <2>1. stack \in Seq(S) /\ f \in S
    BY SeqMonotonic
  <2> HIDE DEF S
  <2>2. /\ Len(stack') = Len(stack) + 1 /\ Len(stack) \in Nat
        /\ stack'[Len(stack) + 1] = f /\ \A j \in 1..Len(stack) : stack'[j] = stack[j]
    BY <1>1, <2>1, AppendProperties, LenProperties
  <2>3. i \in 1..Len(stack) \/ i = Len(stack) + 1
    BY <1>1, <2>2
  <2>4. QED
    BY <2>2, <2>3
<1>2. ASSUME stack # <<>>, NEW f, Continue(f), NEW i \in 1..Len(stack')
      PROVE  (i \in 1..Len(stack) /\ stack'[i] = stack[i]) \/ (i = Len(stack) /\ stack'[i] = f)
  <2> DEFINE S == FrameType \cup {f}
  <2>1. stack \in Seq(S) /\ f \in S /\ stack' = Append(Front(stack), f)
    BY <1>2, SeqMonotonic DEF Continue
  <2> HIDE DEF S
  <2>2. /\ Len(stack') = Len(stack) /\ Len(stack) \in Nat
        /\ stack'[Len(stack)] = f /\ \A j \in 1..Len(stack) : j < Len(stack) => stack'[j] = stack[j]
    BY <1>2, <2>1, ReplaceLast
  <2>3. i \in 1..Len(stack) /\ (i < Len(stack) \/ i = Len(stack))
    BY <1>2, <2>2
  <2>4. QED
    BY <2>2, <2>3
<1>3. ASSUME stack # <<>>, stack' = Front(stack), NEW i \in 1..Len(stack')
      PROVE  i \in 1..Len(stack) /\ i # Len(stack) /\ stack'[i] = stack[i]
  <2>1. /\ Len(stack') = Len(stack) - 1 /\ Len(stack) \in Nat
        /\ \A j \in 1..(Len(stack) - 1) : stack'[j] = stack[j]
    BY <1>3, FrontElements, LenProperties
  <2>2. i \in 1..(Len(stack) - 1) /\ i \in 1..Len(stack) /\ i # Len(stack)
    BY <1>3, <2>1
  <2>3. QED
    BY <2>1, <2>2
<1>4. QED
  BY <1>1, <1>2, <1>3

\* What a step that moves nothing may do to the stack and to the menu.
LEMMA MovingStep ==
  ASSUME Kept, Moving,
         \A i \in 1..Len(stack') :
           \/ i \in 1..Len(stack) /\ stack'[i] = stack[i]
           \/ /\ stack'[i].pc # "store"
              /\ stack'[i].pc \in {"count", "fire"} => Aimed'
              /\ stack'[i].pc \in {"bootNow", "count", "fire"} => NoStore,
         (\E i \in 1..Len(stack) : stack[i].pc \in {"count", "fire"}) /\ Aimed => Aimed',
         autoboot.canceled => autoboot'.canceled,
         \A i \in 1..Len(stack) : stack[i].pc = "store" =>
           \/ cut'
           \/ /\ slipped' = slipped /\ cut' = cut
              /\ stack[i].to < NumEntries(rootMenu) => stack[i].to < NumEntries(rootMenu)'
  PROVE  Moving'
<1>1. SUFFICES ASSUME NEW i \in 1..Len(stack')
               PROVE  /\ stack'[i].pc = "store" =>
                           /\ StoreOK(stack[i])'
                           /\ \A j \in 1..Len(stack') : j > i => stack'[j].pc \notin {"bootNow", "count", "fire"}
                      /\ stack'[i].pc \in {"count", "fire"} => Aimed'
  BY DEF Moving
<1>2. CASE i \in 1..Len(stack) /\ stack'[i] = stack[i]
  <2>1. ASSUME stack[i].pc = "store"
        PROVE  StoreOK(stack[i])'
    <3>1. StoreOK(stack[i])
      BY <1>2, <2>1 DEF Moving
    <3>2. autoboot'.canceled
      BY <3>1 DEF StoreOK
    <3>3. \/ cut'
          \/ /\ slipped' = slipped /\ cut' = cut
             /\ stack[i].to < NumEntries(rootMenu) => stack[i].to < NumEntries(rootMenu)'
      BY <1>2, <2>1
    <3>4. cut' \/ stack[i].to < NumEntries(rootMenu)' \/ (slipped' /\ stack[i].task = "move")
      BY <3>1, <3>3 DEF StoreOK
    <3>5. QED
      BY <1>2, <3>2, <3>4 DEF StoreOK
  <2>2. ASSUME stack[i].pc = "store", NEW j \in 1..Len(stack'), j > i
        PROVE  stack'[j].pc \notin {"bootNow", "count", "fire"}
    <3>1. ~NoStore
      BY <1>2, <2>2 DEF NoStore
    <3>2. CASE j \in 1..Len(stack) /\ stack'[j] = stack[j]
      BY <1>2, <2>2, <3>2 DEF Moving
    <3>3. QED
      BY <2>2, <3>1, <3>2
  <2>3. stack[i].pc \in {"count", "fire"} => Aimed'
    BY <1>2 DEF Moving
  <2>4. QED
    BY <1>2, <2>1, <2>2, <2>3
<1>3. CASE ~(i \in 1..Len(stack) /\ stack'[i] = stack[i])
  BY <1>3
<1>4. QED
  BY <1>2, <1>3

Harmless(f) == f.pc \notin {"store", "count", "fire", "bootNow"}

\* The callbacks of a step that begins or continues none of these.
Others ==
  \A i \in 1..Len(stack') :
    (i \in 1..Len(stack) /\ stack'[i] = stack[i]) \/ Harmless(stack'[i])

LEMMA OthersMove ==
  ASSUME Kept, Moving, Others, UNCHANGED menuVars
  PROVE  Moving'
<1>1. /\ rootMenu' = rootMenu /\ curMenu' = curMenu /\ selected' = selected
      /\ autoboot' = autoboot /\ cut' = cut /\ slipped' = slipped
  BY DEF menuVars, slips
<1>2. Aimed' = Aimed /\ NumEntries(rootMenu)' = NumEntries(rootMenu)
  BY <1>1 DEF Aimed, NumEntries
<1>3. QED
  BY <1>1, <1>2, MovingStep DEF Others, Harmless

LEMMA OthersReturn ==
  ASSUME Kept, NEW at, At(at), Return
  PROVE  Others
  BY AtFacts, FramesOf DEF Return, Others

LEMMA OthersContinue ==
  ASSUME Kept, NEW at, At(at), NEW f, Continue(f), Harmless(f)
  PROVE  Others
  BY AtFacts, FramesOf DEF Others

LEMMA OthersGoto ==
  ASSUME Kept, NEW at, At(at), NEW pc, Goto(pc), pc \notin {"store", "count", "fire", "bootNow"}
  PROVE  Others
<1> DEFINE f == [Top EXCEPT !.pc = pc]
<1>1. Continue(f) /\ f.pc = pc
  BY AtFacts DEF Goto, FrameType
<1> HIDE DEF f
<1>2. QED
  BY <1>1, OthersContinue DEF Harmless

LEMMA OthersStop ==
  ASSUME stack' = <<>>
  PROVE  Others
<1>1. Len(<<>>) = 0
  BY EmptySeq
<1> DEFINE none == <<>>
<1>2. stack' = none /\ Len(none) = 0
  BY <1>1
<1> HIDE DEF none
<1>3. \A i \in 1..Len(stack') : FALSE
  BY <1>2
<1>4. QED
  BY <1>3 DEF Others

LEMMA OthersEnter ==
  ASSUME Kept, NEW f, stack' = Append(stack, f), Harmless(f)
  PROVE  Others
  BY FramesOf DEF Others, Kept, Nested, Stacked

LEMMA OthersRefused ==
  ASSUME Kept, NEW at, At(at), Refused \/ AfterMount
  PROVE  Others
  BY OthersReturn, OthersGoto DEF Refused, AfterMount

LEMMA FileSystemOthers ==
  ASSUME Kept, FileSystemStep
  PROVE  Others /\ UNCHANGED menuVars
<1>1. CASE MountStart
  <2>1. At("mount") /\ (Stop("assert") \/ Refused \/ Goto("mounting")) /\ UNCHANGED menuVars
    BY <1>1 DEF MountStart
  <2>2. QED
    BY <2>1, OthersStop, OthersRefused, OthersGoto DEF Stop
<1>2. CASE MountEnd
  <2>1. At("mounting") /\ (AfterMount \/ Refused) /\ UNCHANGED menuVars
    BY <1>2 DEF MountEnd
  <2>2. QED
    BY <2>1, OthersRefused
<1>3. CASE NothingMounted
  <2>1. stack' = <<>> /\ UNCHANGED menuVars
    BY <1>3 DEF NothingMounted, Stop
  <2>2. QED
    BY <2>1, OthersStop
<1>4. QED
  BY <1>1, <1>2, <1>3 DEF FileSystemStep

LEMMA BlockOthers ==
  ASSUME Kept, BlockStep
  PROVE  Others /\ UNCHANGED menuVars
<1>1. CASE ProbePartition
  <2>1. At("partition") /\ UNCHANGED menuVars
    BY <1>1 DEF ProbePartition
  <2>2. Top \in FrameType /\ Top.pc = "partition"
    BY <2>1, AtFacts
  <2> DEFINE p == Head(Top.rest)
             r == Tail(Top.rest)
             f == [Top EXCEPT !.rest = r]
             g == [f EXCEPT !.part = p, !.pc = "mount"]
  <2>3. Return \/ Continue(g) \/ Continue(f)
    BY <1>1 DEF ProbePartition
  <2> HIDE DEF p, r
  <2>4. f.pc = "partition" /\ g.pc = "mount"
    BY <2>2 DEF FrameType
  <2> HIDE DEF f, g
  <2>5. QED
    BY <2>1, <2>3, <2>4, OthersReturn, OthersContinue DEF Harmless
<1>2. CASE UnmountPartition
  <2>1. At("unmount") /\ UNCHANGED menuVars /\ Goto("delpart")
    BY <1>2 DEF UnmountPartition
  <2>2. QED
    BY <2>1, OthersGoto
<1>3. CASE RemoveDevice
  <2>1. At("unmount") /\ UNCHANGED menuVars /\ Return
    BY <1>3 DEF RemoveDevice
  <2>2. QED
    BY <2>1, OthersReturn
<1>4. QED
  BY <1>1, <1>2, <1>3 DEF BlockStep

LEMMA ConfigOthers ==
  ASSUME Kept, ConfigStep
  PROVE  Others /\ UNCHANGED menuVars
<1>1. PICK at \in {"npll", "npllRead", "gumboot", "gumbootRead"} : At(at)
  BY DEF ConfigStep, OpenNpll, ReadNpll, OpenGumboot, ReadGumboot
<1>2. UNCHANGED menuVars
  BY DEF ConfigStep, OpenNpll, ReadNpll, OpenGumboot, ReadGumboot
<1>3. Top \in FrameType
  BY <1>1, AtFacts
<1>4. CASE OpenNpll
  <2>1. \/ \E s \in 1..Slots : Continue([Top EXCEPT !.first = ~consumed, !.fd = s, !.pc = "npllRead"])
        \/ Continue([Top EXCEPT !.first = FALSE, !.pc = "gumboot"])
    BY <1>4 DEF OpenNpll
  <2>2. ASSUME NEW b, NEW s, NEW pc \in {"npllRead", "gumboot"},
               \/ Continue([Top EXCEPT !.first = b, !.fd = s, !.pc = pc])
               \/ Continue([Top EXCEPT !.first = b, !.pc = pc])
        PROVE  Others
    <3> DEFINE f == [Top EXCEPT !.first = b, !.fd = s, !.pc = pc]
               g == [Top EXCEPT !.first = b, !.pc = pc]
    <3>1. f.pc = pc /\ g.pc = pc /\ (Continue(f) \/ Continue(g))
      BY <1>3, <2>2 DEF FrameType
    <3> HIDE DEF f, g
    <3>2. QED
      BY <1>1, <3>1, OthersContinue DEF Harmless
  <2>3. QED
    BY <1>2, <2>1, <2>2
<1>5. CASE OpenGumboot
  <2>1. (\E s \in 1..Slots : Continue([Top EXCEPT !.fd = s, !.pc = "gumbootRead"])) \/ Goto("add")
    BY <1>5 DEF OpenGumboot
  <2>2. ASSUME NEW s \in 1..Slots, Continue([Top EXCEPT !.fd = s, !.pc = "gumbootRead"])
        PROVE  Others
    <3> DEFINE f == [Top EXCEPT !.fd = s, !.pc = "gumbootRead"]
    <3>1. Continue(f) /\ f.pc = "gumbootRead"
      BY <1>3, <2>2 DEF FrameType
    <3> HIDE DEF f
    <3>2. QED
      BY <1>1, <3>1, OthersContinue DEF Harmless
  <2>3. QED
    BY <1>1, <1>2, <2>1, <2>2, OthersGoto
<1>6. CASE ReadNpll
  <2> DEFINE cfg == Npll[mounted]
             es == EntriesOf("npll", mounted, Top.part)
             gl == IF Top.first THEN [timeout |-> cfg.timeout, default |-> cfg.default]
                                ELSE NoGlobals
             f == [Top EXCEPT !.pc = "gumboot", !.found = es, !.globals = gl]
  <2>1. Return \/ Continue(f)
    BY <1>6 DEF ReadNpll, ProbeFails
  <2> HIDE DEF cfg, es, gl
  <2>2. f.pc = "gumboot"
    BY <1>3 DEF FrameType
  <2> HIDE DEF f
  <2>3. QED
    BY <1>1, <1>2, <2>1, <2>2, OthersReturn, OthersContinue DEF Harmless
<1>7. CASE ReadGumboot
  <2> DEFINE cfg == Gumboot[mounted]
             all == Top.found \o EntriesOf("gumboot", mounted, Top.part)
             gl == GumbootGlobals(cfg)
             f == [Top EXCEPT !.pc = "add", !.found = all, !.globals = gl]
  <2>1. Return \/ Continue(f)
    BY <1>7 DEF ReadGumboot, ProbeFails
  <2> HIDE DEF cfg, all, gl
  <2>2. f.pc = "add"
    BY <1>3 DEF FrameType
  <2> HIDE DEF f
  <2>3. QED
    BY <1>1, <1>2, <2>1, <2>2, OthersReturn, OthersContinue DEF Harmless
<1>8. QED
  BY <1>4, <1>5, <1>6, <1>7 DEF ConfigStep

LEMMA BootOthers ==
  ASSUME Kept, BootStep
  PROVE  Others /\ UNCHANGED menuVars
<1>1. UNCHANGED menuVars
  BY DEF BootStep, Resolve, OpenFile, LoadAux, LoadExec, StartChannel
<1>2. PICK at \in {"resolve", "open", "load"} : At(at)
  BY DEF BootStep, Resolve, OpenFile, LoadAux, LoadExec, StartChannel
<1>3. Top \in FrameType
  BY <1>2, AtFacts
<1>4. CASE Resolve
  <2> DEFINE p == Target(Top.entry, Head(Top.rest))
             pc == IF mounted = p THEN "open" ELSE "mount"
             f == [Top EXCEPT !.part = p, !.pc = pc]
  <2>1. Return \/ Continue(f)
    BY <1>4 DEF Resolve
  <2>2. pc \in {"open", "mount"}
    OBVIOUS
  <2> HIDE DEF p, pc
  <2>3. f.pc = pc
    BY <1>3 DEF FrameType
  <2> HIDE DEF f
  <2>4. QED
    BY <1>1, <1>2, <2>1, <2>2, <2>3, OthersReturn, OthersContinue DEF Harmless
<1>5. CASE OpenFile
  <2>1. ASSUME NEW s \in 1..Slots, Continue([Top EXCEPT !.fd = s, !.pc = "load"])
        PROVE  Others
    <3> DEFINE f == [Top EXCEPT !.fd = s, !.pc = "load"]
    <3>1. Continue(f) /\ f.pc = "load"
      BY <1>3, <2>1 DEF FrameType
    <3> HIDE DEF f
    <3>2. QED
      BY <1>2, <3>1, OthersContinue DEF Harmless
  <2>2. Return \/ \E s \in 1..Slots : Continue([Top EXCEPT !.fd = s, !.pc = "load"])
    BY <1>5 DEF OpenFile
  <2>3. QED
    BY <1>1, <1>2, <2>1, <2>2, OthersReturn
<1>6. CASE LoadAux
  <2> DEFINE got == Append(Top.got, files[Top.fd])
             r == Tail(Top.rest)
             f == [Top EXCEPT !.got = got, !.rest = r, !.pc = "resolve"]
  <2>1. Return \/ Continue(f)
    BY <1>6 DEF LoadAux
  <2> HIDE DEF got, r
  <2>2. f.pc = "resolve"
    BY <1>3 DEF FrameType
  <2> HIDE DEF f
  <2>3. QED
    BY <1>1, <1>2, <2>1, <2>2, OthersReturn, OthersContinue DEF Harmless
<1>7. CASE LoadExec
  <2>1. Return \/ stack' = <<>>
    BY <1>7 DEF LoadExec, H_PrepareForExecEntry, Stop
  <2>2. QED
    BY <1>1, <1>2, <2>1, OthersReturn, OthersStop
<1>8. CASE StartChannel
  <2>1. Return \/ stack' = <<>>
    BY <1>8 DEF StartChannel, H_PrepareForExecEntry, Stop
  <2>2. QED
    BY <1>1, <1>2, <2>1, OthersReturn, OthersStop
<1>9. QED
  BY <1>4, <1>5, <1>6, <1>7, <1>8 DEF BootStep

LEMMA ScreenshotOthers ==
  ASSUME Kept, ScreenshotStep
  PROVE  Others /\ UNCHANGED menuVars
<1>1. UNCHANGED menuVars
  BY DEF ScreenshotStep, ChooseTarget, SaveScreenshot
<1>2. PICK at \in {"target", "write"} : At(at)
  BY DEF ScreenshotStep, ChooseTarget, SaveScreenshot
<1>3. Top \in FrameType
  BY <1>2, AtFacts
<1>4. ASSUME NEW p, NEW pc \in {"write", "mount"}, Continue([Top EXCEPT !.part = p, !.pc = pc])
      PROVE  Others
  <2> DEFINE f == [Top EXCEPT !.part = p, !.pc = pc]
  <2>1. Continue(f) /\ f.pc = pc
    BY <1>3, <1>4 DEF FrameType
  <2> HIDE DEF f
  <2>2. QED
    BY <1>2, <1>4, <2>1, OthersContinue DEF Harmless
<1>5. CASE ChooseTarget
  <2>1. \/ Return
        \/ Continue([Top EXCEPT !.part = Top.old, !.pc = "write"])
        \/ \E p \in Parts : Continue([Top EXCEPT !.part = p, !.pc = "mount"])
    BY <1>5 DEF ChooseTarget
  <2>2. QED
    BY <1>1, <1>2, <1>4, <2>1, OthersReturn
<1>6. CASE SaveScreenshot
  <2> DEFINE p == Top.old
             f == [Top EXCEPT !.task = "restore", !.part = p, !.pc = "mount"]
  <2>1. Return \/ Continue(f)
    BY <1>6 DEF SaveScreenshot
  <2> HIDE DEF p
  <2>2. f.pc = "mount"
    BY <1>3 DEF FrameType
  <2> HIDE DEF f
  <2>3. QED
    BY <1>1, <1>2, <2>1, <2>2, OthersReturn, OthersContinue DEF Harmless
<1>7. QED
  BY <1>5, <1>6 DEF ScreenshotStep

LEMMA DeviceOthers ==
  ASSUME Kept, NEW d \in Devices, B_Register(d) \/ B_Unregister(d)
  PROVE  Others /\ UNCHANGED menuVars
<1>1. UNCHANGED menuVars
  BY DEF B_Register, B_Unregister
<1>2. ASSUME NEW task \in Tasks, NEW pc \in {"partition", "unmount"},
             stack' = Append(stack, [Frame(d, task, pc) EXCEPT !.rest = PartsOf[d]])
      PROVE  Others
  <2> DEFINE g == Frame(d, task, pc)
             f == [g EXCEPT !.rest = PartsOf[d]]
  <2>1. pc \in Places
    BY DEF Places
  <2>2. g \in FrameType /\ g.pc = pc /\ stack' = Append(stack, f)
    BY <1>2, <2>1, NewFrame
  <2> HIDE DEF g
  <2>3. f.pc = pc
    BY <2>2 DEF FrameType
  <2> HIDE DEF f
  <2>4. QED
    BY <1>2, <2>2, <2>3, OthersEnter DEF Harmless
<1>3. "register" \in Tasks /\ "unregister" \in Tasks
  BY DEF Tasks
<1>4. CASE B_Register(d)
  <2>1. stack' = Append(stack, [Frame(d, "register", "partition") EXCEPT !.rest = PartsOf[d]])
    BY <1>4 DEF B_Register, Enter
  <2>2. QED
    BY <1>1, <1>2, <1>3, <2>1
<1>5. CASE B_Unregister(d)
  <2>1. stack' = Append(stack, [Frame(d, "unregister", "unmount") EXCEPT !.rest = PartsOf[d]])
    BY <1>5 DEF B_Unregister
  <2>2. QED
    BY <1>1, <1>2, <1>3, <2>1
<1>6. QED
  BY <1>4, <1>5

\* A callback that moves the selection is the menu's; while another one
\* counts, none waits below it.
LEMMA StoresAre ==
  ASSUME Kept, Moving
  PROVE  /\ Callback("ui") => NoStore
         /\ \A at \in {"bootNow", "count", "fire"} : At(at) => NoStore
         /\ ~autoboot.canceled => NoStore
         /\ \A at : At(at) => Top = stack[Len(stack)] /\ Len(stack) \in 1..Len(stack)
<1>1. \A i \in 1..Len(stack) : stack[i].pc = "store" => stack[i].cb = "ui"
  BY DEF Kept, Nested, Stacked, FrameOK
<1>2. DOMAIN stack = 1..Len(stack)
  BY LenProperties DEF Kept, Nested, Stacked
<1>3. Callback("ui") => NoStore
  BY <1>1, <1>2 DEF Callback, NoStore
<1>4. ASSUME NEW at, At(at)
      PROVE  Top = stack[Len(stack)] /\ Len(stack) \in 1..Len(stack) /\ Top.pc = at /\ Len(stack) \in Nat
  <2>1. Len(stack) \in Nat /\ Len(stack) >= 1 /\ Top = Last(stack) /\ Top.pc = at
    BY <1>4, AtFacts
  <2>2. QED
    BY <2>1 DEF Last
<1>5. ASSUME NEW at \in {"bootNow", "count", "fire"}, At(at)
      PROVE  NoStore
  <2>1. SUFFICES ASSUME NEW i \in 1..Len(stack), stack[i].pc = "store" PROVE FALSE
    BY DEF NoStore
  <2>2. i < Len(stack)
    BY <1>4, <1>5, <2>1
  <2>3. QED
    BY <1>4, <1>5, <2>1, <2>2 DEF Moving
<1>6. ~autoboot.canceled => NoStore
  BY DEF Moving, StoreOK, NoStore
<1>7. QED
  BY <1>3, <1>4, <1>5, <1>6

LEMMA AddPartMoves ==
  ASSUME Kept, Moving, AddPart
  PROVE  Moving'
<1>1. At("add") /\ FrameOK(Top) /\ Top \in FrameType /\ Top.pc = "add"
  <2>1. At("add")
    BY DEF AddPart
  <2>2. QED
    BY <2>1, AtFacts
<1>2. CASE Top.found = <<>>
  BY <1>1, <1>2, OthersReturn, OthersMove DEF AddPart
<1>3. CASE Top.found # <<>>
  <2> DEFINE es == Top.found
             d == Top.globals.default
             f == [Top EXCEPT !.pc = "bootNow"]
  <2>1. es \in Seq(Known) /\ d \in Nat
    BY <1>1 DEF FrameType
  <2>2. /\ rootMenu' = es \o rootMenu /\ curMenu' = curMenu /\ cut' = cut /\ slipped' = slipped
        /\ \/ /\ MayAutoboot(Top) /\ selected' = d /\ autoboot'.canceled = autoboot.canceled
              /\ Return \/ Continue(f)
           \/ selected' = selected /\ autoboot' = autoboot /\ Return
    BY <1>3 DEF AddPart, Prepended, slips, Goto, Kept, Counted
  <2>3. f.pc = "bootNow"
    BY <1>1 DEF FrameType
  <2>4. MayAutoboot(Top) => ~autoboot.canceled /\ d < Len(es)
    BY DEF MayAutoboot
  <2> HIDE DEF es, d, f
  <2>5. Len(rootMenu') = Len(es) + Len(rootMenu) /\ Len(es) \in Nat /\ Len(rootMenu) \in Nat
    BY <2>1, <2>2, ConcatProperties, LenProperties DEF Kept, Listed
  <2>6. /\ selected \in Nat /\ Builtins \in Nat /\ curMenu \in {"root", "sysinfo"}
        /\ (curMenu = "sysinfo" => autoboot.canceled)
    BY StorageAssumption DEF Kept, Counted
  <2>7. Aimed => Aimed'
    <3>1. CASE MayAutoboot(Top) /\ selected' = d
      BY <2>1, <2>2, <2>4, <2>5, <2>6, <3>1 DEF Aimed
    <3>2. CASE selected' = selected /\ autoboot' = autoboot
      BY <2>2, <2>5, <2>6, <3>2 DEF Aimed
    <3>3. QED
      BY <2>2, <3>1, <3>2
  <2>8. ASSUME NEW i \in 1..Len(stack), stack[i].to < NumEntries(rootMenu)
        PROVE  stack[i].to < NumEntries(rootMenu)'
    <3>1. stack[i].to \in Nat
      BY DEF Kept, Nested, Stacked, FrameOK, FrameType
    <3>2. QED
      BY <2>2, <2>5, <2>6, <2>8, <3>1 DEF NumEntries
  <2>9. autoboot.canceled => autoboot'.canceled
    BY <2>2
  <2>10. \A i \in 1..Len(stack') :
           \/ i \in 1..Len(stack) /\ stack'[i] = stack[i]
           \/ stack'[i].pc = "bootNow" /\ ~autoboot.canceled
    <3>1. stack \in Seq(FrameType) /\ stack # <<>>
      BY <1>1, AtFacts
    <3>2. CASE Return
      BY <3>1, <3>2, FramesOf DEF Return
    <3>3. CASE Continue(f) /\ MayAutoboot(Top)
      BY <2>3, <2>4, <3>1, <3>3, FramesOf
    <3>4. QED
      BY <2>2, <3>2, <3>3
  <2>11. QED
    BY <2>2, <2>7, <2>8, <2>9, <2>10, StoresAre, MovingStep
<1>4. QED
  BY <1>2, <1>3

LEMMA DelPartMoves ==
  ASSUME Kept, Moving, DelPart
  PROVE  Moving'
<1> DEFINE r == Tail(Top.rest)
           f == [Top EXCEPT !.rest = r, !.pc = "unmount"]
<1>1. At("delpart") /\ Canceled /\ Continue(f)
      /\ cut' = (cut \/ \E i \in DOMAIN stack : stack[i].pc = "store")
  BY DEF DelPart
<1>2. Top \in FrameType
  BY <1>1, AtFacts
<1> HIDE DEF r
<1>3. f.pc = "unmount"
  BY <1>2 DEF FrameType
<1> HIDE DEF f
<1>4. Others
  BY <1>1, <1>3, OthersContinue DEF Harmless
<1>5. autoboot'.canceled
  BY <1>1 DEF Canceled, Kept, Counted
<1>6. DOMAIN stack = 1..Len(stack)
  BY LenProperties DEF Kept, Nested, Stacked
<1>7. Aimed'
  BY <1>5 DEF Aimed
<1>8. \A i \in 1..Len(stack) : stack[i].pc = "store" => cut'
  BY <1>1, <1>6
<1>9. QED
  BY <1>4, <1>5, <1>7, <1>8, MovingStep DEF Others, Harmless

LEMMA CountdownMoves ==
  ASSUME Kept, Moving, Countdown
  PROVE  Moving'
<1> DEFINE f == Frame("autoboot", "count", "count")
<1>1. autoboot.active /\ stack' = Append(stack, f) /\ UNCHANGED menuVars
  BY DEF Countdown, Enter
<1>2. f.pc = "count"
  BY DEF Frame
<1> HIDE DEF f
<1>3. /\ rootMenu' = rootMenu /\ curMenu' = curMenu /\ selected' = selected
      /\ autoboot' = autoboot /\ cut' = cut /\ slipped' = slipped
  BY <1>1 DEF menuVars, slips
<1>4. Aimed /\ ~autoboot.canceled
  BY <1>1 DEF Kept, Counted, AutobootTarget, Aimed
<1>5. NoStore
  BY <1>4, StoresAre
<1>6. Aimed' /\ NumEntries(rootMenu)' = NumEntries(rootMenu)
  BY <1>3, <1>4 DEF Aimed, NumEntries
<1>7. \A i \in 1..Len(stack') : (i \in 1..Len(stack) /\ stack'[i] = stack[i]) \/ stack'[i] = f
  BY <1>1, FramesOf DEF Kept, Nested, Stacked
<1>8. QED
  BY <1>2, <1>3, <1>5, <1>6, <1>7, MovingStep

\* The countdown or UI_AddPart's call of it goes on.
LEMMA CountingMoves ==
  ASSUME Kept, Moving, BootNow \/ Count
  PROVE  Moving'
<1>1. PICK at \in {"bootNow", "count"} : At(at) /\ (BootNow => at = "bootNow") /\ (Count => at = "count")
  BY DEF BootNow, Count, At
<1>2. /\ NoStore /\ Top \in FrameType /\ stack \in Seq(FrameType) /\ stack # <<>>
      /\ Top = stack[Len(stack)] /\ Len(stack) \in 1..Len(stack) /\ Top.pc = at
  BY <1>1, StoresAre, AtFacts
<1>3. /\ rootMenu' = rootMenu /\ curMenu' = curMenu /\ selected' = selected
      /\ cut' = cut /\ slipped' = slipped /\ autoboot'.canceled = autoboot.canceled
  <2>1. CASE BootNow
    BY <2>1 DEF BootNow, menuVars, slips
  <2>2. CASE Count
    <3>1. autoboot'.canceled = autoboot.canceled
      BY <2>2 DEF Count, Kept, Counted
    <3>2. QED
      BY <2>2, <3>1 DEF Count, slips
  <2>3. QED
    BY <2>1, <2>2
<1>4. (Aimed => Aimed') /\ NumEntries(rootMenu)' = NumEntries(rootMenu)
  BY <1>3 DEF Aimed, NumEntries
<1>5. CASE Return
  <2>1. \A i \in 1..Len(stack') : i \in 1..Len(stack) /\ stack'[i] = stack[i]
    BY <1>2, <1>5, FramesOf DEF Return
  <2>2. QED
    BY <1>3, <1>4, <2>1, MovingStep
<1>6. ASSUME NEW pc \in {"count", "fire"}, Goto(pc), Aimed
      PROVE  Moving'
  <2> DEFINE f == [Top EXCEPT !.pc = pc]
  <2>1. f.pc = pc /\ Continue(f)
    BY <1>2, <1>6 DEF Goto, FrameType
  <2> HIDE DEF f
  <2>2. \A i \in 1..Len(stack') : (i \in 1..Len(stack) /\ stack'[i] = stack[i]) \/ stack'[i] = f
    BY <1>2, <2>1, FramesOf
  <2>3. QED
    BY <1>2, <1>3, <1>4, <1>6, <2>1, <2>2, MovingStep
<1>7. CASE BootNow /\ ~Return
  <2>1. autoboot.active /\ Goto("count")
    BY <1>7 DEF BootNow
  <2>2. Aimed
    BY <2>1 DEF Kept, Counted, AutobootTarget, Aimed
  <2>3. QED
    BY <1>6, <2>1, <2>2
<1>8. CASE Count /\ ~Return
  <2>1. Goto("fire")
    BY <1>8 DEF Count
  <2>2. Aimed
    BY <1>1, <1>2, <1>8 DEF Moving
  <2>3. QED
    BY <1>6, <2>1, <2>2
<1>9. QED
  BY <1>5, <1>7, <1>8

LEMMA FireAimed ==
  ASSUME Kept, Moving, Fire
  PROVE  Aimed
<1>1. At("fire") /\ Top.pc = "fire"
  BY DEF Fire, At
<1>2. QED
  BY <1>1, StoresAre DEF Moving

LEMMA FireMoves ==
  ASSUME Kept, Moving, Fire
  PROVE  Moving'
<1>1. /\ At("fire") /\ Select(Top, TRUE)
      /\ UNCHANGED <<parts, rootMenu, autoboot, input, cut, slipped>>
  BY DEF Fire, slips
<1>2. NoStore /\ Top \in FrameType /\ stack \in Seq(FrameType) /\ stack # <<>> /\ Aimed
  BY <1>1, StoresAre, AtFacts, FireAimed
<1> DEFINE g == BootFrame(Top, rootMenu[selected + 1])
<1>3. \/ selected < Len(rootMenu) /\ Continue(g)
      \/ Return
      \/ stack' = <<>>
  <2> HIDE DEF g
  <2>1. QED
    BY <1>1 DEF Select, Stop, g
<1>4. Others
  <2>1. CASE selected < Len(rootMenu) /\ Continue(g)
    <3>1. g.pc \in {"load", "resolve"}
      BY <1>2, <2>1, SelectedEntry, BootFrameOK
    <3> HIDE DEF g
    <3>2. QED
      BY <1>1, <2>1, <3>1, OthersContinue DEF Harmless
  <2>2. QED
    BY <1>1, <1>3, <2>1, OthersReturn, OthersStop
<1>5. Aimed'
  <2>1. CASE autoboot.canceled
    BY <1>1, <2>1 DEF Aimed
  <2>2. CASE curMenu = "root" /\ selected < Len(rootMenu)
    <3>1. Len(rootMenu) \in Nat /\ Builtins \in Nat /\ selected \in Nat
      BY LenProperties, StorageAssumption DEF Kept, Listed, Counted
    <3>2. curMenu' = curMenu /\ selected' = selected
      BY <1>1, <2>2, <3>1 DEF Select, NumEntries
    <3>3. QED
      BY <1>1, <2>2, <3>2 DEF Aimed
  <2>3. QED
    BY <1>2, <2>1, <2>2 DEF Aimed
<1>6. QED
  BY <1>1, <1>2, <1>4, <1>5, MovingStep DEF Others, Harmless, NoStore

LEMMA InputArrivesMoves ==
  ASSUME Kept, Moving, InputArrives
  PROVE  Moving'
<1>1. /\ rootMenu' = rootMenu /\ curMenu' = curMenu /\ selected' = selected /\ stack' = stack
      /\ autoboot' = autoboot /\ cut' = cut /\ slipped' = slipped
  BY DEF InputArrives, Idle, slips
<1>2. Aimed' = Aimed /\ NumEntries(rootMenu)' = NumEntries(rootMenu)
  BY <1>1 DEF Aimed, NumEntries
<1>3. QED
  BY <1>1, <1>2, MovingStep

\* The menu's callback begins to move the selection.
LEMMA WillSelectMoves ==
  ASSUME Kept, Moving, Callback("ui"), NEW task, NEW n \in Nat, WillSelect(task, n),
         autoboot'.canceled, UNCHANGED <<rootMenu, curMenu, cut, slipped>>,
         n < NumEntries(rootMenu) \/ (slipped /\ task = "move")
  PROVE  Moving'
<1> DEFINE f == [Frame("ui", task, "store") EXCEPT !.to = n]
<1>1. stack' = Append(stack, f) /\ f.pc = "store" /\ f.to = n /\ f.task = task
  BY DEF WillSelect, Enter, Frame
<1> HIDE DEF f
<1>2. NoStore
  BY StoresAre
<1>3. stack \in Seq(FrameType) /\ Len(stack) \in Nat
  BY LenProperties DEF Kept, Nested, Stacked
<1>4. \A i \in 1..Len(stack') : (i \in 1..Len(stack) /\ stack'[i] = stack[i]) \/ (i = Len(stack) + 1 /\ stack'[i] = f)
  BY <1>1, <1>3, FramesOf
<1>5. Aimed'
  BY DEF Aimed
<1>6. ASSUME NEW i \in 1..Len(stack'), stack'[i].pc = "store"
      PROVE  /\ i = Len(stack) + 1 /\ stack'[i] = f
             /\ \A j \in 1..Len(stack') : ~(j > i)
  <2>1. i = Len(stack) + 1 /\ stack'[i] = f
    BY <1>2, <1>4, <1>6 DEF NoStore
  <2>2. ASSUME NEW j \in 1..Len(stack')
        PROVE  ~(j > i)
    <3>1. j \in 1..Len(stack) \/ j = Len(stack) + 1
      BY <1>4
    <3>2. QED
      BY <1>3, <2>1, <3>1
  <2>3. QED
    BY <2>1, <2>2
<1>7. ASSUME NEW i \in 1..Len(stack'), stack'[i] = f
      PROVE  StoreOK(stack[i])'
  <2>1. stack'[i].to = n /\ stack'[i].task = task
    BY <1>1, <1>7
  <2>2. NumEntries(rootMenu)' = NumEntries(rootMenu)
    BY DEF NumEntries
  <2>3. QED
    BY <2>1, <2>2 DEF StoreOK
<1>8. QED
  BY <1>5, <1>6, <1>7 DEF Moving

LEMMA UI_RedrawMoves ==
  ASSUME Kept, Moving, UI_Redraw
  PROVE  Moving'
<1> DEFINE n == NumEntries(rootMenu) - 1
<1>1. n \in Nat /\ n < NumEntries(rootMenu)
  BY LenProperties, StorageAssumption DEF Kept, Listed, NumEntries
<1>2. Callback("ui") /\ WillSelect("redraw", n) /\ UNCHANGED menuVars /\ selected >= NumEntries(rootMenu)
  BY DEF UI_Redraw
<1> HIDE DEF n
<1>3. UNCHANGED <<rootMenu, curMenu, autoboot, cut, slipped>>
  BY <1>2 DEF menuVars, slips
<1>4. autoboot.canceled
  <2>1. NumEntries(rootMenu) \in Nat /\ selected \in Nat
    BY LenProperties, StorageAssumption DEF Kept, Listed, Counted, NumEntries
  <2>2. SelectedInMenu /\ (slipped => autoboot.canceled)
    BY DEF Kept, Counted
  <2>3. ~(selected < NumEntries(rootMenu))
    BY <1>2, <2>1
  <2>4. QED
    BY <2>2, <2>3 DEF SelectedInMenu
<1>5. QED
  BY <1>1, <1>2, <1>3, <1>4, WillSelectMoves

LEMMA UI_HandleInputsMoves ==
  ASSUME Kept, Moving, UI_HandleInputs
  PROVE  Moving'
<1>1. /\ Callback("ui") /\ Canceled /\ UNCHANGED <<rootMenu, cut, slipped>>
  BY DEF UI_HandleInputs, slips
<1>2. autoboot'.canceled /\ NoStore
  BY <1>1, StoresAre DEF Canceled, Kept, Counted
<1>3. Others => Moving'
  <2>1. Aimed'
    BY <1>2 DEF Aimed
  <2>2. QED
    BY <1>2, <2>1, MovingStep DEF Others, Harmless, NoStore
<1>4. CASE (Down \/ Up) /\ UNCHANGED curMenu
  <2>1. /\ NumEntries(rootMenu) \in Nat /\ selected \in Nat
    BY LenProperties, StorageAssumption DEF Kept, Listed, Counted, NumEntries
  <2>2. ASSUME NEW n \in Nat, WillSelect("move", n), n < NumEntries(rootMenu) \/ slipped
        PROVE  Moving'
    BY <1>1, <1>2, <1>4, <2>2, WillSelectMoves
  <2>3. CASE Down
    <3>1. selected + 1 \in Nat /\ selected + 1 < NumEntries(rootMenu)
      BY <2>1, <2>3 DEF Down
    <3>2. QED
      BY <2>2, <2>3, <3>1 DEF Down
  <2>4. CASE Up
    <3>1. selected > 0 /\ WillSelect("move", selected - 1)
      BY <2>4 DEF Up
    <3>2. selected - 1 \in Nat /\ (selected < NumEntries(rootMenu) => selected - 1 < NumEntries(rootMenu))
      BY <2>1, <3>1
    <3>3. SelectedInMenu
      BY DEF Kept, Counted
    <3>4. selected - 1 < NumEntries(rootMenu) \/ slipped
      BY <3>2, <3>3 DEF SelectedInMenu
    <3>5. QED
      BY <2>2, <3>1, <3>2, <3>4
  <2>5. QED
    BY <1>4, <2>3, <2>4
<1>5. CASE Idle
  <2>1. Others
    BY <1>5 DEF Idle, Others
  <2>2. QED
    BY <1>3, <2>1
<1>6. CASE Select(Frame("ui", "boot", "resolve"), FALSE) /\ ~Idle
  <2> DEFINE f == Frame("ui", "boot", "resolve")
             g == BootFrame(f, rootMenu[selected + 1])
  <2>1. "ui" \in Devices \cup {"ui", "autoboot"} /\ "resolve" \in Places /\ "boot" \in Tasks
    BY DEF Places, Tasks
  <2>2. f \in FrameType
    BY <2>1, NewFrame
  <2>3. Select(f, FALSE)
    BY <1>6
  <2> HIDE DEF f
  <2>4. (selected < Len(rootMenu) /\ stack' = Append(stack, g)) \/ stack' = <<>>
    <3> HIDE DEF g
    <3>1. QED
      BY <1>6, <2>3 DEF Select, Enter, Stop, g
  <2>5. Others
    <3>1. CASE selected < Len(rootMenu) /\ stack' = Append(stack, g)
      <4>1. g.pc \in {"load", "resolve"}
        BY <2>2, <3>1, SelectedEntry, BootFrameOK
      <4> HIDE DEF g
      <4>2. QED
        BY <3>1, <4>1, OthersEnter DEF Harmless
    <3>2. QED
      BY <2>4, <3>1, OthersStop
  <2>6. QED
    BY <1>3, <2>5
<1>7. CASE Enter([Frame("ui", "shot", "target") EXCEPT !.old = mounted])
  <2> DEFINE g == [Frame("ui", "shot", "target") EXCEPT !.old = mounted]
  <2>1. g.pc = "target" /\ stack' = Append(stack, g)
    BY <1>7 DEF Frame, Enter
  <2> HIDE DEF g
  <2>2. QED
    BY <1>3, <2>1, OthersEnter DEF Harmless
<1>8. QED
  BY <1>4, <1>5, <1>6, <1>7 DEF UI_HandleInputs, Scroll

LEMMA StoreMoves ==
  ASSUME Kept, Moving, Store
  PROVE  StoreOK(Top) /\ Moving'
<1>1. /\ At("store") /\ stack' = Front(stack) /\ UNCHANGED <<rootMenu, curMenu, autoboot>> /\ Top.pc = "store"
  BY DEF Store, Return, At
<1>2. /\ Top = stack[Len(stack)] /\ Len(stack) \in 1..Len(stack) /\ Top.cb = "ui"
      /\ stack \in Seq(FrameType) /\ stack # <<>>
  BY <1>1, StoresAre, AtFacts DEF FrameOK
<1>3. StoreOK(Top)
  BY <1>1, <1>2 DEF Moving
<1>4. \A i \in 1..Len(stack') : i \in 1..Len(stack) /\ i # Len(stack) /\ stack'[i] = stack[i]
  BY <1>1, <1>2, FramesOf
<1>5. \A i \in 1..Len(stack') : stack'[i].pc # "store"
  BY <1>2, <1>4 DEF Kept, Nested, Stacked, FrameOK
<1>6. Aimed'
  BY <1>1, <1>3 DEF StoreOK, Aimed
<1>7. QED
  BY <1>3, <1>5, <1>6 DEF Moving

LEMMA InitKept ==
  ASSUME Init
  PROVE  Kept /\ Moving
<1>1. Typed /\ FilesKept
  BY DEF Init, Typed, FilesKept, NoFiles, Free
<1>2. Nested
  BY StackedNone, StorageAssumption DEF Init, Nested
<1>3. OpenKept
  BY NoFilesOwned DEF Init, OpenKept
<1>4. Listed
  <2> DEFINE none == <<>>
  <2>1. none \in Seq(PartRecord) /\ none \in Seq(Known) /\ Len(none) = 0 /\ Blocks(none) = none
    BY EmptySeq, BlocksEmpty
  <2>2. parts = none /\ rootMenu = none
    BY DEF Init
  <2> HIDE DEF none
  <2>3. \A i \in 1..Len(none) : FALSE
    BY <2>1
  <2>4. QED
    BY <2>1, <2>2, <2>3 DEF Listed, MenuInStep
<1>5. Counted
  <2>1. Len(rootMenu) = 0 /\ curMenu = "root" /\ selected = 0 /\ Builtins \in Nat
    BY EmptySeq, StorageAssumption DEF Init
  <2>2. SelectedInMenu
    BY <2>1 DEF SelectedInMenu, NumEntries
  <2>3. QED
    BY <2>2 DEF Init, Counted, AutobootTarget
<1>6. Moving
  <2> DEFINE none == <<>>
  <2>1. stack = none /\ Len(none) = 0
    BY EmptySeq DEF Init
  <2> HIDE DEF none
  <2>2. \A i \in 1..Len(stack) : FALSE
    BY <2>1
  <2>3. QED
    BY <2>2 DEF Moving
<1>7. QED
  BY <1>1, <1>2, <1>3, <1>4, <1>5, <1>6 DEF Kept

LEMMA NextKeeps ==
  ASSUME Kept, Moving, [Next]_vars
  PROVE  Kept' /\ Moving'
<1>1. CASE UNCHANGED vars
  <2>1. Listed' /\ Counted'
    BY <1>1, MenuSame DEF vars, sysVars
  <2>2. Nested' /\ OpenKept' /\ FilesKept' /\ Typed'
    BY <1>1 DEF vars, sysVars, Kept, Nested, OpenKept, FilesKept, Typed, fsVars, cfgVars
  <2>3. Others /\ UNCHANGED menuVars
    BY <1>1 DEF vars, sysVars, Others
  <2>4. QED
    BY <2>1, <2>2, <2>3, OthersMove DEF Kept
<1>2. CASE \E d \in Devices : B_Register(d) \/ B_Unregister(d)
  BY <1>2, RegisterKeeps, UnregisterKeeps, DeviceOthers, OthersMove
<1>3. CASE InputArrives \/ UI_HandleInputs
  BY <1>3, InputArrivesKeeps, UI_HandleInputsKeeps, InputArrivesMoves, UI_HandleInputsMoves
<1>4. CASE UI_Redraw \/ Countdown
  BY <1>4, UI_RedrawKeeps, CountdownKeeps, UI_RedrawMoves, CountdownMoves
<1>5. CASE FileSystemStep
  BY <1>5, MountStartKeeps, MountEndKeeps, NothingMountedKeeps, FileSystemOthers, OthersMove
     DEF FileSystemStep
<1>6. CASE BlockStep
  BY <1>6, ProbePartitionKeeps, UnmountPartitionKeeps, RemoveDeviceKeeps, BlockOthers, OthersMove
     DEF BlockStep
<1>7. CASE ConfigStep
  BY <1>7, OpenNpllKeeps, ReadNpllKeeps, OpenGumbootKeeps, ReadGumbootKeeps, ConfigOthers, OthersMove
     DEF ConfigStep
<1>8. CASE AddPart \/ DelPart
  BY <1>8, AddPartKeeps, DelPartKeeps, AddPartMoves, DelPartMoves
<1>9. CASE BootNow \/ Count
  BY <1>9, BootNowKeeps, CountKeeps, CountingMoves
<1>10. CASE Fire \/ Store
  BY <1>10, FireAimed, FireKeeps, FireMoves, StoreKeeps, StoreMoves
<1>11. CASE BootStep
  BY <1>11, ResolveKeeps, OpenFileKeeps, LoadAuxKeeps, LoadExecKeeps, StartChannelKeeps,
     BootOthers, OthersMove DEF BootStep
<1>12. CASE ScreenshotStep
  BY <1>12, ChooseTargetKeeps, SaveScreenshotKeeps, ScreenshotOthers, OthersMove DEF ScreenshotStep
<1>13. QED
  BY <1>1, <1>2, <1>3, <1>4, <1>5, <1>6, <1>7, <1>8, <1>9, <1>10, <1>11, <1>12
     DEF Next, Step, MenuStep

LEMMA StorageKept == Spec => [](Kept /\ Moving)
<1>1. Init => Kept /\ Moving
  BY InitKept
<1>2. Kept /\ Moving /\ [Next]_vars => Kept' /\ Moving'
  BY NextKeeps
<1>3. QED
  BY <1>1, <1>2, PTL DEF Spec

LEMMA KeptMenu ==
  ASSUME Kept
  PROVE  MenuKept
<1>1. rootMenu \in Seq(Known)
  BY DEF Kept, Listed
<1>2. DOMAIN rootMenu = 1..Len(rootMenu) /\ \A i \in 1..Len(rootMenu) : rootMenu[i] \in Known
  BY <1>1, LenProperties, ElementOfSeq
<1>3. \A i \in DOMAIN rootMenu : rootMenu[i] \in Entries
  BY <1>2 DEF Known
<1>4. TypeOK
  BY <1>3 DEF TypeOK, Kept, Typed, Nested, FilesKept, Counted
<1>5. QED
  BY <1>4 DEF MenuKept, Kept, Listed, Counted

\* Whatever callback interrupts what, for any devices, partitions and
\* configurations: every variable has its type, an open descriptor is one of
\* what is mounted, the root menu shows exactly the blocks of the partitions
\* that were added and not deleted, and the selection is an entry of the menu
\* that is shown (UI_AddPart, UI_DelPart, UI_HandleInputs of menu.c).
THEOREM MenuIsKept == Spec => []MenuKept
<1>1. Kept /\ Moving => MenuKept
  BY KeptMenu
<1>2. QED
  BY <1>1, StorageKept, PTL

\* While a countdown runs what is selected is an entry of a configuration
\* (autobootEventCB of menu.c), whatever callback interrupts what.
THEOREM AutobootHasTarget == Spec => []AutobootTarget
<1>1. Kept /\ Moving => AutobootTarget
  BY DEF Kept, Counted
<1>2. QED
  BY <1>1, StorageKept, PTL

-----------------------------------------------------------------------------
(***************************************************************************)
(* The menu and the boots are those of BootMenu.                           *)
(***************************************************************************)
Boots(s) == {s[i].entry : i \in {j \in DOMAIN s : s[j].task = "boot"}}

LEMMA BootsElements ==
  ASSUME NEW S, NEW s \in Seq(S)
  PROVE  \A e : e \in Boots(s) <=> \E i \in 1..Len(s) : s[i].task = "boot" /\ s[i].entry = e
<1>1. DOMAIN s = 1..Len(s)
  BY LenProperties
<1>2. QED
  BY <1>1 DEF Boots

LEMMA BootsNone == Boots(<<>>) = {}
  BY DEF Boots

LEMMA BootsEnter ==
  ASSUME NEW s \in Seq(FrameType), NEW f
  PROVE  /\ f.task # "boot" => Boots(Append(s, f)) = Boots(s)
         /\ f.task = "boot" => Boots(Append(s, f)) = Boots(s) \cup {f.entry}
<1> DEFINE S == FrameType \cup {f}
           t == Append(s, f)
<1>1. s \in Seq(S) /\ f \in S
  BY SeqMonotonic
<1> HIDE DEF S
<1>2. /\ t \in Seq(S) /\ Len(t) = Len(s) + 1 /\ Len(s) \in Nat
      /\ t[Len(s) + 1] = f /\ \A i \in 1..Len(s) : t[i] = s[i]
  BY <1>1, AppendProperties, LenProperties
<1> HIDE DEF t
<1>3. \A e : e \in Boots(s) <=> \E i \in 1..Len(s) : s[i].task = "boot" /\ s[i].entry = e
  BY <1>1, BootsElements
<1>4. \A e : e \in Boots(t) <=> \E i \in 1..Len(t) : t[i].task = "boot" /\ t[i].entry = e
  BY <1>2, BootsElements
<1>5. \A i \in 1..Len(t) : i \in 1..Len(s) \/ i = Len(s) + 1
  BY <1>2
<1>6. Len(s) + 1 \in 1..Len(t) /\ \A i \in 1..Len(s) : i \in 1..Len(t)
  BY <1>2
<1>7. \A e : e \in Boots(t) <=> e \in Boots(s) \/ (f.task = "boot" /\ f.entry = e)
  BY <1>2, <1>3, <1>4, <1>5, <1>6
<1>8. QED
  BY <1>7 DEF t

LEMMA BootsReturn ==
  ASSUME NEW s \in Seq(FrameType), s # <<>>
  PROVE  /\ Boots(Front(s)) \subseteq Boots(s)
         /\ Last(s).task # "boot" => Boots(Front(s)) = Boots(s)
         /\ Last(s).task = "boot" => Boots(s) = Boots(Front(s)) \cup {Last(s).entry}
<1> DEFINE t == Front(s)
<1>1. /\ t \in Seq(FrameType) /\ Len(t) = Len(s) - 1 /\ Len(s) \in Nat /\ Len(s) >= 1
      /\ \A i \in 1..(Len(s) - 1) : t[i] = s[i]
  BY FrontElements, TailElements
<1> HIDE DEF t
<1>2. Last(s) = s[Len(s)]
  BY DEF Last
<1>3. \A e : e \in Boots(s) <=> \E i \in 1..Len(s) : s[i].task = "boot" /\ s[i].entry = e
  BY BootsElements
<1>4. \A e : e \in Boots(t) <=> \E i \in 1..Len(t) : t[i].task = "boot" /\ t[i].entry = e
  BY <1>1, BootsElements
<1>5. \A i \in 1..Len(s) : i = Len(s) \/ (i \in 1..Len(t) /\ t[i] = s[i])
  BY <1>1
<1>6. Len(s) \in 1..Len(s) /\ \A i \in 1..Len(t) : i \in 1..Len(s) /\ t[i] = s[i]
  BY <1>1
<1>7. \A e : e \in Boots(s) <=> e \in Boots(t) \/ (Last(s).task = "boot" /\ Last(s).entry = e)
  BY <1>2, <1>3, <1>4, <1>5, <1>6
<1>8. QED
  BY <1>7 DEF t

\* The running callback goes on with the same entry, or with none.
LEMMA BootsContinue ==
  ASSUME NEW s \in Seq(FrameType), s # <<>>, NEW f,
         f.task # "boot" \/ (Last(s).task = "boot" /\ f.entry = Last(s).entry)
  PROVE  /\ Boots(Append(Front(s), f)) \subseteq Boots(s)
         /\ Last(s).task # "boot" => Boots(Append(Front(s), f)) = Boots(s)
<1>1. Front(s) \in Seq(FrameType)
  BY FrontElements
<1>2. QED
  BY <1>1, BootsReturn, BootsEnter

LEMMA MenuQuiet ==
  ASSUME rootMenu' = rootMenu, started' = started, Boots(stack') \subseteq Boots(stack)
  PROVE  [Menu!Next]_(Menu!vars)
  BY DEF Menu!Next, Menu!Abandon, BootsInProgress, Boots

\* A callback that returns or goes on leaves the menu as it was.
LEMMA QuietReturn ==
  ASSUME Kept, NEW at, At(at), Return, rootMenu' = rootMenu, started' = started
  PROVE  [Menu!Next]_(Menu!vars)
  BY AtFacts, BootsReturn, MenuQuiet DEF Return

LEMMA QuietContinue ==
  ASSUME Kept, NEW at, At(at), NEW f, Continue(f), rootMenu' = rootMenu, started' = started,
         f.task # "boot" \/ (Top.task = "boot" /\ f.entry = Top.entry)
  PROVE  [Menu!Next]_(Menu!vars)
  BY AtFacts, BootsContinue, MenuQuiet DEF Continue

LEMMA QuietGoto ==
  ASSUME Kept, NEW at, At(at), NEW pc, Goto(pc), rootMenu' = rootMenu, started' = started
  PROVE  [Menu!Next]_(Menu!vars)
<1> DEFINE f == [Top EXCEPT !.pc = pc]
<1>1. f.task = Top.task /\ f.entry = Top.entry
  BY AtFacts DEF FrameType
<1>2. Continue(f)
  BY DEF Goto
<1> HIDE DEF f
<1>3. QED
  BY <1>1, <1>2, QuietContinue

LEMMA QuietStop ==
  ASSUME stack' = <<>>, rootMenu' = rootMenu, started' = started
  PROVE  [Menu!Next]_(Menu!vars)
  BY BootsNone, MenuQuiet

\* An entry of the menu is chosen.
LEMMA MenuChoose ==
  ASSUME Kept, NEW e, selected < Len(rootMenu), e = rootMenu[selected + 1],
         rootMenu' = rootMenu, started' = started, Boots(stack') = Boots(stack) \cup {e}
  PROVE  [Menu!Next]_(Menu!vars)
<1>1. e \in Menu!ToSet(rootMenu)
  <2>1. rootMenu \in Seq(Known) /\ selected + 1 \in 1..Len(rootMenu)
    BY SelectedEntry DEF Kept, Listed
  <2>2. DOMAIN rootMenu = 1..Len(rootMenu)
    BY <2>1, LenProperties
  <2>3. QED
    BY <2>1, <2>2 DEF Menu!ToSet
<1>2. Menu!Choose
  BY <1>1 DEF Menu!Choose, BootsInProgress, Boots
<1>3. QED
  BY <1>2 DEF Menu!Next

LEMMA MenuStart ==
  ASSUME Kept, NEW at, At(at), Top.task = "boot", NEW program, program.entry = Top.entry,
         H_PrepareForExecEntry(program), rootMenu' = rootMenu
  PROVE  [Menu!Next]_(Menu!vars)
<1>1. stack' = <<>> /\ (started' = program \/ started' = started)
  BY DEF H_PrepareForExecEntry, Stop
<1>2. Boots(stack') = {}
  BY <1>1, BootsNone
<1>3. CASE started' = started
  BY <1>1, <1>3, QuietStop
<1>4. CASE started' = program
  <2>1. started'.entry \in Boots(stack)
    BY <1>4, AtFacts, BootsReturn
  <2>2. started.entry = NoEntry
    BY AtFacts DEF NotStarted
  <2>3. Menu!Start
    BY <1>2, <2>1, <2>2 DEF Menu!Start, BootsInProgress, Boots
  <2>4. QED
    BY <2>3 DEF Menu!Next
<1>5. QED
  BY <1>1, <1>3, <1>4

\* The callback of the selected entry: chosen by the menu's callback or the
\* countdown, or by the callback of a device that is being added.
LEMMA SelectMaps ==
  ASSUME Kept, NEW f \in FrameType, NEW running \in BOOLEAN, Select(f, running),
         rootMenu' = rootMenu, started' = started,
         ~running => stack \in Seq(FrameType),
         running => \E at : At(at) /\ Top.task # "boot"
  PROVE  [Menu!Next]_(Menu!vars)
<1>1. CASE /\ selected < Len(rootMenu)
           /\ IF running THEN Continue(BootFrame(f, rootMenu[selected + 1]))
                         ELSE Enter(BootFrame(f, rootMenu[selected + 1]))
  <2> DEFINE e == rootMenu[selected + 1]
             boot == BootFrame(f, e)
  <2>1. e \in Known
    BY <1>1, SelectedEntry
  <2>2. boot.task = "boot" /\ boot.entry = e
    BY <2>1, BootFrameOK
  <2>3. Boots(stack') = Boots(stack) \cup {e}
    <3> HIDE DEF boot, e
    <3>1. CASE ~running
      <4>1. stack' = Append(stack, boot) /\ stack \in Seq(FrameType)
        BY <1>1, <3>1 DEF Enter, boot, e
      <4>2. QED
        BY <2>2, <4>1, BootsEnter
    <3>2. CASE running
      <4>1. stack' = Append(Front(stack), boot)
        BY <1>1, <3>2 DEF Continue, boot, e
      <4>2. /\ stack \in Seq(FrameType) /\ stack # <<>> /\ Last(stack).task # "boot"
        BY <3>2, AtFacts
      <4>3. Front(stack) \in Seq(FrameType) /\ Boots(Front(stack)) = Boots(stack)
        BY <4>2, FrontElements, BootsReturn
      <4>4. QED
        BY <2>2, <4>1, <4>3, BootsEnter
    <3>3. QED
      BY <3>1, <3>2
  <2>4. QED
    BY <1>1, <2>3, MenuChoose
<1>2. CASE IF running THEN Return ELSE Idle
  <2>1. CASE running
    BY <1>2, <2>1, QuietReturn
  <2>2. CASE ~running
    BY <1>2, <2>2, MenuQuiet DEF Idle
  <2>3. QED
    BY <2>1, <2>2
<1>3. CASE Stop("wild")
  BY <1>3, QuietStop DEF Stop
<1>4. QED
  BY <1>1, <1>2, <1>3 DEF Select

\* A callback that begins with no entry.
LEMMA QuietEnter ==
  ASSUME Kept, halt = "no", NEW f, stack' = Append(stack, f), f.task # "boot",
         rootMenu' = rootMenu, started' = started
  PROVE  [Menu!Next]_(Menu!vars)
<1>1. stack \in Seq(FrameType)
  BY DEF Kept, Nested, Stacked
<1>2. Boots(stack') = Boots(stack)
  BY <1>1, BootsEnter
<1>3. QED
  BY <1>2, MenuQuiet

LEMMA WillSelectMaps ==
  ASSUME Kept, halt = "no", NEW task \in {"move", "redraw"}, NEW n, WillSelect(task, n),
         rootMenu' = rootMenu, started' = started
  PROVE  [Menu!Next]_(Menu!vars)
<1> DEFINE f == [Frame("ui", task, "store") EXCEPT !.to = n]
<1>1. f.task = task /\ stack' = Append(stack, f)
  BY DEF WillSelect, Enter, Frame
<1> HIDE DEF f
<1>2. QED
  BY <1>1, QuietEnter

LEMMA CallbackMaps ==
  ASSUME Kept, UI_HandleInputs \/ UI_Redraw \/ Countdown \/ InputArrives
  PROVE  [Menu!Next]_(Menu!vars)
<1>1. stack \in Seq(FrameType)
  BY DEF Kept, Nested, Stacked
<1>2. /\ Frame("ui", "boot", "resolve") \in FrameType
      /\ Frame("autoboot", "count", "count").task = "count"
      /\ Frame("ui", "shot", "target") \in FrameType /\ Frame("ui", "shot", "target").task = "shot"
  BY NewFrame DEF Places, Tasks
<1>3. CASE InputArrives
  <2>1. rootMenu' = rootMenu /\ started' = started /\ stack' = stack
    BY <1>3 DEF InputArrives, Idle, Running
  <2>2. QED
    BY <2>1, MenuQuiet
<1>4. CASE Countdown
  <2> DEFINE f == Frame("autoboot", "count", "count")
  <2>1. /\ rootMenu' = rootMenu /\ started' = started /\ halt = "no"
        /\ stack' = Append(stack, f) /\ f.task # "boot"
    BY <1>2, <1>4 DEF Countdown, Callback, Enter, Running, menuVars
  <2> HIDE DEF f
  <2>2. QED
    BY <2>1, QuietEnter
<1>5. CASE UI_HandleInputs
  <2>1. rootMenu' = rootMenu /\ started' = started /\ halt = "no"
    BY <1>5 DEF UI_HandleInputs, Callback
  <2>2. CASE Idle
    BY <2>1, <2>2, MenuQuiet DEF Idle
  <2>3. CASE Select(Frame("ui", "boot", "resolve"), FALSE)
    BY <1>1, <1>2, <2>1, <2>3, SelectMaps
  <2>4. CASE Enter([Frame("ui", "shot", "target") EXCEPT !.old = mounted])
    <3> DEFINE f == [Frame("ui", "shot", "target") EXCEPT !.old = mounted]
    <3>1. f.task = "shot" /\ stack' = Append(stack, f)
      BY <1>2, <2>4 DEF Enter, FrameType
    <3> HIDE DEF f
    <3>2. QED
      BY <2>1, <3>1, QuietEnter
  <2>5. CASE Down \/ Up
    BY <2>1, <2>5, WillSelectMaps DEF Down, Up
  <2>6. QED
    BY <1>5, <2>2, <2>3, <2>4, <2>5 DEF UI_HandleInputs, Scroll
<1>6. CASE UI_Redraw
  BY <1>6, WillSelectMaps DEF UI_Redraw, Callback, Running, menuVars
<1>7. QED
  BY <1>3, <1>4, <1>5, <1>6

LEMMA DeviceMaps ==
  ASSUME Kept, NEW d \in Devices, B_Register(d) \/ B_Unregister(d)
  PROVE  [Menu!Next]_(Menu!vars)
<1>1. rootMenu' = rootMenu /\ started' = started /\ halt = "no"
  BY DEF B_Register, B_Unregister, Callback, Running, menuVars
<1>2. /\ Frame(d, "register", "partition") \in FrameType /\ Frame(d, "unregister", "unmount") \in FrameType
      /\ Frame(d, "register", "partition").task = "register"
      /\ Frame(d, "unregister", "unmount").task = "unregister"
  BY NewFrame DEF Places, Tasks
<1>3. CASE B_Register(d)
  <2> DEFINE f == [Frame(d, "register", "partition") EXCEPT !.rest = PartsOf[d]]
  <2>1. f.task = "register" /\ stack' = Append(stack, f)
    BY <1>2, <1>3 DEF B_Register, Enter, FrameType
  <2> HIDE DEF f
  <2>2. QED
    BY <1>1, <2>1, QuietEnter
<1>4. CASE B_Unregister(d)
  <2> DEFINE f == [Frame(d, "unregister", "unmount") EXCEPT !.rest = PartsOf[d]]
  <2>1. f.task = "unregister" /\ stack' = Append(stack, f)
    BY <1>2, <1>4 DEF B_Unregister, FrameType
  <2> HIDE DEF f
  <2>2. QED
    BY <1>1, <2>1, QuietEnter
<1>5. QED
  BY <1>3, <1>4

\* What the running callback does with another task than a boot, or with
\* the entry it boots.
LEMMA QuietRefused ==
  ASSUME Kept, NEW at, At(at), Refused \/ AfterMount, rootMenu' = rootMenu, started' = started
  PROVE  [Menu!Next]_(Menu!vars)
  BY QuietReturn, QuietGoto DEF Refused, AfterMount

LEMMA FileSystemMaps ==
  ASSUME Kept, FileSystemStep
  PROVE  [Menu!Next]_(Menu!vars)
<1>1. CASE MountStart
  <2>1. At("mount") /\ rootMenu' = rootMenu
    BY <1>1 DEF MountStart, menuVars
  <2>2. \/ Stop("assert") /\ started' = started
        \/ Refused /\ started' = started
        \/ Goto("mounting") /\ started' = started
    BY <1>1 DEF MountStart, Running
  <2>3. QED
    BY <2>1, <2>2, QuietStop, QuietRefused, QuietGoto DEF Stop
<1>2. CASE MountEnd
  <2>1. At("mounting") /\ rootMenu' = rootMenu /\ started' = started /\ (AfterMount \/ Refused)
    BY <1>2 DEF MountEnd, menuVars, Running
  <2>2. QED
    BY <2>1, QuietRefused
<1>3. CASE NothingMounted
  <2>1. stack' = <<>> /\ rootMenu' = rootMenu /\ started' = started
    BY <1>3 DEF NothingMounted, Stop, menuVars
  <2>2. QED
    BY <2>1, QuietStop
<1>4. QED
  BY <1>1, <1>2, <1>3 DEF FileSystemStep

LEMMA BlockMaps ==
  ASSUME Kept, BlockStep
  PROVE  [Menu!Next]_(Menu!vars)
<1>1. CASE ProbePartition
  <2>1. At("partition") /\ rootMenu' = rootMenu /\ started' = started
    BY <1>1 DEF ProbePartition, menuVars, Running
  <2>2. Top \in FrameType /\ Top.task = "register"
    BY <2>1, AtFacts DEF FrameOK, PlaceOK
  <2> DEFINE p == Head(Top.rest)
             r == Tail(Top.rest)
             f == [Top EXCEPT !.rest = r]
             g == [f EXCEPT !.part = p, !.pc = "mount"]
  <2>3. Return \/ Continue(g) \/ Continue(f)
    BY <1>1 DEF ProbePartition
  <2> HIDE DEF p, r
  <2>4. f.task = "register" /\ g.task = "register"
    BY <2>2 DEF FrameType
  <2> HIDE DEF f, g
  <2>5. QED
    BY <2>1, <2>3, <2>4, QuietReturn, QuietContinue
<1>2. CASE UnmountPartition
  <2>1. At("unmount") /\ rootMenu' = rootMenu /\ started' = started /\ Goto("delpart")
    BY <1>2 DEF UnmountPartition, menuVars, Running
  <2>2. QED
    BY <2>1, QuietGoto
<1>3. CASE RemoveDevice
  <2>1. At("unmount") /\ rootMenu' = rootMenu /\ started' = started /\ Return
    BY <1>3 DEF RemoveDevice, menuVars, Running
  <2>2. QED
    BY <2>1, QuietReturn
<1>4. QED
  BY <1>1, <1>2, <1>3 DEF BlockStep

LEMMA ConfigMaps ==
  ASSUME Kept, ConfigStep
  PROVE  [Menu!Next]_(Menu!vars)
<1>1. PICK at \in {"npll", "npllRead", "gumboot", "gumbootRead"} : At(at)
  BY DEF ConfigStep, OpenNpll, ReadNpll, OpenGumboot, ReadGumboot
<1>2. rootMenu' = rootMenu /\ started' = started
  BY DEF ConfigStep, OpenNpll, ReadNpll, OpenGumboot, ReadGumboot, menuVars, Running
<1>3. Top \in FrameType /\ Top.task = "register"
  BY <1>1, AtFacts DEF FrameOK, PlaceOK
<1>4. CASE OpenNpll
  <2>1. \/ \E s \in 1..Slots : Continue([Top EXCEPT !.first = ~consumed, !.fd = s, !.pc = "npllRead"])
        \/ Continue([Top EXCEPT !.first = FALSE, !.pc = "gumboot"])
    BY <1>4 DEF OpenNpll
  <2>2. CASE Continue([Top EXCEPT !.first = FALSE, !.pc = "gumboot"])
    <3> DEFINE f == [Top EXCEPT !.first = FALSE, !.pc = "gumboot"]
    <3>1. f.task = "register" /\ Continue(f)
      BY <1>3, <2>2 DEF FrameType
    <3> HIDE DEF f
    <3>2. QED
      BY <1>1, <1>2, <3>1, QuietContinue
  <2>3. ASSUME NEW s \in 1..Slots,
               Continue([Top EXCEPT !.first = ~consumed, !.fd = s, !.pc = "npllRead"])
        PROVE  [Menu!Next]_(Menu!vars)
    <3> DEFINE b == ~consumed
               f == [Top EXCEPT !.first = b, !.fd = s, !.pc = "npllRead"]
    <3>1. Continue(f)
      BY <2>3
    <3> HIDE DEF b
    <3>2. f.task = "register"
      BY <1>3 DEF FrameType
    <3> HIDE DEF f
    <3>3. QED
      BY <1>1, <1>2, <3>1, <3>2, QuietContinue
  <2>4. QED
    BY <2>1, <2>2, <2>3
<1>5. CASE OpenGumboot
  <2>1. (\E s \in 1..Slots : Continue([Top EXCEPT !.fd = s, !.pc = "gumbootRead"])) \/ Goto("add")
    BY <1>5 DEF OpenGumboot
  <2>2. ASSUME NEW s \in 1..Slots, Continue([Top EXCEPT !.fd = s, !.pc = "gumbootRead"])
        PROVE  [Menu!Next]_(Menu!vars)
    <3> DEFINE f == [Top EXCEPT !.fd = s, !.pc = "gumbootRead"]
    <3>1. Continue(f) /\ f.task = "register"
      BY <1>3, <2>2 DEF FrameType
    <3> HIDE DEF f
    <3>2. QED
      BY <1>1, <1>2, <3>1, QuietContinue
  <2>3. QED
    BY <1>1, <1>2, <2>1, <2>2, QuietGoto
<1>6. CASE ReadNpll
  <2> DEFINE cfg == Npll[mounted]
             es == EntriesOf("npll", mounted, Top.part)
             gl == IF Top.first THEN [timeout |-> cfg.timeout, default |-> cfg.default]
                                ELSE NoGlobals
             f == [Top EXCEPT !.pc = "gumboot", !.found = es, !.globals = gl]
  <2>1. Return \/ Continue(f)
    BY <1>6 DEF ReadNpll, ProbeFails
  <2> HIDE DEF cfg, es, gl
  <2>2. f.task = "register"
    BY <1>3 DEF FrameType
  <2> HIDE DEF f
  <2>3. QED
    BY <1>1, <1>2, <2>1, <2>2, QuietReturn, QuietContinue
<1>7. CASE ReadGumboot
  <2> DEFINE cfg == Gumboot[mounted]
             all == Top.found \o EntriesOf("gumboot", mounted, Top.part)
             gl == GumbootGlobals(cfg)
             f == [Top EXCEPT !.pc = "add", !.found = all, !.globals = gl]
  <2>1. Return \/ Continue(f)
    BY <1>7 DEF ReadGumboot, ProbeFails
  <2> HIDE DEF cfg, all, gl
  <2>2. f.task = "register"
    BY <1>3 DEF FrameType
  <2> HIDE DEF f
  <2>3. QED
    BY <1>1, <1>2, <2>1, <2>2, QuietReturn, QuietContinue
<1>8. QED
  BY <1>4, <1>5, <1>6, <1>7 DEF ConfigStep

\* A partition joins the menu in front of the others.
LEMMA AddPartMaps ==
  ASSUME Kept, AddPart
  PROVE  [Menu!Next]_(Menu!vars)
<1>1. At("add") /\ started' = started
  BY DEF AddPart, Running
<1>2. /\ FrameOK(Top) /\ Top \in FrameType /\ Top.task = "register" /\ Top.part \in Parts
      /\ stack \in Seq(FrameType) /\ stack # <<>> /\ Last(stack) = Top
  BY <1>1, AtFacts DEF FrameOK, PlaceOK, HasPart
<1>3. CASE Top.found = <<>>
  <2>1. Return /\ rootMenu' = rootMenu
    BY <1>3 DEF AddPart, menuVars
  <2>2. QED
    BY <1>1, <2>1, QuietReturn
<1>4. CASE Top.found # <<>>
  <2> DEFINE es == Top.found
             f == [Top EXCEPT !.pc = "bootNow"]
  <2>1. es \in Seq(Known) /\ es # <<>> /\ \A i \in 1..Len(es) : es[i].owner = Top.part
    BY <1>2, <1>4 DEF FrameOK, FrameType
  <2>2. f.task = "register"
    BY <1>2 DEF FrameType
  <2>3. Boots(stack') = Boots(stack)
    <3>1. stack' = Front(stack) \/ stack' = Append(Front(stack), f)
      BY <1>4 DEF AddPart, Return, Goto, Continue
    <3> HIDE DEF f
    <3>2. Last(stack).task # "boot" /\ f.task # "boot"
      BY <1>2, <2>2
    <3>3. Boots(Front(stack)) = Boots(stack)
      BY <1>2, <3>2, BootsReturn
    <3>4. Boots(Append(Front(stack), f)) = Boots(stack)
      BY <1>2, <3>2, BootsContinue
    <3>5. QED
      BY <3>1, <3>3, <3>4
  <2>4. rootMenu' = es \o rootMenu /\ rootMenu \in Seq(Known)
    BY <1>4 DEF AddPart, Prepended, Kept, Listed
  <2> HIDE DEF es, f
  <2>5. /\ Len(es) \in Nat /\ Len(es) >= 1 /\ Len(rootMenu) \in Nat
        /\ Len(rootMenu') = Len(es) + Len(rootMenu)
        /\ \A i \in 1..(Len(es) + Len(rootMenu)) :
             rootMenu'[i] = IF i <= Len(es) THEN es[i] ELSE rootMenu[i - Len(es)]
    BY <2>1, <2>4, ConcatProperties, LenProperties, TailElements
  <2> DEFINE added == Len(rootMenu') - Len(rootMenu)
  <2>6. added = Len(es) /\ added > 0
    BY <2>5
  <2> HIDE DEF added
  <2>7. ASSUME NEW i \in 1..added
        PROVE  rootMenu'[i].owner = Top.part
    <3>1. i \in 1..Len(es) /\ i \in 1..(Len(es) + Len(rootMenu)) /\ i <= Len(es)
      BY <2>5, <2>6
    <3>2. QED
      BY <2>1, <2>5, <3>1
  <2>8. ASSUME NEW i \in 1..Len(rootMenu)
        PROVE  rootMenu'[added + i] = rootMenu[i]
    <3>1. /\ added + i \in 1..(Len(es) + Len(rootMenu)) /\ ~(added + i <= Len(es))
          /\ (added + i) - Len(es) = i
      BY <2>5, <2>6
    <3>2. QED
      BY <2>5, <3>1
  <2>9. Menu!Attach(Top.part)
    BY <1>1, <2>3, <2>6, <2>7, <2>8 DEF Menu!Attach, BootsInProgress, Boots, added
  <2>10. QED
    BY <1>2, <2>9 DEF Menu!Next
<1>5. QED
  BY <1>3, <1>4

\* It leaves the menu with all its entries.
LEMMA DelPartMaps ==
  ASSUME Kept, DelPart
  PROVE  [Menu!Next]_(Menu!vars)
<1> DEFINE p == Head(Top.rest)
           r == Tail(Top.rest)
           f == [Top EXCEPT !.rest = r, !.pc = "unmount"]
<1>0. At("delpart") /\ started' = started
  BY DEF DelPart, Running
<1>1. /\ Top \in FrameType /\ Top.task = "unregister" /\ Top.rest \in Seq(Parts) /\ Top.rest # <<>>
      /\ stack \in Seq(FrameType) /\ stack # <<>> /\ Last(stack) = Top
  BY <1>0, AtFacts DEF FrameOK, PlaceOK
<1>2. p \in Parts
  BY <1>1, HeadTailProperties
<1>3. rootMenu' = WithoutOwner(rootMenu, p) /\ stack' = Append(Front(stack), f)
  BY DEF DelPart, Without, Continue
<1> HIDE DEF p, r
<1>4. f.task = "unregister"
  BY <1>1 DEF FrameType
<1> HIDE DEF f
<1>5. Boots(stack') = Boots(stack)
  BY <1>1, <1>3, <1>4, BootsContinue
<1>6. Menu!Detach(p)
  BY <1>0, <1>3, <1>5 DEF Menu!Detach, Menu!WithoutOwner, WithoutOwner, BootsInProgress, Boots
<1>7. QED
  BY <1>2, <1>6 DEF Menu!Next

\* The countdown, and the movement of the selection.
LEMMA CountingMaps ==
  ASSUME Kept, BootNow \/ Count \/ Fire \/ Store
  PROVE  [Menu!Next]_(Menu!vars)
<1>1. started' = started /\ rootMenu' = rootMenu
  BY DEF BootNow, Count, Fire, Store, Running, menuVars
<1>2. CASE BootNow
  <2>1. At("bootNow") /\ (Goto("count") \/ Return)
    BY <1>2 DEF BootNow
  <2>2. QED
    BY <1>1, <2>1, QuietReturn, QuietGoto
<1>3. CASE Count
  <2>1. At("count") /\ (Goto("fire") \/ Return)
    BY <1>3 DEF Count
  <2>2. QED
    BY <1>1, <2>1, QuietReturn, QuietGoto
<1>4. CASE Fire
  <2>1. At("fire") /\ Select(Top, TRUE)
    BY <1>4 DEF Fire
  <2>2. Top \in FrameType /\ Top.task \in {"register", "count"}
    BY <2>1, AtFacts DEF FrameOK, PlaceOK
  <2>3. QED
    BY <1>1, <2>1, <2>2, SelectMaps
<1>5. CASE Store
  <2>1. At("store") /\ Return
    BY <1>5 DEF Store
  <2>2. QED
    BY <1>1, <2>1, QuietReturn
<1>6. QED
  BY <1>2, <1>3, <1>4, <1>5

LEMMA BootMaps ==
  ASSUME Kept, BootStep
  PROVE  [Menu!Next]_(Menu!vars)
<1>1. rootMenu' = rootMenu
  BY DEF BootStep, Resolve, OpenFile, LoadAux, LoadExec, StartChannel, menuVars
<1>2. PICK at \in {"resolve", "open", "load"} : At(at)
  BY DEF BootStep, Resolve, OpenFile, LoadAux, LoadExec, StartChannel
<1>3. Top \in FrameType /\ Top.task = "boot"
  BY <1>2, AtFacts DEF FrameOK, PlaceOK
<1>4. CASE Resolve
  <2> DEFINE p == Target(Top.entry, Head(Top.rest))
             pc == IF mounted = p THEN "open" ELSE "mount"
             f == [Top EXCEPT !.part = p, !.pc = pc]
  <2>1. (Return \/ Continue(f)) /\ started' = started
    BY <1>4 DEF Resolve, Running
  <2> HIDE DEF p, pc
  <2>2. f.task = "boot" /\ f.entry = Top.entry
    BY <1>3 DEF FrameType
  <2> HIDE DEF f
  <2>3. QED
    BY <1>1, <1>2, <1>3, <2>1, <2>2, QuietReturn, QuietContinue
<1>5. CASE OpenFile
  <2>1. started' = started
    BY <1>5 DEF OpenFile, Running
  <2>2. ASSUME NEW s \in 1..Slots, Continue([Top EXCEPT !.fd = s, !.pc = "load"])
        PROVE  [Menu!Next]_(Menu!vars)
    <3> DEFINE f == [Top EXCEPT !.fd = s, !.pc = "load"]
    <3>1. Continue(f) /\ f.task = "boot" /\ f.entry = Top.entry
      BY <1>3, <2>2 DEF FrameType
    <3> HIDE DEF f
    <3>2. QED
      BY <1>1, <1>2, <1>3, <2>1, <3>1, QuietContinue
  <2>3. Return \/ \E s \in 1..Slots : Continue([Top EXCEPT !.fd = s, !.pc = "load"])
    BY <1>5 DEF OpenFile
  <2>4. QED
    BY <1>1, <1>2, <2>1, <2>2, <2>3, QuietReturn
<1>6. CASE LoadAux
  <2> DEFINE got == Append(Top.got, files[Top.fd])
             r == Tail(Top.rest)
             f == [Top EXCEPT !.got = got, !.rest = r, !.pc = "resolve"]
  <2>1. (Return \/ Continue(f)) /\ started' = started
    BY <1>6 DEF LoadAux, Running
  <2> HIDE DEF got, r
  <2>2. f.task = "boot" /\ f.entry = Top.entry
    BY <1>3 DEF FrameType
  <2> HIDE DEF f
  <2>3. QED
    BY <1>1, <1>2, <1>3, <2>1, <2>2, QuietReturn, QuietContinue
<1>7. CASE LoadExec
  <2> DEFINE program == [entry |-> Top.entry, hook |-> hook,
                         got |-> Append(Top.got, files[Top.fd])]
  <2>1. \/ H_PrepareForExecEntry(program)
        \/ Return /\ started' = started
        \/ Stop("panic") /\ started' = started
    BY <1>7 DEF LoadExec, Running
  <2>2. program.entry = Top.entry
    OBVIOUS
  <2> HIDE DEF program
  <2>3. QED
    BY <1>1, <1>2, <1>3, <2>1, <2>2, MenuStart, QuietReturn, QuietStop DEF Stop
<1>8. CASE StartChannel
  <2> DEFINE program == [entry |-> Top.entry, got |-> <<>>, hook |-> FALSE]
  <2>1. H_PrepareForExecEntry(program) \/ (Return /\ started' = started)
    BY <1>8 DEF StartChannel, Running
  <2>2. program.entry = Top.entry
    OBVIOUS
  <2> HIDE DEF program
  <2>3. QED
    BY <1>1, <1>2, <1>3, <2>1, <2>2, MenuStart, QuietReturn
<1>9. QED
  BY <1>4, <1>5, <1>6, <1>7, <1>8 DEF BootStep

LEMMA ScreenshotMaps ==
  ASSUME Kept, ScreenshotStep
  PROVE  [Menu!Next]_(Menu!vars)
<1>1. rootMenu' = rootMenu /\ started' = started
  BY DEF ScreenshotStep, ChooseTarget, SaveScreenshot, menuVars, Running
<1>2. PICK at \in {"target", "write"} : At(at)
  BY DEF ScreenshotStep, ChooseTarget, SaveScreenshot
<1>3. Top \in FrameType /\ Top.task = "shot"
  BY <1>2, AtFacts DEF FrameOK, PlaceOK
<1>4. ASSUME NEW p, NEW pc \in {"write", "mount"}, Continue([Top EXCEPT !.part = p, !.pc = pc])
      PROVE  [Menu!Next]_(Menu!vars)
  <2> DEFINE f == [Top EXCEPT !.part = p, !.pc = pc]
  <2>1. Continue(f) /\ f.task = "shot"
    BY <1>3, <1>4 DEF FrameType
  <2> HIDE DEF f
  <2>2. QED
    BY <1>1, <1>2, <2>1, QuietContinue
<1>5. CASE ChooseTarget
  <2>1. \/ Return
        \/ Continue([Top EXCEPT !.part = Top.old, !.pc = "write"])
        \/ \E p \in Parts : Continue([Top EXCEPT !.part = p, !.pc = "mount"])
    BY <1>5 DEF ChooseTarget
  <2>2. QED
    BY <1>1, <1>2, <1>4, <2>1, QuietReturn
<1>6. CASE SaveScreenshot
  <2> DEFINE p == Top.old
             f == [Top EXCEPT !.task = "restore", !.part = p, !.pc = "mount"]
  <2>1. Return \/ Continue(f)
    BY <1>6 DEF SaveScreenshot
  <2> HIDE DEF p
  <2>2. f.task = "restore"
    BY <1>3 DEF FrameType
  <2> HIDE DEF f
  <2>3. QED
    BY <1>1, <1>2, <2>1, <2>2, QuietReturn, QuietContinue
<1>7. QED
  BY <1>5, <1>6 DEF ScreenshotStep

LEMMA StepMaps ==
  ASSUME Kept, [Next]_vars
  PROVE  [Menu!Next]_(Menu!vars)
<1>1. CASE UNCHANGED vars
  <2>1. rootMenu' = rootMenu /\ started' = started /\ stack' = stack
    BY <1>1 DEF vars, sysVars, menuVars
  <2>2. QED
    BY <2>1, MenuQuiet
<1>2. CASE \E d \in Devices : B_Register(d) \/ B_Unregister(d)
  BY <1>2, DeviceMaps
<1>3. CASE InputArrives \/ UI_HandleInputs \/ UI_Redraw \/ Countdown
  BY <1>3, CallbackMaps
<1>4. CASE MenuStep
  BY <1>4, AddPartMaps, DelPartMaps, CountingMaps DEF MenuStep
<1>5. QED
  BY <1>1, <1>2, <1>3, <1>4, FileSystemMaps, BlockMaps, ConfigMaps, BootMaps, ScreenshotMaps
     DEF Next, Step

\* The menu, the boots in progress and the started program are those of
\* BootMenu, for any devices, configurations and depth of nesting:
\* partitions come and go as whole blocks (UI_AddPart, UI_DelPart), and what
\* H_PrepareForExecEntry starts is an entry that was in the menu when it was
\* chosen and whose boot has not failed since.
THEOREM StorageImplementsMenu == Spec => MenuSpec
<1>1. Init => Menu!Init
  BY BootsNone DEF Init, Menu!Init, NotStarted, BootsInProgress, Boots
<1>2. Kept /\ Moving /\ [Next]_vars => [Menu!Next]_(Menu!vars)
  BY StepMaps
<1>3. QED
  BY <1>1, <1>2, StorageKept, PTL DEF Spec, MenuSpec, Menu!Spec

-----------------------------------------------------------------------------
(***************************************************************************)
(* As long as no two callbacks that work on devices, filesystems or        *)
(* configurations cross.  There is at most one that has begun, wherever    *)
(* those of the menu have interrupted it; what it works on is still as it  *)
(* has found it.                                                           *)
(***************************************************************************)
Uncrossed == ~Crossing'

\* A device is being added: its partitions are probed, and what is mounted
\* is the one whose configuration is read.  Once an npll.cfg was read, a
\* timeout is that of the configuration of this partition.
Registering(f, what, read, by) ==
  f.task = "register" =>
    /\ \A i \in 1..Len(f.rest) : DevOf(f.rest[i]) = f.cb
    /\ f.pc \in HasPart => DevOf(f.part) = f.cb
    /\ f.pc \in {"npll", "npllRead", "gumboot", "gumbootRead"} => what = f.part
    /\ \A i \in 1..Len(f.found) : f.found[i].src = f.part
    /\ f.pc \in {"partition", "mount", "mounting", "npll", "npllRead"} => f.globals.timeout < 0
    /\ f.pc = "npllRead" /\ f.first => ~read
    /\ f.pc \in {"gumboot", "gumbootRead", "add"} /\ f.globals.timeout >= 0 /\ read => by = f.part

\* A device is being removed: the partitions that are done are neither
\* mounted nor in the menu.
Unregistering(f, what, menu) ==
  f.task = "unregister" =>
    /\ \A p \in Parts : DevOf(p) = f.cb =>
         \/ \E i \in 1..Len(f.rest) : f.rest[i] = p
         \/ what # p /\ \A i \in 1..Len(menu) : menu[i].owner # p
    /\ f.pc = "delpart" => what # Head(f.rest)

\* An entry is being booted: what it has loaded is what its first paths
\* name, and what is mounted is what the next one names.
Booting(f, there, what, hk) ==
  f.task = "boot" =>
    /\ DevOf(f.entry.src) \in there
    /\ Len(f.got) + Len(f.rest) = Len(What(f.entry).paths)
    /\ \A i \in 1..Len(f.got) : f.got[i] = Target(f.entry, What(f.entry).paths[i])
    /\ \A i \in 1..Len(f.rest) : f.rest[i] = What(f.entry).paths[Len(f.got) + i]
    /\ f.rest = <<>> => f.got = <<>>
    /\ f.rest # <<>> /\ f.pc \in {"mount", "mounting", "open", "load"} =>
         f.part = Target(f.entry, Head(f.rest))
    /\ f.rest # <<>> /\ f.pc \in {"open", "load"} => what = f.part
    /\ f.pc = "load" /\ Len(f.rest) = 1 /\ f.entry.file = "npll" => hk = NeedsHook(f.entry)

\* A screenshot is being saved: old is what was mounted before.
Shooting(f, there, what) ==
  /\ f.task \in {"shot", "restore"} /\ f.old # NoPart => DevOf(f.old) \in there
  /\ f.task = "shot" /\ f.pc = "target" => what = f.old
  /\ f.task = "shot" /\ f.pc = "write" => what = f.part
  /\ f.task = "restore" => f.part = f.old

Mounting(f, there, what) ==
  /\ f.pc \in {"mount", "mounting"} => DevOf(f.part) \in there
  /\ f.pc = "mounting" => what = NoPart

TaskKept(f, there, what, read, by, menu, hk) ==
  /\ Registering(f, what, read, by)
  /\ Unregistering(f, what, menu)
  /\ Booting(f, there, what, hk)
  /\ Shooting(f, there, what)
  /\ Mounting(f, there, what)

Working ==
  halt = "no" => \A i \in 1..Len(stack) :
    ~Quiet(stack[i]) => TaskKept(stack[i], devices, mounted, consumed, decider, rootMenu, hook)
Live == MountLive /\ EntriesLive
Ends == StartedFromPaths /\ HookOfEntry

KeptAlone == Kept /\ ~Crossing /\ Working /\ Live /\ Ends

LEMMA DevOfPart ==
  /\ \A d \in Devices : \A i \in 1..Len(PartsOf[d]) : DevOf(PartsOf[d][i]) = d
  /\ \A p \in Parts : DevOf(p) \in Devices /\ \E i \in 1..Len(PartsOf[DevOf(p)]) : PartsOf[DevOf(p)][i] = p
<1>1. \A d \in Devices : PartsOf[d] \in Seq(Parts) /\ DOMAIN PartsOf[d] = 1..Len(PartsOf[d])
  <2>1. \A d \in Devices : PartsOf[d] \in Seq(Parts)
    BY StorageAssumption
  <2>2. QED
    BY <2>1, LenProperties
<1>2. ASSUME NEW p, NEW d \in Devices, NEW i \in 1..Len(PartsOf[d]), PartsOf[d][i] = p
      PROVE  DevOf(p) = d
  <2>1. DevOf(p) \in Devices /\ \E j \in DOMAIN PartsOf[DevOf(p)] : PartsOf[DevOf(p)][j] = p
    BY <1>1, <1>2 DEF DevOf
  <2>2. QED
    BY <1>1, <1>2, <2>1, StorageAssumption
<1>3. ASSUME NEW p \in Parts
      PROVE  DevOf(p) \in Devices /\ \E i \in 1..Len(PartsOf[DevOf(p)]) : PartsOf[DevOf(p)][i] = p
  <2>1. \E d \in Devices : \E i \in DOMAIN PartsOf[d] : PartsOf[d][i] = p
    BY StorageAssumption
  <2>2. QED
    BY <1>1, <2>1 DEF DevOf
<1>4. QED
  BY <1>2, <1>3

\* What the last callback works on: it has interrupted no other that works.
LEMMA LastWorks ==
  ASSUME Uncrossed, NEW S, stack' \in Seq(S), Len(stack') >= 1,
         NEW f, stack'[Len(stack')] = f, f.pc \notin {"store", "count", "fire"},
         TaskKept(f, devices', mounted', consumed', decider', rootMenu', hook')
  PROVE  Working'
<1>1. DOMAIN stack' = 1..Len(stack') /\ Len(stack') \in Nat
  BY LenProperties
<1>2. ~Quiet(stack'[Len(stack')]) /\ Len(stack') \in DOMAIN stack'
  BY <1>1 DEF Quiet
<1>3. ASSUME NEW i \in 1..Len(stack'), ~Quiet(stack'[i])
      PROVE  stack'[i] = f
  <2>1. ~(i < Len(stack'))
    BY <1>1, <1>2, <1>3 DEF Uncrossed, Crossing
  <2>2. \A n \in Nat : \A k \in 1..n : ~(k < n) => k = n
    OBVIOUS
  <2>3. i = Len(stack')
    BY <1>1, <1>3, <2>1, <2>2, Zenon
  <2>4. QED
    BY <2>3
<1>4. QED
  BY <1>3 DEF Working

\* What the running callback leaves behind for the next step.
LEMMA WorksOn ==
  ASSUME Uncrossed, Kept, NEW at, At(at), NEW f, Continue(f), f.pc \notin {"store", "count", "fire"},
         TaskKept(f, devices', mounted', consumed', decider', rootMenu', hook')
  PROVE  Working'
<1>1. stack \in Seq(FrameType) /\ stack # <<>> /\ Len(stack) \in Nat /\ Len(stack) >= 1
  BY AtFacts
<1> DEFINE S == FrameType \cup {f}
<1>2. stack \in Seq(S) /\ f \in S /\ stack' = Append(Front(stack), f)
  BY <1>1, SeqMonotonic DEF Continue
<1> HIDE DEF S
<1>3. Front(stack) \in Seq(S)
  BY <1>1, <1>2, FrontElements
<1>4. stack' \in Seq(S) /\ Len(stack') = Len(stack) /\ stack'[Len(stack)] = f
  BY <1>1, <1>2, <1>3, ReplaceLast, AppendProperties
<1>5. QED
  BY <1>1, <1>4, LastWorks

LEMMA WorksBegun ==
  ASSUME Uncrossed, Kept, NEW f, stack' = Append(stack, f), f.pc \notin {"store", "count", "fire"},
         TaskKept(f, devices', mounted', consumed', decider', rootMenu', hook')
  PROVE  Working'
<1> DEFINE S == FrameType \cup {f}
<1>1. stack \in Seq(S) /\ f \in S
  BY SeqMonotonic DEF Kept, Nested, Stacked
<1> HIDE DEF S
<1>2. stack' \in Seq(S) /\ Len(stack') = Len(stack) + 1 /\ stack'[Len(stack) + 1] = f /\ Len(stack) \in Nat
  BY <1>1, AppendProperties, LenProperties
<1>3. Len(stack') >= 1
  BY <1>2
<1>4. QED
  BY <1>2, <1>3, LastWorks

LEMMA WorksNoMore ==
  ASSUME KeptAlone, NEW at, At(at), at \notin {"store", "count", "fire"}, Return
  PROVE  Working'
<1>1. /\ stack \in Seq(FrameType) /\ stack # <<>> /\ Top.pc = at /\ Top = Last(stack)
      /\ Len(stack) \in Nat /\ Len(stack) >= 1 /\ stack' = Front(stack)
  BY AtFacts DEF KeptAlone, Return
<1>2. DOMAIN stack = 1..Len(stack) /\ ~Quiet(stack[Len(stack)]) /\ Len(stack) \in 1..Len(stack)
  BY <1>1, LenProperties DEF Last, Quiet
<1>3. ASSUME NEW i \in 1..Len(stack')
      PROVE  Quiet(stack'[i])
  <2>1. i \in 1..Len(stack) /\ i # Len(stack) /\ stack'[i] = stack[i]
    BY <1>1, <1>3, FramesOf
  <2>2. i < Len(stack)
    BY <1>1, <2>1
  <2>3. QED
    BY <1>2, <2>1, <2>2 DEF KeptAlone, Crossing
<1>4. QED
  BY <1>3 DEF Working

\* A step of the menu that leaves everything to the callback that works.
LEMMA WorksSame ==
  ASSUME KeptAlone, halt = "no",
         UNCHANGED <<devices, mounted, consumed, decider, rootMenu, hook>>,
         \A i \in 1..Len(stack') :
           (i \in 1..Len(stack) /\ stack'[i] = stack[i]) \/ stack'[i].pc \in {"store", "count", "fire"}
  PROVE  Working'
  BY DEF KeptAlone, Working, Quiet

LEMMA WorkFacts ==
  ASSUME KeptAlone, NEW at, At(at), at \notin {"store", "count", "fire"}
  PROVE  /\ TaskKept(Top, devices, mounted, consumed, decider, rootMenu, hook)
         /\ FrameOK(Top) /\ Top \in FrameType /\ Top.pc = at /\ Kept
         /\ mounted # NoPart => DevOf(mounted) \in devices
         /\ Top.cb \in Devices => Top.cb \in devices
<1>1. Kept
  BY DEF KeptAlone
<1>2. /\ Top.pc = at /\ Top = Last(stack) /\ halt = "no" /\ Len(stack) \in Nat /\ Len(stack) >= 1
      /\ FrameOK(Top) /\ Top \in FrameType /\ (Top.cb \in Devices => Top.cb \in devices)
  BY <1>1, AtFacts
<1>3. Top = stack[Len(stack)] /\ Len(stack) \in 1..Len(stack) /\ ~Quiet(Top)
  BY <1>2 DEF Last, Quiet
<1>4. TaskKept(Top, devices, mounted, consumed, decider, rootMenu, hook)
  BY <1>2, <1>3 DEF KeptAlone, Working
<1>5. QED
  BY <1>1, <1>2, <1>4 DEF KeptAlone, Live, MountLive

LEMMA LiveSame ==
  ASSUME Live, rootMenu' = rootMenu, devices \subseteq devices', halt' = "no" => halt = "no",
         mounted' = mounted \/ mounted' = NoPart \/ DevOf(mounted') \in devices'
  PROVE  Live'
  BY DEF Live, MountLive, EntriesLive

LEMMA NotEnded ==
  ASSUME halt' # "started"
  PROVE  Ends'
  BY DEF Ends, StartedFromPaths, HookOfEntry

\* The block layer.
LEMMA RegisterAlone ==
  ASSUME Uncrossed, KeptAlone, NEW d \in Devices, B_Register(d)
  PROVE  Working' /\ Live' /\ Ends'
<1> DEFINE g == Frame(d, "register", "partition")
           f == [g EXCEPT !.rest = PartsOf[d]]
<1>1. /\ Callback(d) /\ stack' = Append(stack, f) /\ devices' = devices \cup {d} /\ mounted' = mounted
      /\ rootMenu' = rootMenu /\ halt' = halt /\ halt = "no" /\ Kept
  BY DEF B_Register, Enter, Callback, Running, fsVars, menuVars, KeptAlone
<1>2. /\ g \in FrameType /\ g.cb = d /\ g.task = "register" /\ g.pc = "partition"
      /\ g.found = <<>> /\ g.globals.timeout < 0
  <2>1. g.globals.timeout < 0
    BY DEF Frame, NoGlobals
  <2>2. QED
    BY <2>1, NewFrame DEF Places, Tasks
<1> HIDE DEF g
<1>3. /\ f.cb = d /\ f.task = "register" /\ f.pc = "partition" /\ f.found = <<>>
      /\ f.globals.timeout < 0 /\ f.rest = PartsOf[d]
  BY <1>2 DEF FrameType
<1> HIDE DEF f
<1>4. \A i \in 1..Len(f.found) : FALSE
  BY <1>3, EmptySeq
<1>5. TaskKept(f, devices', mounted', consumed', decider', rootMenu', hook')
  BY <1>3, <1>4, DevOfPart
     DEF TaskKept, Registering, Unregistering, Booting, Shooting, Mounting, HasPart
<1>6. Working'
  BY <1>1, <1>3, <1>5, WorksBegun
<1>7. Live'
  BY <1>1, LiveSame DEF KeptAlone
<1>8. QED
  BY <1>1, <1>6, <1>7, NotEnded

LEMMA UnregisterAlone ==
  ASSUME Uncrossed, KeptAlone, NEW d \in Devices, B_Unregister(d)
  PROVE  Working' /\ Live' /\ Ends'
<1> DEFINE g == Frame(d, "unregister", "unmount")
           f == [g EXCEPT !.rest = PartsOf[d]]
<1>1. /\ Callback(d) /\ stack' = Append(stack, f) /\ devices' = devices /\ mounted' = mounted
      /\ rootMenu' = rootMenu /\ halt' = halt /\ halt = "no" /\ Kept
  BY DEF B_Unregister, Callback, Running, fsVars, menuVars, KeptAlone
<1>2. g \in FrameType /\ g.cb = d /\ g.task = "unregister" /\ g.pc = "unmount"
  BY NewFrame DEF Places, Tasks
<1> HIDE DEF g
<1>3. f.cb = d /\ f.task = "unregister" /\ f.pc = "unmount" /\ f.rest = PartsOf[d]
  BY <1>2 DEF FrameType
<1> HIDE DEF f
<1>4. TaskKept(f, devices', mounted', consumed', decider', rootMenu', hook')
  BY <1>3, DevOfPart DEF TaskKept, Registering, Unregistering, Booting, Shooting, Mounting
<1>5. Working'
  BY <1>1, <1>3, <1>4, WorksBegun
<1>6. Live'
  BY <1>1, LiveSame DEF KeptAlone
<1>7. QED
  BY <1>1, <1>5, <1>6, NotEnded

LEMMA ProbePartitionAlone ==
  ASSUME Uncrossed, KeptAlone, ProbePartition
  PROVE  Working' /\ Live' /\ Ends'
<1>1. /\ At("partition") /\ devices' = devices /\ mounted' = mounted /\ rootMenu' = rootMenu
      /\ halt' = halt /\ halt = "no"
  BY DEF ProbePartition, Running, menuVars, At
<1>2. /\ TaskKept(Top, devices, mounted, consumed, decider, rootMenu, hook)
      /\ FrameOK(Top) /\ Top \in FrameType /\ Top.pc = "partition" /\ Kept /\ Top.task = "register"
      /\ Top.rest \in Seq(Parts) /\ Top.found = <<>> /\ Top.cb \in devices
  BY <1>1, WorkFacts DEF FrameOK, PlaceOK
<1>3. Live' /\ Ends'
  BY <1>1, LiveSame, NotEnded DEF KeptAlone
<1>4. CASE Return
  BY <1>1, <1>2, <1>3, <1>4, WorksNoMore
<1>5. CASE ~Return
  <2> DEFINE p == Head(Top.rest)
             r == Tail(Top.rest)
             f == [Top EXCEPT !.rest = r]
             g == [f EXCEPT !.part = p, !.pc = "mount"]
  <2>1. (Continue(g) \/ Continue(f)) /\ Top.rest # <<>>
    BY <1>5 DEF ProbePartition
  <2>2. DevOf(p) = Top.cb /\ \A i \in 1..Len(r) : DevOf(r[i]) = Top.cb
    <3> DEFINE u == Top.rest
    <3>1. u \in Seq(Parts) /\ u # <<>> /\ \A i \in 1..Len(u) : DevOf(u[i]) = Top.cb
      BY <1>2, <2>1 DEF TaskKept, Registering
    <3> HIDE DEF u
    <3>2. /\ Len(u) \in Nat /\ Len(u) >= 1 /\ Len(Tail(u)) = Len(u) - 1 /\ Head(u) = u[1]
          /\ \A j \in 1..(Len(u) - 1) : Tail(u)[j] = u[j + 1]
      BY <3>1, TailElements, HeadTailProperties
    <3>3. 1 \in 1..Len(u) /\ \A j \in 1..Len(Tail(u)) : j \in 1..(Len(u) - 1) /\ j + 1 \in 1..Len(u)
      BY <3>2
    <3>4. QED
      BY <3>1, <3>2, <3>3 DEF u
  <2> HIDE DEF p, r
  <2>3. /\ f \in FrameType /\ f.cb = Top.cb /\ f.task = "register" /\ f.pc = "partition"
        /\ f.found = <<>> /\ f.globals.timeout < 0 /\ f.rest = r
        /\ g.cb = Top.cb /\ g.task = "register" /\ g.pc = "mount"
        /\ g.found = <<>> /\ g.globals.timeout < 0 /\ g.rest = r /\ g.part = p
    <3>1. r \in Seq(Parts \cup {"self"})
      BY <1>2, <2>1, HeadTailProperties, SeqMonotonic DEF r
    <3>2. Top.globals.timeout < 0
      BY <1>2 DEF TaskKept, Registering
    <3>3. QED
      BY <1>2, <3>1, <3>2 DEF FrameType
  <2> HIDE DEF f, g
  <2>4. (\A i \in 1..Len(f.found) : FALSE) /\ (\A i \in 1..Len(g.found) : FALSE)
    BY <2>3, EmptySeq
  <2>5. TaskKept(f, devices', mounted', consumed', decider', rootMenu', hook')
    BY <2>2, <2>3, <2>4
       DEF TaskKept, Registering, Unregistering, Booting, Shooting, Mounting, HasPart
  <2>6. TaskKept(g, devices', mounted', consumed', decider', rootMenu', hook')
    BY <1>1, <1>2, <2>2, <2>3, <2>4
       DEF TaskKept, Registering, Unregistering, Booting, Shooting, Mounting, HasPart
  <2>7. Working'
    BY <1>1, <1>2, <2>1, <2>3, <2>5, <2>6, WorksOn
  <2>8. QED
    BY <1>3, <2>7
<1>6. QED
  BY <1>4, <1>5

LEMMA UnmountPartitionAlone ==
  ASSUME Uncrossed, KeptAlone, UnmountPartition
  PROVE  Working' /\ Live' /\ Ends'
<1>1. /\ At("unmount") /\ devices' = devices /\ rootMenu' = rootMenu /\ Top.rest # <<>>
      /\ halt' = halt /\ halt = "no" /\ Goto("delpart")
  BY DEF UnmountPartition, Running, menuVars, At
<1>2. /\ TaskKept(Top, devices, mounted, consumed, decider, rootMenu, hook)
      /\ FrameOK(Top) /\ Top \in FrameType /\ Top.pc = "unmount" /\ Kept /\ Top.task = "unregister"
      /\ Top.rest \in Seq(Parts)
  BY <1>1, WorkFacts DEF FrameOK, PlaceOK
<1>3. Head(Top.rest) \in Parts /\ NoPart \notin Parts
  BY <1>1, <1>2, HeadTailProperties, StorageAssumption
<1>4. /\ mounted' = mounted \/ mounted' = NoPart
      /\ mounted' # Head(Top.rest)
  BY <1>3 DEF UnmountPartition, FS_Unmount, fsVars
<1>5. Live' /\ Ends'
  BY <1>1, <1>4, LiveSame, NotEnded DEF KeptAlone
<1> DEFINE f == [Top EXCEPT !.pc = "delpart"]
<1>6. Continue(f) /\ f.task = "unregister" /\ f.cb = Top.cb /\ f.pc = "delpart" /\ f.rest = Top.rest
  BY <1>1, <1>2 DEF Goto, FrameType
<1> HIDE DEF f
<1>7. Unregistering(f, mounted', rootMenu')
  BY <1>1, <1>2, <1>3, <1>4, <1>6 DEF TaskKept, Unregistering
<1>8. TaskKept(f, devices', mounted', consumed', decider', rootMenu', hook')
  BY <1>6, <1>7 DEF TaskKept, Registering, Booting, Shooting, Mounting
<1>9. QED
  BY <1>1, <1>2, <1>5, <1>6, <1>8, WorksOn

\* The device that is forgotten has no partition that is mounted or in the menu.
LEMMA RemoveDeviceAlone ==
  ASSUME Uncrossed, KeptAlone, RemoveDevice
  PROVE  Working' /\ Live' /\ Ends'
<1>1. /\ At("unmount") /\ devices' = devices \ {Top.cb} /\ rootMenu' = rootMenu /\ Top.rest = <<>>
      /\ halt' = halt /\ halt = "no" /\ Return /\ mounted' = mounted
  BY DEF RemoveDevice, Running, menuVars, fsVars, At
<1>2. /\ TaskKept(Top, devices, mounted, consumed, decider, rootMenu, hook)
      /\ Kept /\ Top.task = "unregister"
  BY <1>1, WorkFacts DEF FrameOK, PlaceOK
<1>3. \A i \in 1..Len(Top.rest) : FALSE
  BY <1>1, EmptySeq
<1>4. \A p \in Parts : DevOf(p) = Top.cb =>
        mounted # p /\ \A i \in 1..Len(rootMenu) : rootMenu[i].owner # p
  BY <1>2, <1>3 DEF TaskKept, Unregistering
<1>5. MountLive'
  BY <1>1, <1>4 DEF MountLive, KeptAlone, Live, Kept, Typed
<1>6. EntriesLive'
  <2>1. rootMenu \in Seq(Known)
    BY DEF KeptAlone, Kept, Listed
  <2>2. DOMAIN rootMenu = 1..Len(rootMenu) /\ \A i \in 1..Len(rootMenu) : rootMenu[i] \in Known
    BY <2>1, LenProperties, ElementOfSeq
  <2>3. \A i \in 1..Len(rootMenu) : rootMenu[i].owner \in Parts
    BY <2>2 DEF Known, Entries
  <2>4. QED
    BY <1>1, <1>4, <2>2, <2>3 DEF EntriesLive, KeptAlone, Live
<1>7. QED
  BY <1>1, <1>2, <1>5, <1>6, WorksNoMore, NotEnded DEF Live

\* The filesystem layer.
LEMMA MountStartAlone ==
  ASSUME Uncrossed, KeptAlone, MountStart
  PROVE  Working' /\ Live' /\ Ends'
<1>1. /\ At("mount") /\ devices' = devices /\ mounted' = NoPart /\ rootMenu' = rootMenu
      /\ consumed' = consumed /\ decider' = decider /\ hook' = hook /\ halt = "no"
  BY DEF MountStart, menuVars, cfgVars, At
<1>2. /\ TaskKept(Top, devices, mounted, consumed, decider, rootMenu, hook)
      /\ FrameOK(Top) /\ Top \in FrameType /\ Top.pc = "mount" /\ Kept
  BY <1>1, WorkFacts
<1>3. \/ Stop("assert")
      \/ Refused /\ halt' = halt
      \/ Goto("mounting") /\ halt' = halt
  BY DEF MountStart, Running
<1>4. halt' = "no" \/ halt' = "assert"
  BY <1>1, <1>3 DEF Stop
<1>5. Live' /\ Ends'
  BY <1>1, <1>4, LiveSame, NotEnded DEF KeptAlone
<1>6. CASE Stop("assert")
  BY <1>5, <1>6 DEF Stop, Working
<1>7. CASE Return
  BY <1>1, <1>2, <1>5, <1>7, WorksNoMore
<1>8. ASSUME NEW pc \in Places, Goto(pc),
             pc = "mounting" \/ (pc = "partition" /\ Top.task = "register")
      PROVE  Working'
  <2> DEFINE f == [Top EXCEPT !.pc = pc]
  <2>1. Continue(f)
    BY <1>8 DEF Goto
  <2>2. /\ f.pc = pc /\ f.cb = Top.cb /\ f.task = Top.task /\ f.part = Top.part
        /\ f.rest = Top.rest /\ f.entry = Top.entry /\ f.found = Top.found /\ f.old = Top.old
        /\ f.got = Top.got /\ f.first = Top.first /\ f.globals = Top.globals
    BY <1>2, Moved
  <2> HIDE DEF f
  <2>3. Registering(f, mounted', consumed', decider') /\ Unregistering(f, mounted', rootMenu')
    BY <1>2, <1>8, <2>2 DEF TaskKept, Registering, Unregistering, HasPart, FrameOK, PlaceOK
  <2>4. Booting(f, devices', mounted', hook')
    BY <1>1, <1>2, <1>8, <2>2 DEF TaskKept, Booting
  <2>5. Shooting(f, devices', mounted') /\ Mounting(f, devices', mounted')
    BY <1>1, <1>2, <1>8, <2>2 DEF TaskKept, Shooting, Mounting
  <2>6. TaskKept(f, devices', mounted', consumed', decider', rootMenu', hook')
    BY <2>3, <2>4, <2>5 DEF TaskKept
  <2>7. QED
    BY <1>1, <1>2, <1>8, <2>1, <2>2, <2>6, WorksOn
<1>9. QED
  BY <1>3, <1>5, <1>6, <1>7, <1>8 DEF Refused, Places

LEMMA MountEndAlone ==
  ASSUME Uncrossed, KeptAlone, MountEnd
  PROVE  Working' /\ Live' /\ Ends'
<1>1. /\ At("mounting") /\ devices' = devices /\ rootMenu' = rootMenu
      /\ consumed' = consumed /\ decider' = decider /\ hook' = hook /\ halt = "no" /\ halt' = halt
  BY DEF MountEnd, menuVars, cfgVars, Running, At
<1>2. /\ TaskKept(Top, devices, mounted, consumed, decider, rootMenu, hook)
      /\ FrameOK(Top) /\ Top \in FrameType /\ Top.pc = "mounting" /\ Kept
  BY <1>1, WorkFacts
<1>3. DevOf(Top.part) \in devices /\ mounted = NoPart
  BY <1>2 DEF TaskKept, Mounting
<1>4. (mounted' = Top.part /\ AfterMount) \/ (mounted' = mounted /\ Refused)
  BY DEF MountEnd
<1>5. Live' /\ Ends'
  BY <1>1, <1>3, <1>4, LiveSame, NotEnded DEF KeptAlone
<1>6. CASE Return
  BY <1>1, <1>2, <1>5, <1>6, WorksNoMore
<1>7. ASSUME NEW pc \in Places, Goto(pc),
             \/ pc = "partition" /\ Top.task = "register"
             \/ pc = "npll" /\ Top.task = "register" /\ mounted' = Top.part
             \/ pc = "open" /\ Top.task = "boot" /\ mounted' = Top.part
             \/ pc = "write" /\ Top.task = "shot" /\ mounted' = Top.part
      PROVE  Working'
  <2> DEFINE f == [Top EXCEPT !.pc = pc]
  <2>1. Continue(f)
    BY <1>7 DEF Goto
  <2>2. /\ f.pc = pc /\ f.cb = Top.cb /\ f.task = Top.task /\ f.part = Top.part
        /\ f.rest = Top.rest /\ f.entry = Top.entry /\ f.found = Top.found /\ f.old = Top.old
        /\ f.got = Top.got /\ f.first = Top.first /\ f.globals = Top.globals
    BY <1>2, Moved
  <2> HIDE DEF f
  <2>3. Registering(f, mounted', consumed', decider') /\ Unregistering(f, mounted', rootMenu')
    BY <1>2, <1>7, <2>2 DEF TaskKept, Registering, Unregistering, HasPart
  <2>4. Booting(f, devices', mounted', hook')
    BY <1>1, <1>2, <1>7, <2>2 DEF TaskKept, Booting
  <2>5. Shooting(f, devices', mounted') /\ Mounting(f, devices', mounted')
    BY <1>1, <1>2, <1>7, <2>2 DEF TaskKept, Shooting, Mounting
  <2>6. TaskKept(f, devices', mounted', consumed', decider', rootMenu', hook')
    BY <2>3, <2>4, <2>5 DEF TaskKept
  <2>7. QED
    BY <1>1, <1>2, <1>7, <2>1, <2>2, <2>6, WorksOn
<1>8. CASE mounted' = Top.part /\ AfterMount
  BY <1>5, <1>6, <1>7, <1>8 DEF AfterMount, Places
<1>9. CASE Refused
  BY <1>5, <1>6, <1>7, <1>9 DEF Refused, Places
<1>10. QED
  BY <1>4, <1>8, <1>9

LEMMA StopAlone ==
  ASSUME KeptAlone, NEW how \in {"assert", "panic"}, Stop(how)
  PROVE  Working' /\ Live' /\ Ends'
  BY NotEnded DEF Stop, Working, Live, MountLive, EntriesLive

LEMMA NothingMountedAlone ==
  ASSUME KeptAlone, NothingMounted
  PROVE  Working' /\ Live' /\ Ends'
  BY StopAlone DEF NothingMounted

\* The configuration of the partition that was mounted.
LEMMA OpenNpllAlone ==
  ASSUME Uncrossed, KeptAlone, OpenNpll
  PROVE  Working' /\ Live' /\ Ends'
<1>1. /\ At("npll") /\ devices' = devices /\ mounted' = mounted /\ rootMenu' = rootMenu
      /\ consumed' = consumed /\ decider' = decider /\ halt' = halt /\ halt = "no"
  BY DEF OpenNpll, Running, menuVars, cfgVars, At
<1>2. /\ TaskKept(Top, devices, mounted, consumed, decider, rootMenu, hook)
      /\ FrameOK(Top) /\ Top \in FrameType /\ Top.pc = "npll" /\ Kept /\ Top.task = "register"
  BY <1>1, WorkFacts DEF FrameOK, PlaceOK
<1>3. Live' /\ Ends'
  BY <1>1, LiveSame, NotEnded DEF KeptAlone
<1>4. /\ (\A i \in 1..Len(Top.rest) : DevOf(Top.rest[i]) = Top.cb) /\ DevOf(Top.part) = Top.cb
      /\ mounted = Top.part /\ (\A i \in 1..Len(Top.found) : Top.found[i].src = Top.part)
      /\ Top.globals.timeout < 0 /\ Top.globals.timeout \in Int
  BY <1>2 DEF TaskKept, Registering, HasPart, FrameType
<1>5. ASSUME NEW f, Continue(f), f.task = "register", f.cb = Top.cb, f.rest = Top.rest,
             f.part = Top.part, f.found = Top.found, f.globals = Top.globals,
             f.pc = "gumboot" \/ (f.pc = "npllRead" /\ f.first = ~consumed)
      PROVE  Working'
  <2>1. ~(Top.globals.timeout >= 0)
    BY <1>4
  <2>2. TaskKept(f, devices', mounted', consumed', decider', rootMenu', hook')
    BY <1>1, <1>4, <1>5, <2>1
       DEF TaskKept, Registering, Unregistering, Booting, Shooting, Mounting, HasPart
  <2>3. QED
    BY <1>1, <1>2, <1>5, <2>2, WorksOn
<1>6. CASE \E s \in 1..Slots : Continue([Top EXCEPT !.first = ~consumed, !.fd = s, !.pc = "npllRead"])
  <2>1. PICK s \in 1..Slots : Continue([Top EXCEPT !.first = ~consumed, !.fd = s, !.pc = "npllRead"])
    BY <1>6
  <2> DEFINE b == ~consumed
             f == [Top EXCEPT !.first = b, !.fd = s, !.pc = "npllRead"]
  <2>2. Continue(f)
    BY <2>1
  <2> HIDE DEF b
  <2>3. /\ f.task = "register" /\ f.cb = Top.cb /\ f.rest = Top.rest /\ f.first = b
        /\ f.part = Top.part /\ f.found = Top.found /\ f.globals = Top.globals /\ f.pc = "npllRead"
    BY <1>2 DEF FrameType
  <2> HIDE DEF f
  <2>4. QED
    BY <1>3, <1>5, <2>2, <2>3 DEF b
<1>7. CASE Continue([Top EXCEPT !.first = FALSE, !.pc = "gumboot"])
  <2> DEFINE f == [Top EXCEPT !.first = FALSE, !.pc = "gumboot"]
  <2>1. /\ f.task = "register" /\ f.cb = Top.cb /\ f.rest = Top.rest
        /\ f.part = Top.part /\ f.found = Top.found /\ f.globals = Top.globals /\ f.pc = "gumboot"
    BY <1>2 DEF FrameType
  <2>2. Continue(f)
    BY <1>7
  <2> HIDE DEF f
  <2>3. QED
    BY <1>3, <1>5, <2>1, <2>2
<1>8. QED
  BY <1>6, <1>7 DEF OpenNpll

LEMMA OpenGumbootAlone ==
  ASSUME Uncrossed, KeptAlone, OpenGumboot
  PROVE  Working' /\ Live' /\ Ends'
<1>1. /\ At("gumboot") /\ devices' = devices /\ mounted' = mounted /\ rootMenu' = rootMenu
      /\ consumed' = consumed /\ decider' = decider /\ halt' = halt /\ halt = "no"
  BY DEF OpenGumboot, Running, menuVars, cfgVars, At
<1>2. /\ TaskKept(Top, devices, mounted, consumed, decider, rootMenu, hook)
      /\ FrameOK(Top) /\ Top \in FrameType /\ Top.pc = "gumboot" /\ Kept /\ Top.task = "register"
  BY <1>1, WorkFacts DEF FrameOK, PlaceOK
<1>3. Live' /\ Ends'
  BY <1>1, LiveSame, NotEnded DEF KeptAlone
<1>4. ASSUME NEW f, Continue(f), f.task = "register", f.cb = Top.cb, f.rest = Top.rest,
             f.part = Top.part, f.found = Top.found, f.globals = Top.globals,
             f.pc \in {"gumbootRead", "add"}
      PROVE  Working'
  <2>1. TaskKept(f, devices', mounted', consumed', decider', rootMenu', hook')
    BY <1>1, <1>2, <1>4
       DEF TaskKept, Registering, Unregistering, Booting, Shooting, Mounting, HasPart
  <2>2. QED
    BY <1>1, <1>2, <1>4, <2>1, WorksOn
<1>5. CASE \E s \in 1..Slots : Continue([Top EXCEPT !.fd = s, !.pc = "gumbootRead"])
  <2>1. PICK s \in 1..Slots : Continue([Top EXCEPT !.fd = s, !.pc = "gumbootRead"])
    BY <1>5
  <2> DEFINE f == [Top EXCEPT !.fd = s, !.pc = "gumbootRead"]
  <2>2. /\ Continue(f) /\ f.task = "register" /\ f.cb = Top.cb /\ f.rest = Top.rest
        /\ f.part = Top.part /\ f.found = Top.found /\ f.globals = Top.globals /\ f.pc = "gumbootRead"
    BY <1>2, <2>1 DEF FrameType
  <2> HIDE DEF f
  <2>3. QED
    BY <1>3, <1>4, <2>2
<1>6. CASE Goto("add")
  <2> DEFINE f == [Top EXCEPT !.pc = "add"]
  <2>1. /\ Continue(f) /\ f.task = "register" /\ f.cb = Top.cb /\ f.rest = Top.rest
        /\ f.part = Top.part /\ f.found = Top.found /\ f.globals = Top.globals /\ f.pc = "add"
    BY <1>2, <1>6 DEF FrameType, Goto
  <2> HIDE DEF f
  <2>2. QED
    BY <1>3, <1>4, <2>1
<1>7. QED
  BY <1>5, <1>6 DEF OpenGumboot

LEMMA ReadNpllAlone ==
  ASSUME Uncrossed, KeptAlone, ReadNpll
  PROVE  Working' /\ Live' /\ Ends'
<1>1. /\ At("npllRead") /\ devices' = devices /\ mounted' = mounted /\ rootMenu' = rootMenu
      /\ halt' = halt /\ halt = "no" /\ mounted # NoPart
  BY DEF ReadNpll, Running, menuVars, At
<1>2. /\ TaskKept(Top, devices, mounted, consumed, decider, rootMenu, hook)
      /\ FrameOK(Top) /\ Top \in FrameType /\ Top.pc = "npllRead" /\ Kept /\ Top.task = "register"
      /\ Reads(Top) /\ Top.fd \in 1..Slots /\ Top.part \in Parts
  BY <1>1, WorkFacts DEF FrameOK, PlaceOK, Reads, HasPart
<1>3. Live' /\ Ends'
  BY <1>1, LiveSame, NotEnded DEF KeptAlone
<1>4. /\ (\A i \in 1..Len(Top.rest) : DevOf(Top.rest[i]) = Top.cb) /\ DevOf(Top.part) = Top.cb
      /\ mounted = Top.part /\ (Top.first => ~consumed)
  BY <1>2 DEF TaskKept, Registering, HasPart
<1>5. CASE Return
  BY <1>1, <1>2, <1>3, <1>5, WorksNoMore
<1>6. CASE ~Return
  <2> DEFINE cfg == Npll[mounted]
             es == EntriesOf("npll", mounted, Top.part)
             gl == IF Top.first THEN [timeout |-> cfg.timeout, default |-> cfg.default]
                                ELSE NoGlobals
             f == [Top EXCEPT !.pc = "gumboot", !.found = es, !.globals = gl]
  <2>1. /\ Valid(Top.fd) /\ Continue(f)
        /\ decider' = IF consumed THEN decider ELSE Top.part
    BY <1>6 DEF ReadNpll, ProbeFails
  <2>2. ConfigFile("npll", mounted) # Absent /\ "npll" \in {"npll", "gumboot"}
    BY <1>1, <1>2, <2>1, AtFacts, OwnedReading DEF Valid, ConfigFile
  <2>3. \A i \in 1..Len(es) : es[i].src = Top.part
    BY <1>2, <1>4, <2>2, EntriesRead
  <2>4. gl.timeout >= 0 => decider' = Top.part
    <3>1. CASE Top.first
      BY <1>4, <2>1, <3>1
    <3>2. CASE ~Top.first
      BY <3>2 DEF NoGlobals
    <3>3. QED
      BY <3>1, <3>2
  <2> HIDE DEF cfg, es, gl
  <2>5. /\ f.task = "register" /\ f.cb = Top.cb /\ f.rest = Top.rest /\ f.part = Top.part
        /\ f.found = es /\ f.globals = gl /\ f.pc = "gumboot"
    BY <1>2 DEF FrameType
  <2> HIDE DEF f
  <2>6. TaskKept(f, devices', mounted', consumed', decider', rootMenu', hook')
    BY <1>1, <1>4, <2>3, <2>4, <2>5
       DEF TaskKept, Registering, Unregistering, Booting, Shooting, Mounting, HasPart
  <2>7. QED
    BY <1>1, <1>2, <1>3, <2>1, <2>5, <2>6, WorksOn
<1>7. QED
  BY <1>5, <1>6

LEMMA ReadGumbootAlone ==
  ASSUME Uncrossed, KeptAlone, ReadGumboot
  PROVE  Working' /\ Live' /\ Ends'
<1>1. /\ At("gumbootRead") /\ devices' = devices /\ mounted' = mounted /\ rootMenu' = rootMenu
      /\ halt' = halt /\ halt = "no" /\ mounted # NoPart /\ consumed' = consumed /\ decider' = decider
  BY DEF ReadGumboot, ProbeFails, Running, menuVars, cfgVars, At
<1>2. /\ TaskKept(Top, devices, mounted, consumed, decider, rootMenu, hook)
      /\ FrameOK(Top) /\ Top \in FrameType /\ Top.pc = "gumbootRead" /\ Kept /\ Top.task = "register"
      /\ Reads(Top) /\ Top.fd \in 1..Slots /\ Top.part \in Parts
  BY <1>1, WorkFacts DEF FrameOK, PlaceOK, Reads, HasPart
<1>3. Live' /\ Ends'
  BY <1>1, LiveSame, NotEnded DEF KeptAlone
<1>4. /\ (\A i \in 1..Len(Top.rest) : DevOf(Top.rest[i]) = Top.cb) /\ DevOf(Top.part) = Top.cb
      /\ mounted = Top.part /\ (Top.globals.timeout >= 0 /\ consumed => decider = Top.part)
      /\ \A i \in 1..Len(Top.found) : Top.found[i].src = Top.part
  BY <1>2 DEF TaskKept, Registering, HasPart
<1>5. CASE Return
  BY <1>1, <1>2, <1>3, <1>5, WorksNoMore
<1>6. CASE ~Return
  <2> DEFINE cfg == Gumboot[mounted]
             es == EntriesOf("gumboot", mounted, Top.part)
             all == Top.found \o es
             gl == GumbootGlobals(cfg)
             f == [Top EXCEPT !.pc = "add", !.found = all, !.globals = gl]
  <2>1. Valid(Top.fd) /\ Continue(f)
    BY <1>6 DEF ReadGumboot, ProbeFails
  <2>2. ConfigFile("gumboot", mounted) # Absent /\ "gumboot" \in {"npll", "gumboot"}
    BY <1>1, <1>2, <2>1, AtFacts, OwnedReading DEF Valid, ConfigFile
  <2>3. es \in Seq(Known) /\ \A i \in 1..Len(es) : es[i].src = Top.part
    BY <1>2, <1>4, <2>2, EntriesRead
  <2>4. gl.timeout >= 0 /\ consumed => decider = Top.part
    BY <1>4 DEF GumbootGlobals
  <2> HIDE DEF cfg, gl
  <2>5. all \in Seq(Known) /\ \A i \in 1..Len(all) : all[i].src = Top.part
    <3> DEFINE a == Top.found
    <3>1. a \in Seq(Known) /\ \A i \in 1..Len(a) : a[i].src = Top.part
      BY <1>2, <1>4 DEF FrameType
    <3> HIDE DEF a, es
    <3>2. /\ a \o es \in Seq(Known) /\ Len(a) \in Nat /\ Len(es) \in Nat
          /\ Len(a \o es) = Len(a) + Len(es)
          /\ \A i \in 1..(Len(a) + Len(es)) : (a \o es)[i] = IF i <= Len(a) THEN a[i] ELSE es[i - Len(a)]
      BY <2>3, <3>1, ConcatProperties, LenProperties
    <3>3. \A i \in 1..(Len(a) + Len(es)) : i \in 1..Len(a) \/ (~(i <= Len(a)) /\ i - Len(a) \in 1..Len(es))
      BY <3>2
    <3>4. \A i \in 1..Len(a \o es) : (a \o es)[i].src = Top.part
      BY <2>3, <3>1, <3>2, <3>3
    <3>5. QED
      BY <3>2, <3>4 DEF a
  <2> HIDE DEF all, es
  <2>6. /\ f.task = "register" /\ f.cb = Top.cb /\ f.rest = Top.rest /\ f.part = Top.part
        /\ f.found = all /\ f.globals = gl /\ f.pc = "add"
    BY <1>2 DEF FrameType
  <2> HIDE DEF f
  <2>7. TaskKept(f, devices', mounted', consumed', decider', rootMenu', hook')
    BY <1>1, <1>4, <2>4, <2>5, <2>6
       DEF TaskKept, Registering, Unregistering, Booting, Shooting, Mounting, HasPart
  <2>8. QED
    BY <1>1, <1>2, <1>3, <2>1, <2>6, <2>7, WorksOn
<1>7. QED
  BY <1>5, <1>6

\* The menu.
LEMMA AddPartAlone ==
  ASSUME Uncrossed, KeptAlone, AddPart
  PROVE  Working' /\ Live' /\ Ends'
<1>1. At("add") /\ devices' = devices /\ mounted' = mounted /\ halt' = halt /\ halt = "no"
  BY DEF AddPart, Running, fsVars, At
<1>2. /\ TaskKept(Top, devices, mounted, consumed, decider, rootMenu, hook)
      /\ FrameOK(Top) /\ Top \in FrameType /\ Top.pc = "add" /\ Kept /\ Top.task = "register"
      /\ Top.cb \in devices
  BY <1>1, WorkFacts DEF FrameOK, PlaceOK
<1>3. /\ DevOf(Top.part) \in devices
      /\ \A i \in 1..Len(Top.found) : Top.found[i].src = Top.part /\ Top.found[i].owner = Top.part
      /\ \A i \in 1..Len(Top.rest) : DevOf(Top.rest[i]) = Top.cb
  BY <1>2 DEF TaskKept, Registering, HasPart, FrameOK
<1>4. Working'
  <2>1. CASE Return
    BY <1>1, <1>2, <2>1, WorksNoMore
  <2>2. CASE Goto("bootNow")
    <3> DEFINE f == [Top EXCEPT !.pc = "bootNow"]
    <3>1. /\ Continue(f) /\ f.task = "register" /\ f.cb = Top.cb /\ f.rest = Top.rest
          /\ f.part = Top.part /\ f.found = Top.found /\ f.pc = "bootNow"
      BY <1>2, <2>2 DEF FrameType, Goto
    <3> HIDE DEF f
    <3>2. TaskKept(f, devices', mounted', consumed', decider', rootMenu', hook')
      BY <1>3, <3>1
         DEF TaskKept, Registering, Unregistering, Booting, Shooting, Mounting, HasPart
    <3>3. QED
      BY <1>1, <1>2, <3>1, <3>2, WorksOn
  <2>3. QED
    BY <2>1, <2>2 DEF AddPart
<1>5. MountLive'
  BY <1>1 DEF MountLive, KeptAlone, Live
<1>6. rootMenu \in Seq(Known) /\ \A i \in 1..Len(rootMenu) :
        rootMenu[i].src = rootMenu[i].owner /\ DevOf(rootMenu[i].owner) \in devices
  <2>1. rootMenu \in Seq(Known)
    BY DEF KeptAlone, Kept, Listed
  <2>2. QED
    BY <1>1, <2>1, LenProperties DEF EntriesLive, KeptAlone, Live
<1>7. EntriesLive'
  <2>1. CASE rootMenu' = rootMenu
    BY <1>1, <2>1 DEF EntriesLive, KeptAlone, Live
  <2>2. CASE rootMenu' = Top.found \o rootMenu
    <3> DEFINE a == Top.found
    <3>1. a \in Seq(Known) /\ \A i \in 1..Len(a) : a[i].src = a[i].owner /\ DevOf(a[i].owner) \in devices
      BY <1>2, <1>3 DEF FrameType
    <3>2. rootMenu' = a \o rootMenu
      BY <2>2
    <3> HIDE DEF a
    <3>3. /\ rootMenu' \in Seq(Known) /\ Len(a) \in Nat /\ Len(rootMenu) \in Nat
          /\ Len(rootMenu') = Len(a) + Len(rootMenu)
          /\ \A i \in 1..(Len(a) + Len(rootMenu)) :
               rootMenu'[i] = IF i <= Len(a) THEN a[i] ELSE rootMenu[i - Len(a)]
      BY <1>6, <3>1, <3>2, ConcatProperties, LenProperties
    <3>4. \A i \in 1..(Len(a) + Len(rootMenu)) :
            i \in 1..Len(a) \/ (~(i <= Len(a)) /\ i - Len(a) \in 1..Len(rootMenu))
      BY <3>3
    <3>5. DOMAIN rootMenu' = 1..(Len(a) + Len(rootMenu))
      BY <3>3, LenProperties
    <3>6. \A i \in DOMAIN rootMenu' :
            rootMenu'[i].src = rootMenu'[i].owner /\ DevOf(rootMenu'[i].owner) \in devices
      <4>1. ASSUME NEW i \in 1..(Len(a) + Len(rootMenu))
            PROVE  rootMenu'[i].src = rootMenu'[i].owner /\ DevOf(rootMenu'[i].owner) \in devices
        <5>1. CASE i \in 1..Len(a)
          <6>1. rootMenu'[i] = a[i]
            BY <3>3, <5>1
          <6>2. QED
            BY <3>1, <5>1, <6>1
        <5>2. CASE ~(i <= Len(a)) /\ i - Len(a) \in 1..Len(rootMenu)
          <6>1. rootMenu'[i] = rootMenu[i - Len(a)]
            BY <3>3, <5>2
          <6>2. QED
            BY <1>6, <5>2, <6>1
        <5>3. QED
          BY <3>4, <5>1, <5>2
      <4>2. QED
        BY <3>5, <4>1
    <3>7. QED
      BY <1>1, <3>6 DEF EntriesLive
  <2>3. QED
    BY <2>1, <2>2 DEF AddPart, Prepended, menuVars
<1>8. QED
  BY <1>1, <1>4, <1>5, <1>7, NotEnded DEF Live

LEMMA DelPartAlone ==
  ASSUME Uncrossed, KeptAlone, DelPart
  PROVE  Working' /\ Live' /\ Ends'
<1> DEFINE q == Head(Top.rest)
           r == Tail(Top.rest)
           f == [Top EXCEPT !.rest = r, !.pc = "unmount"]
<1>1. /\ At("delpart") /\ devices' = devices /\ mounted' = mounted /\ halt' = halt /\ halt = "no"
      /\ rootMenu' = WithoutOwner(rootMenu, q) /\ Continue(f)
  BY DEF DelPart, Running, fsVars, At, Without
<1>2. /\ TaskKept(Top, devices, mounted, consumed, decider, rootMenu, hook)
      /\ FrameOK(Top) /\ Top \in FrameType /\ Top.pc = "delpart" /\ Kept /\ Top.task = "unregister"
      /\ Top.rest \in Seq(Parts) /\ Top.rest # <<>>
  BY <1>1, WorkFacts DEF FrameOK, PlaceOK
<1>3. /\ mounted # q
      /\ \A p \in Parts : DevOf(p) = Top.cb =>
           \/ \E i \in 1..Len(Top.rest) : Top.rest[i] = p
           \/ mounted # p /\ \A i \in 1..Len(rootMenu) : rootMenu[i].owner # p
  BY <1>2 DEF TaskKept, Unregistering
<1>4. /\ r \in Seq(Parts \cup {"self"})
      /\ \A i \in 1..Len(Top.rest) : Top.rest[i] = q \/ \E j \in 1..Len(r) : r[j] = Top.rest[i]
  <2> DEFINE u == Top.rest
  <2>1. u \in Seq(Parts) /\ u # <<>>
    BY <1>2
  <2> HIDE DEF u
  <2>2. /\ Tail(u) \in Seq(Parts) /\ Len(Tail(u)) = Len(u) - 1 /\ Len(u) \in Nat /\ Len(u) >= 1
        /\ Head(u) = u[1] /\ \A j \in 1..(Len(u) - 1) : Tail(u)[j] = u[j + 1]
    BY <2>1, TailElements, HeadTailProperties
  <2>3. ASSUME NEW i \in 1..Len(u), i # 1
        PROVE  \E j \in 1..Len(Tail(u)) : Tail(u)[j] = u[i]
    <3>1. i - 1 \in 1..(Len(u) - 1) /\ (i - 1) + 1 = i /\ i - 1 \in 1..Len(Tail(u))
      BY <2>2, <2>3
    <3>2. Tail(u)[i - 1] = u[i]
      BY <2>2, <3>1
    <3>3. QED
      BY <3>1, <3>2
  <2>4. Tail(u) \in Seq(Parts \cup {"self"})
    BY <2>2, SeqMonotonic
  <2>5. QED
    BY <2>2, <2>3, <2>4 DEF u
<1> HIDE DEF q, r
<1>5. rootMenu \in Seq(Known) /\ DOMAIN rootMenu = 1..Len(rootMenu)
  <2>1. rootMenu \in Seq(Known)
    BY DEF KeptAlone, Kept, Listed
  <2>2. QED
    BY <2>1, LenProperties
<1>6. /\ rootMenu' \in Seq(Known) /\ DOMAIN rootMenu' = 1..Len(rootMenu')
      /\ \A i \in 1..Len(rootMenu') : rootMenu'[i].owner # q /\ \E j \in 1..Len(rootMenu) : rootMenu'[i] = rootMenu[j]
  <2>1. /\ rootMenu' \in Seq(Known)
        /\ \A i \in 1..Len(rootMenu') : rootMenu'[i].owner # q /\ \E j \in 1..Len(rootMenu) : rootMenu'[i] = rootMenu[j]
    BY <1>1, <1>5, WithoutKeeps
  <2>2. QED
    BY <2>1, LenProperties
<1>7. f.task = "unregister" /\ f.pc = "unmount" /\ f.cb = Top.cb /\ f.rest = r
  BY <1>2, <1>4 DEF FrameType
<1> HIDE DEF f
<1>8. ASSUME NEW p \in Parts, DevOf(p) = Top.cb
      PROVE  \/ \E i \in 1..Len(r) : r[i] = p
             \/ mounted # p /\ \A i \in 1..Len(rootMenu') : rootMenu'[i].owner # p
  <2>1. CASE p = q
    BY <1>3, <1>6, <2>1
  <2>2. CASE p # q /\ \E i \in 1..Len(Top.rest) : Top.rest[i] = p
    BY <1>4, <2>2
  <2>3. CASE mounted # p /\ \A i \in 1..Len(rootMenu) : rootMenu[i].owner # p
    BY <1>6, <2>3
  <2>4. QED
    BY <1>3, <1>8, <2>1, <2>2, <2>3
<1>9. TaskKept(f, devices', mounted', consumed', decider', rootMenu', hook')
  BY <1>1, <1>7, <1>8 DEF TaskKept, Registering, Unregistering, Booting, Shooting, Mounting
<1>10. Live'
  <2>1. MountLive'
    BY <1>1 DEF MountLive, KeptAlone, Live
  <2>2. EntriesLive'
    BY <1>1, <1>5, <1>6 DEF EntriesLive, KeptAlone, Live
  <2>3. QED
    BY <2>1, <2>2 DEF Live
<1>11. QED
  BY <1>1, <1>2, <1>7, <1>9, <1>10, WorksOn, NotEnded

\* The boot of an entry.
LEMMA BootBegins ==
  ASSUME KeptAlone, halt = "no", selected < Len(rootMenu), NEW f \in FrameType
  PROVE  TaskKept(BootFrame(f, rootMenu[selected + 1]), devices, mounted, consumed, decider, rootMenu, hook)
<1> DEFINE e == rootMenu[selected + 1]
           b == BootFrame(f, e)
           paths == What(e).paths
<1>1. e \in Known /\ selected + 1 \in 1..Len(rootMenu)
  BY SelectedEntry DEF KeptAlone
<1>2. DOMAIN rootMenu = 1..Len(rootMenu)
  <2>1. rootMenu \in Seq(Known)
    BY DEF KeptAlone, Kept, Listed
  <2>2. QED
    BY <2>1, LenProperties
<1>3. DevOf(e.src) \in devices
  BY <1>1, <1>2 DEF KeptAlone, Live, EntriesLive
<1>4. paths \in Seq(Parts \cup {"self"})
  BY <1>1, WhatKnown DEF EntryType
<1>5. /\ b.task = "boot" /\ b.entry = e /\ b.rest = paths /\ b.got = <<>>
      /\ b.pc = IF paths = <<>> THEN "load" ELSE "resolve"
  BY <1>1, BootFrameOK
<1>6. What(b.entry).paths = paths
  BY <1>5
<1> HIDE DEF b, e, paths
<1>7. Len(paths) \in Nat /\ Len(b.got) = 0 /\ (paths = <<>> => Len(paths) = 0)
  BY <1>4, <1>5, EmptySeq, LenProperties
<1>8. \A i \in 1..Len(b.rest) : b.rest[i] = paths[Len(b.got) + i]
  BY <1>5, <1>7
<1>9. \A i \in 1..Len(b.got) : FALSE
  BY <1>7
<1>10. Booting(b, devices, mounted, hook)
  <2>1. b.pc \in {"load", "resolve"} /\ (b.pc = "load" => b.rest = <<>> /\ Len(b.rest) = 0)
    BY <1>5, <1>7
  <2>2. DevOf(b.entry.src) \in devices /\ Len(b.got) + Len(b.rest) = Len(What(b.entry).paths)
    BY <1>3, <1>5, <1>6, <1>7
  <2>3. b.got = <<>> /\ \A i \in 1..Len(b.rest) : b.rest[i] = What(b.entry).paths[Len(b.got) + i]
    BY <1>5, <1>6, <1>8
  <2>4. b.rest # <<>> => b.pc = "resolve"
    BY <1>5
  <2>5. \A i \in 1..Len(b.got) : b.got[i] = Target(b.entry, What(b.entry).paths[i])
    BY <1>9
  <2>6. ~(b.rest # <<>> /\ b.pc \in {"mount", "mounting", "open", "load"})
    BY <2>4
  <2>7. ~(b.rest # <<>> /\ b.pc \in {"open", "load"}) /\ ~(b.pc = "load" /\ Len(b.rest) = 1)
    BY <2>1, <2>4
  <2>8. QED
    BY <2>2, <2>3, <2>5, <2>6, <2>7, Zenon DEF Booting
<1>11. TaskKept(b, devices, mounted, consumed, decider, rootMenu, hook)
  BY <1>5, <1>10 DEF TaskKept, Registering, Unregistering, Shooting, Mounting
<1>12. QED
  BY <1>11 DEF b, e

\* What the selected entry's callback does to the callback that calls it.
LEMMA SelectAlone ==
  ASSUME Uncrossed, KeptAlone, NEW f \in FrameType, NEW running \in BOOLEAN, Select(f, running),
         halt = "no", UNCHANGED <<devices, mounted, consumed, decider, rootMenu, hook>>,
         running => \E at : At(at)
  PROVE  Working' /\ Live' /\ Ends'
<1>1. halt' \in {"no", "left", "wild"}
  BY DEF Select, Stop
<1>2. Live' /\ Ends'
  BY <1>1, LiveSame, NotEnded DEF KeptAlone
<1>3. Kept /\ stack \in Seq(FrameType)
  BY DEF KeptAlone, Kept, Nested, Stacked
<1>4. CASE /\ selected < Len(rootMenu)
           /\ IF running THEN Continue(BootFrame(f, rootMenu[selected + 1]))
                         ELSE Enter(BootFrame(f, rootMenu[selected + 1]))
  <2> DEFINE b == BootFrame(f, rootMenu[selected + 1])
  <2>1. TaskKept(b, devices, mounted, consumed, decider, rootMenu, hook)
    BY <1>4, BootBegins
  <2>2. IF running THEN Continue(b) ELSE stack' = Append(stack, b)
    BY <1>4 DEF Enter
  <2>3. b.pc \in {"load", "resolve"}
    BY <1>3, <1>4, SelectedEntry, BootFrameOK
  <2> HIDE DEF b
  <2>4. TaskKept(b, devices', mounted', consumed', decider', rootMenu', hook')
    BY <2>1
  <2>5. CASE running
    BY <1>2, <1>3, <2>2, <2>3, <2>4, <2>5, WorksOn
  <2>6. CASE ~running
    BY <1>2, <1>3, <2>2, <2>3, <2>4, <2>6, WorksBegun
  <2>7. QED
    BY <2>5, <2>6
<1>5. CASE IF running THEN Return ELSE Idle
  <2>1. CASE running
    <3>1. stack # <<>> /\ stack' = Front(stack)
      BY <1>5, <2>1 DEF At, Return
    <3>2. QED
      BY <1>2, <1>3, <3>1, FramesOf, WorksSame
  <2>2. CASE ~running
    <3>1. stack' = stack
      BY <1>5, <2>2 DEF Idle
    <3>2. QED
      BY <1>2, <3>1, WorksSame
  <2>3. QED
    BY <2>1, <2>2
<1>6. CASE Stop("wild")
  BY <1>2, <1>6 DEF Stop, Working
<1>7. QED
  BY <1>4, <1>5, <1>6 DEF Select

\* A callback of the menu begins, goes on or ends.
LEMMA MenuAlone ==
  ASSUME KeptAlone, halt = "no", halt' = halt,
         UNCHANGED <<devices, mounted, consumed, decider, rootMenu, hook>>,
         \/ stack' = stack
         \/ \E f : stack' = Append(stack, f) /\ f.pc \in {"store", "count", "fire"}
         \/ stack # <<>> /\ \E f : Continue(f) /\ f.pc \in {"store", "count", "fire"}
         \/ stack # <<>> /\ stack' = Front(stack)
  PROVE  Working' /\ Live' /\ Ends'
<1>1. stack \in Seq(FrameType)
  BY DEF KeptAlone, Kept, Nested, Stacked
<1>2. \A i \in 1..Len(stack') :
        (i \in 1..Len(stack) /\ stack'[i] = stack[i]) \/ stack'[i].pc \in {"store", "count", "fire"}
  BY <1>1, FramesOf
<1>3. Working'
  BY <1>2, WorksSame
<1>4. Live' /\ Ends'
  BY LiveSame, NotEnded DEF KeptAlone
<1>5. QED
  BY <1>3, <1>4

LEMMA CountingAlone ==
  ASSUME Uncrossed, KeptAlone, BootNow \/ Count \/ Fire \/ Store
  PROVE  Working' /\ Live' /\ Ends'
<1>1. /\ UNCHANGED <<devices, mounted, consumed, decider, rootMenu, hook>>
      /\ halt = "no" /\ stack # <<>> /\ (~Fire => halt' = halt)
  BY DEF BootNow, Count, Fire, Store, Running, fsVars, menuVars, cfgVars, At
<1>2. PICK at : At(at)
  BY DEF BootNow, Count, Fire, Store
<1>3. Top \in FrameType /\ Kept
  BY <1>2, AtFacts DEF KeptAlone
<1>4. CASE Return /\ ~Fire
  BY <1>1, <1>4, MenuAlone DEF Return
<1>5. ASSUME NEW pc \in {"count", "fire"}, Goto(pc), ~Fire
      PROVE  Working' /\ Live' /\ Ends'
  <2> DEFINE f == [Top EXCEPT !.pc = pc]
  <2>1. Continue(f) /\ f.pc = pc
    BY <1>3, <1>5 DEF Goto, FrameType
  <2> HIDE DEF f
  <2>2. QED
    BY <1>1, <1>5, <2>1, MenuAlone
<1>6. CASE Fire
  <2>1. Select(Top, TRUE)
    BY <1>6 DEF Fire
  <2>2. QED
    BY <1>1, <1>2, <1>3, <2>1, SelectAlone
<1>7. QED
  BY <1>4, <1>5, <1>6 DEF BootNow, Count, Store

LEMMA WillSelectAlone ==
  ASSUME KeptAlone, NEW task, NEW n, WillSelect(task, n), halt = "no", halt' = halt,
         UNCHANGED <<devices, mounted, consumed, decider, rootMenu, hook>>
  PROVE  Working' /\ Live' /\ Ends'
<1> DEFINE f == [Frame("ui", task, "store") EXCEPT !.to = n]
<1>1. f.pc = "store" /\ stack' = Append(stack, f)
  BY DEF WillSelect, Enter, Frame
<1> HIDE DEF f
<1>2. QED
  BY <1>1, MenuAlone

LEMMA CallbackAlone ==
  ASSUME KeptAlone, InputArrives \/ Countdown \/ UI_Redraw
  PROVE  Working' /\ Live' /\ Ends'
<1>1. /\ UNCHANGED <<devices, mounted, consumed, decider, rootMenu, hook>>
      /\ halt = "no" /\ halt' = halt
  BY DEF InputArrives, Countdown, UI_Redraw, Callback, Running, fsVars, menuVars, cfgVars
<1>2. CASE InputArrives
  BY <1>1, <1>2, MenuAlone DEF InputArrives, Idle
<1>3. CASE Countdown
  <2> DEFINE f == Frame("autoboot", "count", "count")
  <2>1. f.pc = "count" /\ stack' = Append(stack, f)
    BY <1>3 DEF Countdown, Enter, Frame
  <2> HIDE DEF f
  <2>2. QED
    BY <1>1, <2>1, MenuAlone
<1>4. CASE UI_Redraw
  BY <1>1, <1>4, WillSelectAlone DEF UI_Redraw
<1>5. QED
  BY <1>2, <1>3, <1>4

LEMMA UI_HandleInputsAlone ==
  ASSUME Uncrossed, KeptAlone, UI_HandleInputs
  PROVE  Working' /\ Live' /\ Ends'
<1>1. /\ UNCHANGED <<devices, mounted, consumed, decider, rootMenu, hook>>
      /\ halt = "no" /\ Kept
  BY DEF UI_HandleInputs, Callback, fsVars, cfgVars, KeptAlone
<1>2. /\ Frame("ui", "boot", "resolve") \in FrameType /\ Frame("ui", "shot", "target") \in FrameType
      /\ Frame("ui", "shot", "target").task = "shot" /\ Frame("ui", "shot", "target").pc = "target"
  BY NewFrame DEF Places, Tasks
<1>3. CASE Select(Frame("ui", "boot", "resolve"), FALSE)
  BY <1>1, <1>2, <1>3, SelectAlone
<1>4. CASE (Down \/ Up \/ Scroll) /\ halt' = halt
  BY <1>1, <1>4, WillSelectAlone, MenuAlone DEF Down, Up, Scroll, Idle
<1>5. CASE Enter([Frame("ui", "shot", "target") EXCEPT !.old = mounted]) /\ halt' = halt
  <2> DEFINE g == Frame("ui", "shot", "target")
             f == [g EXCEPT !.old = mounted]
  <2>1. stack' = Append(stack, f) /\ g \in FrameType /\ g.task = "shot" /\ g.pc = "target"
    BY <1>2, <1>5 DEF Enter
  <2> HIDE DEF g
  <2>2. f.task = "shot" /\ f.pc = "target" /\ f.old = mounted
    BY <2>1 DEF FrameType
  <2> HIDE DEF f
  <2>3. mounted # NoPart => DevOf(mounted) \in devices
    BY <1>1 DEF KeptAlone, Live, MountLive
  <2>4. TaskKept(f, devices', mounted', consumed', decider', rootMenu', hook')
    BY <1>1, <2>2, <2>3 DEF TaskKept, Registering, Unregistering, Booting, Shooting, Mounting
  <2>5. Live' /\ Ends'
    BY <1>1, <1>5, LiveSame, NotEnded DEF KeptAlone
  <2>6. QED
    BY <1>1, <2>1, <2>2, <2>4, <2>5, WorksBegun
<1>6. QED
  BY <1>3, <1>4, <1>5 DEF UI_HandleInputs

LEMMA ResolveAlone ==
  ASSUME Uncrossed, KeptAlone, Resolve
  PROVE  Working' /\ Live' /\ Ends'
<1> DEFINE path == Head(Top.rest)
           p == Target(Top.entry, path)
           at == IF mounted = p THEN "open" ELSE "mount"
           f == [Top EXCEPT !.part = p, !.pc = at]
<1>1. /\ At("resolve") /\ UNCHANGED <<devices, mounted, consumed, decider, rootMenu, hook, halt>>
      /\ halt = "no" /\ (Return \/ Continue(f))
      /\ ~Return => path = "self" \/ DevOf(p) \in devices
  BY DEF Resolve, Running, menuVars, cfgVars, At
<1>2. /\ TaskKept(Top, devices, mounted, consumed, decider, rootMenu, hook)
      /\ FrameOK(Top) /\ Top \in FrameType /\ Top.pc = "resolve" /\ Kept /\ Top.task = "boot"
  BY <1>1, WorkFacts DEF FrameOK, PlaceOK
<1>3. Live' /\ Ends'
  BY <1>1, LiveSame, NotEnded DEF KeptAlone
<1>4. CASE Return
  BY <1>1, <1>2, <1>3, <1>4, WorksNoMore
<1>5. CASE ~Return
  <2>1. DevOf(p) \in devices
    <3>1. DevOf(Top.entry.src) \in devices
      BY <1>2 DEF TaskKept, Booting
    <3>2. CASE path = "self"
      BY <3>1, <3>2 DEF Target, SelfIs
    <3>3. QED
      BY <1>1, <1>5, <3>2
  <2>2. p = Target(Top.entry, Head(Top.rest)) /\ (at = "open" => mounted = p) /\ at \in {"open", "mount"}
    OBVIOUS
  <2>3. Continue(f)
    BY <1>1, <1>5
  <2> HIDE DEF p, at
  <2>4. /\ f.task = "boot" /\ f.entry = Top.entry /\ f.rest = Top.rest /\ f.got = Top.got
        /\ f.part = p /\ f.pc = at
    BY <1>2 DEF FrameType
  <2> HIDE DEF f
  <2>5. Booting(f, devices', mounted', hook')
    BY <1>1, <1>2, <2>2, <2>4 DEF TaskKept, Booting
  <2>6. TaskKept(f, devices', mounted', consumed', decider', rootMenu', hook')
    BY <1>1, <2>1, <2>2, <2>4, <2>5 DEF TaskKept, Registering, Unregistering, Shooting, Mounting
  <2>7. QED
    BY <1>1, <1>2, <1>3, <2>2, <2>3, <2>4, <2>6, WorksOn
<1>6. QED
  BY <1>4, <1>5

LEMMA OpenFileAlone ==
  ASSUME Uncrossed, KeptAlone, OpenFile
  PROVE  Working' /\ Live' /\ Ends'
<1>1. /\ At("open") /\ UNCHANGED <<devices, mounted, consumed, decider, rootMenu, halt>>
      /\ halt = "no"
  BY DEF OpenFile, Running, menuVars, cfgVars, At
<1>2. /\ TaskKept(Top, devices, mounted, consumed, decider, rootMenu, hook)
      /\ FrameOK(Top) /\ Top \in FrameType /\ Top.pc = "open" /\ Kept /\ Top.task = "boot"
  BY <1>1, WorkFacts DEF FrameOK, PlaceOK
<1>3. Live' /\ Ends'
  BY <1>1, LiveSame, NotEnded DEF KeptAlone
<1>4. CASE Return
  BY <1>1, <1>2, <1>3, <1>4, WorksNoMore
<1>5. CASE ~Return
  <2>1. PICK s \in 1..Slots : Continue([Top EXCEPT !.fd = s, !.pc = "load"])
    BY <1>5 DEF OpenFile
  <2>2. hook' = HookFor(Top)
    BY <1>5 DEF OpenFile
  <2> DEFINE f == [Top EXCEPT !.fd = s, !.pc = "load"]
  <2>3. /\ Continue(f) /\ f.task = "boot" /\ f.entry = Top.entry /\ f.rest = Top.rest
        /\ f.got = Top.got /\ f.part = Top.part /\ f.pc = "load"
    BY <1>2, <2>1 DEF FrameType
  <2> HIDE DEF f
  <2>4. Booting(f, devices', mounted', hook')
    BY <1>1, <1>2, <2>2, <2>3 DEF TaskKept, Booting, HookFor
  <2>5. TaskKept(f, devices', mounted', consumed', decider', rootMenu', hook')
    BY <2>3, <2>4 DEF TaskKept, Registering, Unregistering, Shooting, Mounting
  <2>6. QED
    BY <1>1, <1>2, <1>3, <2>3, <2>5, WorksOn
<1>6. QED
  BY <1>4, <1>5

\* What a boot holds when it reads its next file.
LEMMA Loaded ==
  ASSUME KeptAlone, At("load"), Top.rest # <<>>, Valid(Top.fd)
  PROVE  /\ files[Top.fd] = Target(Top.entry, What(Top.entry).paths[Len(Top.got) + 1])
         /\ files[Top.fd] \in Parts /\ Top.got \in Seq(Parts) /\ Top.entry \in Known
<1>1. /\ TaskKept(Top, devices, mounted, consumed, decider, rootMenu, hook)
      /\ FrameOK(Top) /\ Top \in FrameType /\ Top.pc = "load" /\ Kept /\ Top.task = "boot"
  BY WorkFacts DEF FrameOK, PlaceOK
<1>2. Top.fd \in 1..Slots
  BY <1>1 DEF FrameOK, Reads
<1>3. files[Top.fd] = mounted /\ files[Top.fd] \in Parts
  BY <1>1, <1>2 DEF Kept, FilesKept, Valid, Free, Typed
<1>4. mounted = Target(Top.entry, Head(Top.rest))
  BY <1>1 DEF TaskKept, Booting
<1>5. Head(Top.rest) = What(Top.entry).paths[Len(Top.got) + 1]
  <2>1. Top.rest \in Seq(Parts \cup {"self"})
    BY <1>1 DEF FrameType
  <2>2. Head(Top.rest) = Top.rest[1] /\ 1 \in 1..Len(Top.rest)
    BY <2>1, TailElements, HeadTailProperties
  <2>3. QED
    BY <1>1, <2>2 DEF TaskKept, Booting
<1>6. Top.got \in Seq(Parts) /\ Top.entry \in Known
  BY <1>1 DEF FrameType, FrameOK
<1>7. QED
  BY <1>3, <1>4, <1>5, <1>6

LEMMA LoadAuxAlone ==
  ASSUME Uncrossed, KeptAlone, LoadAux
  PROVE  Working' /\ Live' /\ Ends'
<1>1. /\ At("load") /\ UNCHANGED <<devices, mounted, consumed, decider, rootMenu, hook, halt>>
      /\ halt = "no" /\ Len(Top.rest) > 1
  BY DEF LoadAux, Running, menuVars, cfgVars, At
<1>2. /\ TaskKept(Top, devices, mounted, consumed, decider, rootMenu, hook)
      /\ FrameOK(Top) /\ Top \in FrameType /\ Top.pc = "load" /\ Kept /\ Top.task = "boot"
  BY <1>1, WorkFacts DEF FrameOK, PlaceOK
<1>3. Live' /\ Ends'
  BY <1>1, LiveSame, NotEnded DEF KeptAlone
<1>4. CASE Return
  BY <1>1, <1>2, <1>3, <1>4, WorksNoMore
<1>5. CASE ~Return
  <2> DEFINE x == files[Top.fd]
             u == Top.rest
             a == Top.got
             r == Tail(u)
             got == Append(a, x)
             paths == What(Top.entry).paths
             f == [Top EXCEPT !.got = got, !.rest = r, !.pc = "resolve"]
  <2>1. Valid(Top.fd) /\ Continue(f)
    BY <1>5 DEF LoadAux
  <2>2. u \in Seq(Parts \cup {"self"}) /\ u # <<>> /\ Len(u) > 1
    <3>1. u \in Seq(Parts \cup {"self"})
      BY <1>2 DEF FrameType
    <3>2. QED
      BY <1>1, <3>1, EmptySeq
  <2>3. x = Target(Top.entry, paths[Len(a) + 1]) /\ x \in Parts /\ a \in Seq(Parts)
    BY <1>1, <2>1, <2>2, Loaded
  <2>4. /\ Len(a) + Len(u) = Len(paths) /\ DevOf(Top.entry.src) \in devices
        /\ \A i \in 1..Len(a) : a[i] = Target(Top.entry, paths[i])
        /\ \A i \in 1..Len(u) : u[i] = paths[Len(a) + i]
    BY <1>2 DEF TaskKept, Booting
  <2> HIDE DEF x, u, a
  <2>5. /\ got \in Seq(Parts) /\ Len(got) = Len(a) + 1 /\ Len(a) \in Nat
        /\ got[Len(a) + 1] = x /\ \A i \in 1..Len(a) : got[i] = a[i]
    BY <2>3, AppendProperties, LenProperties
  <2>6. /\ r \in Seq(Parts \cup {"self"}) /\ Len(r) = Len(u) - 1 /\ Len(u) \in Nat
        /\ \A j \in 1..(Len(u) - 1) : r[j] = u[j + 1]
    BY <2>2, TailElements
  <2> HIDE DEF r, got
  <2>7. r # <<>>
    <3>1. Len(r) # 0
      BY <2>2, <2>6
    <3>2. QED
      BY <2>6, <3>1, EmptySeq
  <2>8. /\ f.task = "boot" /\ f.entry = Top.entry /\ f.rest = r /\ f.got = got /\ f.pc = "resolve"
    BY <1>2, <2>5, <2>6 DEF FrameType
  <2> HIDE DEF f
  <2>9. Len(got) + Len(r) = Len(paths)
    <3>1. Len(a) + Len(u) = Len(paths)
      BY <2>4
    <3> HIDE DEF paths
    <3>2. Len(got) = Len(a) + 1 /\ Len(r) = Len(u) - 1 /\ Len(a) \in Nat /\ Len(u) \in Nat
      BY <2>5, <2>6
    <3>3. QED
      BY <3>1, <3>2
  <2>10. ASSUME NEW i \in 1..Len(got)
         PROVE  got[i] = Target(Top.entry, paths[i])
    <3>1. i \in 1..Len(a) \/ i = Len(a) + 1
      BY <2>5
    <3>2. QED
      BY <2>3, <2>4, <2>5, <3>1
  <2>11. ASSUME NEW i \in 1..Len(r)
         PROVE  r[i] = paths[Len(got) + i]
    <3>1. i \in 1..(Len(u) - 1) /\ i + 1 \in 1..Len(u) /\ Len(got) + i = Len(a) + (i + 1)
      BY <2>5, <2>6
    <3>2. QED
      BY <2>4, <2>6, <3>1
  <2>12. What(f.entry).paths = paths
    BY <2>8
  <2> HIDE DEF paths
  <2>13. Booting(f, devices', mounted', hook')
    BY <1>1, <2>4, <2>7, <2>8, <2>9, <2>10, <2>11, <2>12 DEF Booting
  <2>14. TaskKept(f, devices', mounted', consumed', decider', rootMenu', hook')
    BY <2>8, <2>13 DEF TaskKept, Registering, Unregistering, Shooting, Mounting
  <2>15. QED
    BY <1>1, <1>2, <1>3, <2>1, <2>8, <2>14, WorksOn
<1>6. QED
  BY <1>4, <1>5

\* A program is started, with what its entry names.
LEMMA StartAlone ==
  ASSUME Uncrossed, KeptAlone, NEW program, H_PrepareForExecEntry(program), rootMenu' = rootMenu,
         program.got = [i \in DOMAIN What(program.entry).paths |->
                          Target(program.entry, What(program.entry).paths[i])],
         program.entry.file = "npll" /\ What(program.entry).paths # <<>>
           => program.hook = NeedsHook(program.entry)
  PROVE  Working' /\ Live' /\ Ends'
<1>1. halt' \in {"started", "busy"} /\ (halt' = "started" => started' = program)
  BY DEF H_PrepareForExecEntry, Stop
<1>2. Working' /\ Live'
  BY <1>1 DEF Working, Live, MountLive, EntriesLive
<1>3. Ends'
  <2>1. CASE halt' = "busy"
    BY <2>1, NotEnded
  <2>2. CASE halt' = "started"
    <3> USE <1>1, <2>2
    <3>1. StartedFromPaths'
      BY DEF StartedFromPaths, Target, SelfIs
    <3>2. HookOfEntry'
      BY DEF HookOfEntry
    <3>3. QED
      BY <3>1, <3>2 DEF Ends
  <2>3. QED
    BY <1>1, <2>1, <2>2
<1>4. QED
  BY <1>2, <1>3

LEMMA LoadExecAlone ==
  ASSUME Uncrossed, KeptAlone, LoadExec
  PROVE  Working' /\ Live' /\ Ends'
<1>1. At("load") /\ Len(Top.rest) = 1 /\ halt = "no" /\ rootMenu' = rootMenu
  BY DEF LoadExec, menuVars, At
<1>2. /\ TaskKept(Top, devices, mounted, consumed, decider, rootMenu, hook)
      /\ FrameOK(Top) /\ Top \in FrameType /\ Top.pc = "load" /\ Kept /\ Top.task = "boot"
  BY <1>1, WorkFacts DEF FrameOK, PlaceOK
<1>3. CASE Stop("panic")
  BY <1>3, StopAlone
<1>4. CASE Return /\ Running /\ UNCHANGED <<mounted, devices>>
  <2>1. Live' /\ Ends'
    BY <1>1, <1>4, LiveSame, NotEnded DEF KeptAlone, Running
  <2>2. QED
    BY <1>1, <1>2, <1>4, <2>1, WorksNoMore
<1>5. CASE Valid(Top.fd) /\ H_PrepareForExecEntry([entry |-> Top.entry, hook |-> hook,
                                                    got |-> Append(Top.got, files[Top.fd])])
  <2> DEFINE x == files[Top.fd]
             a == Top.got
             got == Append(a, x)
             e == Top.entry
             paths == What(e).paths
             program == [entry |-> e, hook |-> hook, got |-> got]
  <2>1. Top.rest # <<>>
    BY <1>1, EmptySeq
  <2>2. x = Target(e, paths[Len(a) + 1]) /\ a \in Seq(Parts) /\ x \in Parts /\ e \in Known
    BY <1>1, <1>5, <2>1, Loaded
  <2>3. /\ Len(a) + 1 = Len(paths)
        /\ \A i \in 1..Len(a) : a[i] = Target(e, paths[i])
        /\ e.file = "npll" => hook = NeedsHook(e)
    BY <1>1, <1>2 DEF TaskKept, Booting
  <2>4. H_PrepareForExecEntry(program)
    BY <1>5
  <2>5. paths \in Seq(Parts \cup {"self"})
    BY <2>2, WhatKnown DEF EntryType
  <2>6. DOMAIN paths = 1..Len(paths)
    BY <2>5, LenProperties
  <2> HIDE DEF x, a
  <2>7. /\ got \in Seq(Parts) /\ Len(got) = Len(a) + 1 /\ Len(a) \in Nat
        /\ got[Len(a) + 1] = x /\ \A i \in 1..Len(a) : got[i] = a[i]
    BY <2>2, AppendProperties, LenProperties
  <2>8. got \in [1..Len(got) -> Parts]
    BY <2>7, LenProperties
  <2> HIDE DEF got, paths
  <2>9. \A i \in 1..Len(paths) : got[i] = Target(e, paths[i])
    <3>1. \A i \in 1..Len(paths) : i \in 1..Len(a) \/ i = Len(a) + 1
      BY <2>3, <2>7
    <3>2. QED
      BY <2>2, <2>3, <2>7, <3>1
  <2>10. got = [i \in DOMAIN paths |-> Target(e, paths[i])]
    BY <2>3, <2>6, <2>7, <2>8, <2>9
  <2>11. program.entry = e /\ program.got = got /\ program.hook = hook
    OBVIOUS
  <2> HIDE DEF program
  <2>12. QED
    BY <1>1, <2>3, <2>4, <2>10, <2>11, StartAlone DEF paths
<1>6. QED
  BY <1>3, <1>4, <1>5 DEF LoadExec

LEMMA StartChannelAlone ==
  ASSUME Uncrossed, KeptAlone, StartChannel
  PROVE  Working' /\ Live' /\ Ends'
<1>1. At("load") /\ Top.rest = <<>> /\ halt = "no" /\ rootMenu' = rootMenu
  BY DEF StartChannel, menuVars, At
<1>2. /\ TaskKept(Top, devices, mounted, consumed, decider, rootMenu, hook)
      /\ FrameOK(Top) /\ Top \in FrameType /\ Top.pc = "load" /\ Kept /\ Top.task = "boot"
  BY <1>1, WorkFacts DEF FrameOK, PlaceOK
<1>3. CASE Return /\ Running /\ UNCHANGED <<fsVars, devices>>
  <2>1. Live' /\ Ends'
    BY <1>1, <1>3, LiveSame, NotEnded DEF KeptAlone, Running, fsVars
  <2>2. QED
    BY <1>1, <1>2, <1>3, <2>1, WorksNoMore
<1>4. CASE H_PrepareForExecEntry([entry |-> Top.entry, got |-> <<>>, hook |-> FALSE])
  <2> DEFINE none == <<>>
             e == Top.entry
             paths == What(e).paths
             program == [entry |-> e, got |-> none, hook |-> FALSE]
  <2>1. none \in Seq(Parts) /\ Len(none) = 0 /\ Top.got = none /\ Top.rest = none
    BY <1>1, <1>2, EmptySeq DEF TaskKept, Booting
  <2>2. Len(Top.got) + Len(Top.rest) = Len(paths) /\ e \in Known
    BY <1>2 DEF TaskKept, Booting, FrameOK
  <2>3. Len(paths) = 0
    BY <2>1, <2>2
  <2>4. paths \in Seq(Parts \cup {"self"})
    BY <2>2, WhatKnown DEF EntryType
  <2>5. paths = <<>> /\ paths = none
    BY <2>3, <2>4, EmptySeq
  <2>6. H_PrepareForExecEntry(program)
    BY <1>4
  <2>7. DOMAIN none = {} /\ DOMAIN paths = {}
    BY <2>5
  <2> HIDE DEF paths
  <2>8. none = [i \in DOMAIN paths |-> Target(e, paths[i])]
    BY <2>7
  <2> HIDE DEF none
  <2>9. program.entry = e /\ program.got = none /\ program.hook = FALSE
    OBVIOUS
  <2> HIDE DEF program
  <2>10. QED
    BY <1>1, <2>5, <2>6, <2>8, <2>9, StartAlone DEF paths
<1>5. QED
  BY <1>3, <1>4 DEF StartChannel

\* Screenshots.
LEMMA ChooseTargetAlone ==
  ASSUME Uncrossed, KeptAlone, ChooseTarget
  PROVE  Working' /\ Live' /\ Ends'
<1>1. /\ At("target") /\ UNCHANGED <<devices, mounted, consumed, decider, rootMenu, hook, halt>>
      /\ halt = "no"
  BY DEF ChooseTarget, Running, menuVars, cfgVars, At
<1>2. /\ TaskKept(Top, devices, mounted, consumed, decider, rootMenu, hook)
      /\ FrameOK(Top) /\ Top \in FrameType /\ Top.pc = "target" /\ Kept /\ Top.task = "shot"
  BY <1>1, WorkFacts DEF FrameOK, PlaceOK
<1>3. Live' /\ Ends'
  BY <1>1, LiveSame, NotEnded DEF KeptAlone
<1>4. mounted = Top.old /\ (Top.old # NoPart => DevOf(Top.old) \in devices)
  BY <1>2 DEF TaskKept, Shooting
<1>5. CASE Return
  BY <1>1, <1>2, <1>3, <1>5, WorksNoMore
<1>6. ASSUME NEW p, NEW pc \in {"write", "mount"}, Continue([Top EXCEPT !.part = p, !.pc = pc]),
             DevOf(p) \in devices, pc = "write" => p = Top.old
      PROVE  Working'
  <2> DEFINE f == [Top EXCEPT !.part = p, !.pc = pc]
  <2>1. Continue(f) /\ f.task = "shot" /\ f.pc = pc /\ f.part = p /\ f.old = Top.old
    BY <1>2, <1>6 DEF FrameType
  <2> HIDE DEF f
  <2>2. TaskKept(f, devices', mounted', consumed', decider', rootMenu', hook')
    BY <1>1, <1>4, <1>6, <2>1 DEF TaskKept, Registering, Unregistering, Booting, Shooting, Mounting
  <2>3. QED
    BY <1>1, <1>2, <2>1, <2>2, WorksOn
<1>7. CASE Top.old # NoPart /\ Continue([Top EXCEPT !.part = Top.old, !.pc = "write"])
  <2> DEFINE p == Top.old
  <2>1. Continue([Top EXCEPT !.part = p, !.pc = "write"]) /\ DevOf(p) \in devices /\ p = Top.old
    BY <1>4, <1>7
  <2> HIDE DEF p
  <2>2. QED
    BY <1>3, <1>6, <2>1
<1>8. CASE \E p \in Parts : IsTarget(p) /\ Continue([Top EXCEPT !.part = p, !.pc = "mount"])
  BY <1>3, <1>6, <1>8 DEF IsTarget
<1>9. QED
  BY <1>5, <1>7, <1>8 DEF ChooseTarget

LEMMA SaveScreenshotAlone ==
  ASSUME Uncrossed, KeptAlone, SaveScreenshot
  PROVE  Working' /\ Live' /\ Ends'
<1>1. /\ At("write") /\ UNCHANGED <<devices, consumed, decider, rootMenu, hook, halt>>
      /\ halt = "no" /\ (mounted' = mounted \/ mounted' = NoPart)
  BY DEF SaveScreenshot, FS_Unmount, fsVars, Running, menuVars, cfgVars, At
<1>2. /\ TaskKept(Top, devices, mounted, consumed, decider, rootMenu, hook)
      /\ FrameOK(Top) /\ Top \in FrameType /\ Top.pc = "write" /\ Kept /\ Top.task = "shot"
  BY <1>1, WorkFacts DEF FrameOK, PlaceOK
<1>3. Live' /\ Ends'
  BY <1>1, LiveSame, NotEnded DEF KeptAlone
<1>4. Top.old # NoPart => DevOf(Top.old) \in devices
  BY <1>2 DEF TaskKept, Shooting
<1>5. CASE Return
  BY <1>1, <1>2, <1>3, <1>5, WorksNoMore
<1>6. CASE ~Return
  <2> DEFINE p == Top.old
             f == [Top EXCEPT !.task = "restore", !.part = p, !.pc = "mount"]
  <2>1. Continue(f) /\ Top.old # NoPart
    BY <1>6 DEF SaveScreenshot
  <2> HIDE DEF p
  <2>2. f.task = "restore" /\ f.pc = "mount" /\ f.part = p /\ f.old = Top.old
    BY <1>2 DEF FrameType
  <2> HIDE DEF f
  <2>3. TaskKept(f, devices', mounted', consumed', decider', rootMenu', hook')
    BY <1>1, <1>4, <2>1, <2>2 DEF TaskKept, Registering, Unregistering, Booting, Shooting, Mounting, p
  <2>4. QED
    BY <1>1, <1>2, <1>3, <2>1, <2>2, <2>3, WorksOn
<1>7. QED
  BY <1>5, <1>6

LEMMA InitKeptAlone ==
  ASSUME Init
  PROVE  KeptAlone
<1>1. Kept
  BY InitKept
<1>2. Working /\ ~Crossing
  <2> DEFINE none == <<>>
  <2>1. stack = none /\ Len(none) = 0 /\ DOMAIN none = {}
    BY EmptySeq DEF Init
  <2> HIDE DEF none
  <2>2. (\A i \in 1..Len(stack) : FALSE) /\ (\A i \in DOMAIN stack : FALSE)
    BY <2>1
  <2>3. QED
    BY <2>2 DEF Working, Crossing
<1>3. Live
  <2> DEFINE none == <<>>
  <2>1. rootMenu = none /\ DOMAIN none = {} /\ mounted = NoPart
    BY DEF Init
  <2> HIDE DEF none
  <2>2. QED
    BY <2>1 DEF Live, MountLive, EntriesLive
<1>4. Ends
  BY DEF Init, Ends, StartedFromPaths, HookOfEntry
<1>5. QED
  BY <1>1, <1>2, <1>3, <1>4 DEF KeptAlone

LEMMA StepAlone ==
  ASSUME Uncrossed, KeptAlone,
         \/ \E d \in Devices : B_Register(d) \/ B_Unregister(d)
         \/ InputArrives \/ UI_HandleInputs \/ UI_Redraw \/ Countdown
         \/ Step
  PROVE  Working' /\ Live' /\ Ends'
<1>1. CASE \E d \in Devices : B_Register(d) \/ B_Unregister(d)
  BY <1>1, RegisterAlone, UnregisterAlone
<1>2. CASE InputArrives \/ UI_HandleInputs \/ UI_Redraw \/ Countdown
  BY <1>2, CallbackAlone, UI_HandleInputsAlone
<1>3. CASE FileSystemStep
  BY <1>3, MountStartAlone, MountEndAlone, NothingMountedAlone DEF FileSystemStep
<1>4. CASE BlockStep
  BY <1>4, ProbePartitionAlone, UnmountPartitionAlone, RemoveDeviceAlone DEF BlockStep
<1>5. CASE ConfigStep
  BY <1>5, OpenNpllAlone, ReadNpllAlone, OpenGumbootAlone, ReadGumbootAlone DEF ConfigStep
<1>6. CASE MenuStep
  BY <1>6, AddPartAlone, DelPartAlone, CountingAlone DEF MenuStep
<1>7. CASE BootStep
  BY <1>7, ResolveAlone, OpenFileAlone, LoadAuxAlone, LoadExecAlone, StartChannelAlone DEF BootStep
<1>8. CASE ScreenshotStep
  BY <1>8, ChooseTargetAlone, SaveScreenshotAlone DEF ScreenshotStep
<1>9. QED
  BY <1>1, <1>2, <1>3, <1>4, <1>5, <1>6, <1>7, <1>8 DEF Step

LEMMA NextKeepsAlone ==
  ASSUME Kept, Moving, crossed \/ KeptAlone, [Next]_vars
  PROVE  crossed' \/ KeptAlone'
<1>1. Kept'
  BY NextKeeps
<1>2. CASE UNCHANGED vars
  <2>1. UNCHANGED <<stack, devices, mounted, consumed, decider, rootMenu, hook, halt, started, crossed>>
    BY <1>2 DEF vars, sysVars, fsVars, menuVars, cfgVars
  <2>2. SUFFICES ASSUME KeptAlone PROVE KeptAlone'
    BY <2>1
  <2>3. Working' /\ ~Crossing'
    BY <2>1, <2>2 DEF KeptAlone, Working, Crossing
  <2>4. Live'
    BY <2>1, <2>2, LiveSame DEF KeptAlone
  <2>5. Ends'
    BY <2>1, <2>2 DEF KeptAlone, Ends, StartedFromPaths, HookOfEntry
  <2>6. QED
    BY <1>1, <2>3, <2>4, <2>5 DEF KeptAlone
<1>3. CASE Next
  <2>1. crossed' = (crossed \/ Crossing')
    BY <1>3 DEF Next
  <2>2. SUFFICES ASSUME ~crossed' PROVE KeptAlone'
    OBVIOUS
  <2>3. ~crossed /\ Uncrossed /\ KeptAlone
    BY <2>1, <2>2 DEF Uncrossed
  <2>4. \/ \E d \in Devices : B_Register(d) \/ B_Unregister(d)
        \/ InputArrives \/ UI_HandleInputs \/ UI_Redraw \/ Countdown
        \/ Step
    BY <1>3 DEF Next
  <2>5. Working' /\ Live' /\ Ends'
    BY <2>3, <2>4, StepAlone
  <2>6. QED
    BY <1>1, <2>3, <2>5 DEF KeptAlone, Uncrossed
<1>4. QED
  BY <1>2, <1>3

LEMMA StorageKeptAlone == Spec => [](crossed \/ KeptAlone)
<1>1. Init => crossed \/ KeptAlone
  BY InitKeptAlone
<1>2. (Kept /\ Moving) /\ (crossed \/ KeptAlone) /\ [Next]_vars => (crossed \/ KeptAlone)'
  BY NextKeepsAlone
<1>3. QED
  BY <1>1, <1>2, StorageKept, PTL DEF Spec

\* Until two callbacks that work on devices, filesystems or configurations
\* cross, nothing refers to a device that is gone, however the menu's own
\* work interleaves with theirs: B_Unregister (block.c) unmounts every
\* partition of it and takes it out of the menu before it forgets the device,
\* and what is mounted or added since is on a device that is there.
THEOREM NothingDangles == Spec => []ReferencesLive
<1>1. crossed \/ KeptAlone => ReferencesLive
  BY DEF KeptAlone, Live, ReferencesLive
<1>2. QED
  BY <1>1, StorageKeptAlone, PTL

\* Until then, what npllEnsureFS, FS_Open and the loaders hand over is what
\* the paths of the chosen entry name, in their order: "self" is the partition
\* of its configuration, whatever was mounted since it was read.
THEOREM StartsWhatIsNamed == Spec => []StartedFromPaths
<1>1. crossed \/ KeptAlone => StartedFromPaths
  BY DEF KeptAlone, Ends, StartedFromPaths
<1>2. QED
  BY <1>1, StorageKeptAlone, PTL

\* Until then, installPreEntryHook leaves the hook as this entry asks for it,
\* however many other entries were tried before.
THEOREM HookIsOfEntry == Spec => []HookOfEntry
<1>1. crossed \/ KeptAlone => HookOfEntry
  BY DEF KeptAlone, Ends, HookOfEntry
<1>2. QED
  BY <1>1, StorageKeptAlone, PTL

\* A countdown that begins.
Begins ==
  autoboot'.active /\ ~autoboot.active /\ consumed /\ ~crossed' => due'.owner = decider

LEMMA AutobootSame ==
  ASSUME autoboot' = autoboot \/ autoboot'.active = FALSE
  PROVE  Begins
  BY DEF Begins

LEMMA AddPartBegins ==
  ASSUME KeptAlone, AddPart
  PROVE  Begins
<1>1. At("add")
  BY DEF AddPart
<1>2. /\ TaskKept(Top, devices, mounted, consumed, decider, rootMenu, hook)
      /\ FrameOK(Top) /\ Top \in FrameType /\ Top.pc = "add" /\ Top.task = "register"
  BY <1>1, WorkFacts DEF FrameOK, PlaceOK
<1>3. CASE autoboot' = autoboot
  BY <1>3, AutobootSame
<1>4. CASE autoboot' # autoboot
  <2> DEFINE n == Top.globals.default
  <2>1. MayAutoboot(Top) /\ due' = Top.found[n + 1]
    BY <1>4 DEF AddPart, menuVars
  <2>2. n \in Nat /\ n < Len(Top.found) /\ Top.globals.timeout >= 0 /\ Len(Top.found) \in Nat
    <3>1. Top.found \in Seq(Known)
      BY <1>2 DEF FrameType
    <3>2. QED
      BY <1>2, <2>1, <3>1, LenProperties DEF MayAutoboot, FrameType
  <2> HIDE DEF n
  <2>3. n + 1 \in 1..Len(Top.found)
    BY <2>2
  <2>4. due'.owner = Top.part
    BY <1>2, <2>1, <2>3 DEF FrameOK
  <2>5. consumed => decider = Top.part
    BY <1>2, <2>2 DEF TaskKept, Registering
  <2>6. QED
    BY <2>4, <2>5 DEF Begins
<1>5. QED
  BY <1>3, <1>4

LEMMA NextBegins ==
  ASSUME Kept, crossed \/ KeptAlone, [Next]_vars
  PROVE  Begins
<1>1. CASE UNCHANGED vars
  BY <1>1, AutobootSame DEF vars, sysVars, menuVars
<1>2. CASE (\E d \in Devices : B_Register(d) \/ B_Unregister(d)) \/ InputArrives \/ Countdown \/ UI_Redraw
  BY <1>2, AutobootSame DEF B_Register, B_Unregister, InputArrives, Countdown, UI_Redraw, menuVars
<1>3. CASE FileSystemStep \/ BlockStep
  BY <1>3, AutobootSame
     DEF FileSystemStep, BlockStep, MountStart, MountEnd, NothingMounted, ProbePartition,
         UnmountPartition, RemoveDevice, menuVars
<1>4. CASE ConfigStep \/ ScreenshotStep
  BY <1>4, AutobootSame
     DEF ConfigStep, ScreenshotStep, OpenNpll, ReadNpll, OpenGumboot, ReadGumboot, ChooseTarget,
         SaveScreenshot, menuVars
<1>5. CASE BootStep
  BY <1>5, AutobootSame DEF BootStep, Resolve, OpenFile, LoadAux, LoadExec, StartChannel, menuVars
<1>6. autoboot \in [active : BOOLEAN, canceled : BOOLEAN, timeout : Nat]
  BY DEF Kept, Counted
<1>7. CASE UI_HandleInputs \/ DelPart
  <2>1. Canceled
    BY <1>7 DEF UI_HandleInputs, DelPart
  <2>2. autoboot'.active = FALSE
    BY <1>6, <2>1 DEF Canceled
  <2>3. QED
    BY <2>2, AutobootSame
<1>8. CASE BootNow \/ Fire \/ Store
  BY <1>8, AutobootSame DEF BootNow, Fire, Store, menuVars
<1>9. CASE Count
  <2> DEFINE a == autoboot
             t == a.timeout - 1
             less == [a EXCEPT !.timeout = t]
             over == [a EXCEPT !.active = FALSE, !.timeout = 0]
  <2>1. autoboot' = less \/ autoboot' = over
    BY <1>9 DEF Count
  <2>2. a \in [active : BOOLEAN, canceled : BOOLEAN, timeout : Nat] /\ a = autoboot
    BY <1>6
  <2> HIDE DEF a, t
  <2>3. less.active = a.active /\ over.active = FALSE
    BY <2>2
  <2> HIDE DEF less, over
  <2>4. QED
    BY <2>1, <2>2, <2>3 DEF Begins
<1>10. CASE AddPart /\ Next
  <2>1. crossed' \/ KeptAlone
    BY <1>10 DEF Next
  <2>2. QED
    BY <1>10, <2>1, AddPartBegins DEF Begins
<1>11. QED
  BY <1>1, <1>2, <1>3, <1>4, <1>5, <1>7, <1>8, <1>9, <1>10 DEF Next, Step, MenuStep

\* Until two callbacks cross, once an npll.cfg was read, a countdown that
\* begins is for an entry of the partition it was on (npllEverConsumed of
\* config.c): no configuration found later has a say in the timeout and the
\* default entry.
THEOREM FirstDecides == Spec => FirstConfigDecides
<1>1. (Kept /\ Moving) /\ (crossed \/ KeptAlone) /\ [Next]_vars => [Begins]_vars
  BY NextBegins
<1>2. QED
  BY <1>1, StorageKept, StorageKeptAlone, PTL DEF Spec, FirstConfigDecides, Begins

\* A screenshot that ends.
Restores == halt' = "no" /\ Len(stack') < Len(stack) /\ Top.task \in {"shot", "restore"} /\ ~crossed'
              => mounted' \in {Top.old, NoPart}

\* A callback that begins or goes on ends no other one.
LEMMA NoShrink ==
  ASSUME stack \in Seq(FrameType)
  PROVE  /\ stack' = stack => ~(Len(stack') < Len(stack))
         /\ \A f : stack' = Append(stack, f) => ~(Len(stack') < Len(stack))
         /\ stack # <<>> => \A f : Continue(f) => ~(Len(stack') < Len(stack))
<1>1. Len(stack) \in Nat
  BY LenProperties
<1>2. ASSUME NEW f, stack' = Append(stack, f) \/ (stack # <<>> /\ Continue(f))
      PROVE  Len(stack') = Len(stack) + 1 \/ Len(stack') = Len(stack)
  <2> DEFINE S == FrameType \cup {f}
  <2>1. stack \in Seq(S) /\ f \in S
    BY SeqMonotonic
  <2> HIDE DEF S
  <2>2. QED
    BY <1>2, <2>1, AppendProperties, ReplaceLast DEF Continue
<1>3. QED
  BY <1>1, <1>2

LEMMA NextRestores ==
  ASSUME Kept, crossed \/ KeptAlone, [Next]_vars
  PROVE  Restores
<1> SUFFICES ASSUME halt' = "no", Len(stack') < Len(stack), Top.task \in {"shot", "restore"}, ~crossed'
             PROVE  mounted' \in {Top.old, NoPart}
  BY DEF Restores
<1>0. stack \in Seq(FrameType)
  BY DEF Kept, Nested, Stacked
<1>1. ASSUME NEW at, At(at)
      PROVE  Top.pc = at /\ FrameOK(Top) /\ stack # <<>>
  BY <1>1, AtFacts
<1>2. CASE UNCHANGED vars \/ InputArrives
  BY <1>0, <1>2, NoShrink DEF vars, sysVars, InputArrives, Idle
<1>3. CASE (\E d \in Devices : B_Register(d) \/ B_Unregister(d)) \/ Countdown \/ UI_Redraw
  BY <1>0, <1>3, NoShrink DEF B_Register, B_Unregister, Countdown, UI_Redraw, WillSelect, Enter
<1>4. CASE UI_HandleInputs
  <2>1. (\E f : Enter(f)) \/ Idle \/ Stop("wild")
    BY <1>4 DEF UI_HandleInputs, Select, Down, Up, Scroll, WillSelect
  <2>2. QED
    BY <1>0, <2>1, NoShrink DEF Enter, Idle, Stop
<1>5. CASE ConfigStep \/ MenuStep
  <2>1. PICK at \in {"npll", "npllRead", "gumboot", "gumbootRead", "add", "delpart", "bootNow",
                     "count", "fire", "store"} : At(at)
    BY <1>5 DEF ConfigStep, MenuStep, OpenNpll, ReadNpll, OpenGumboot, ReadGumboot, AddPart, DelPart,
                BootNow, Count, Fire, Store
  <2>2. QED
    BY <1>1, <2>1 DEF FrameOK, PlaceOK
<1>6. CASE BootStep \/ BlockStep
  <2>1. PICK at \in {"resolve", "open", "load", "partition", "unmount"} : At(at)
    BY <1>6 DEF BootStep, BlockStep, Resolve, OpenFile, LoadAux, LoadExec, StartChannel, ProbePartition,
                UnmountPartition, RemoveDevice
  <2>2. QED
    BY <1>1, <2>1 DEF FrameOK, PlaceOK
<1>7. CASE MountStart
  BY <1>7 DEF MountStart
<1>8. CASE NothingMounted
  BY <1>8 DEF NothingMounted, Stop
<1>9. ASSUME Next
      PROVE  KeptAlone
  BY <1>9 DEF Next
<1>10. CASE MountEnd /\ Next
  <2>1. At("mounting") /\ (mounted' = mounted \/ (mounted' = Top.part /\ AfterMount))
    BY <1>10 DEF MountEnd
  <2>2. TaskKept(Top, devices, mounted, consumed, decider, rootMenu, hook) /\ stack # <<>>
    BY <1>9, <1>10, <2>1, WorkFacts DEF At
  <2>3. mounted = NoPart /\ (Top.task = "restore" => Top.part = Top.old)
    <3>1. Top.pc = "mounting"
      BY <1>1, <2>1
    <3>2. QED
      BY <2>2, <3>1 DEF TaskKept, Mounting, Shooting
  <2>4. ~(Top.task = "shot" /\ AfterMount)
    BY <1>0, <2>2, NoShrink DEF AfterMount, Goto
  <2>5. QED
    BY <2>1, <2>3, <2>4
<1>11. CASE ChooseTarget /\ Next
  <2>1. At("target") /\ mounted' = mounted
    BY <1>11 DEF ChooseTarget
  <2>2. TaskKept(Top, devices, mounted, consumed, decider, rootMenu, hook) /\ Top.task = "shot" /\ Top.pc = "target"
    BY <1>9, <1>11, <2>1, WorkFacts DEF FrameOK, PlaceOK
  <2>3. mounted = Top.old
    BY <2>2 DEF TaskKept, Shooting
  <2>4. QED
    BY <2>1, <2>3
<1>12. CASE SaveScreenshot /\ Next
  <2>1. At("write") /\ ((mounted' = mounted /\ Top.part = Top.old) \/ mounted' = NoPart)
    BY <1>12 DEF SaveScreenshot, FS_Unmount, fsVars
  <2>2. TaskKept(Top, devices, mounted, consumed, decider, rootMenu, hook) /\ Top.task = "shot" /\ Top.pc = "write"
    BY <1>9, <1>12, <2>1, WorkFacts DEF FrameOK, PlaceOK
  <2>3. mounted = Top.part
    BY <2>2 DEF TaskKept, Shooting
  <2>4. QED
    BY <2>1, <2>3
<1>13. QED
  BY <1>2, <1>3, <1>4, <1>5, <1>6, <1>7, <1>8, <1>10, <1>11, <1>12
     DEF Next, Step, FileSystemStep, ScreenshotStep

\* Until two callbacks cross, after a screenshot (video.c) what was mounted
\* before it is mounted again, or, when that failed, nothing is: never the
\* card it was written to.
THEOREM ScreenshotsRestore == Spec => ScreenshotRestores
<1>1. (Kept /\ Moving) /\ (crossed \/ KeptAlone) /\ [Next]_vars => [Restores]_vars
  BY NextRestores
<1>2. QED
  BY <1>1, StorageKept, StorageKeptAlone, PTL DEF Spec, ScreenshotRestores, Restores
=============================================================================

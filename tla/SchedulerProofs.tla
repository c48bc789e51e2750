-------------------------- MODULE SchedulerProofs --------------------------
(***************************************************************************)
(* Proofs about the scheduler (Scheduler), for any number of slots, any     *)
(* sizes of the tables, any quanta and allotments, and any shares.          *)
(***************************************************************************)
EXTENDS Scheduler, TLAPS, WellFoundedInduction, FiniteSetTheorems, SequenceTheorems

-----------------------------------------------------------------------------
(* Least elements.                                                         *)

\* A set of natural numbers that is not empty has a least element.
LEMMA LeastNat ==
    ASSUME NEW T, T \subseteq Nat, T # {}
    PROVE  \E x \in T : \A y \in T : x <= y
<1>1. IsWellFoundedOn(OpToRel(<,Nat), Nat)
  BY NatLessThanWellFounded
<1>2. \E x \in T : \A y \in T : ~ (<<y, x>> \in OpToRel(<,Nat))
  BY <1>1, WFMin, Zenon
<1>3. PICK x \in T : \A y \in T : ~ (<<y, x>> \in OpToRel(<,Nat))
  BY <1>2
<1>4. \A y \in T : ~(y < x)
  BY <1>3 DEF OpToRel
<1>5. x \in Nat /\ \A y \in T : y \in Nat
  BY <1>3
<1>6. \A y \in T : x <= y
  BY <1>4, <1>5, SMT
<1> QED
  BY <1>3, <1>6, Zenon

\* Natural numbers with one more number, which may be negative, have a least one.
LEMMA MinIs ==
    ASSUME NEW T, NEW m \in T, m \in Int, \A y \in T : y = m \/ y \in Nat
    PROVE  Min(T) \in T /\ \A y \in T : Min(T) <= y
<1>1. \E x \in T : \A y \in T : x <= y
  <2>1. CASE m \in Nat
    <3>1. T \subseteq Nat
      BY <2>1
    <3> QED
      BY <3>1, LeastNat
  <2>2. CASE m \notin Nat
    BY <2>2
  <2> QED
    BY <2>1, <2>2
<1> QED
  BY <1>1 DEF Min

-----------------------------------------------------------------------------
(* Removals from a queue or from the stride table.                         *)

\* RemoveAt closes the gap at place i.
LEMMA RemoveAtIs ==
    ASSUME NEW S, NEW s \in Seq(S), NEW i \in 1..Len(s)
    PROVE  /\ RemoveAt(s, i) \in Seq(S)
           /\ Len(RemoveAt(s, i)) = Len(s) - 1
           /\ \A n \in 1..(Len(s) - 1) :
                 RemoveAt(s, i)[n] = IF n < i THEN s[n] ELSE s[n + 1]
<1> DEFINE a == SubSeq(s, 1, i - 1)
           b == SubSeq(s, i + 1, Len(s))
<1>0. Len(s) \in Nat /\ i \in Nat /\ 1 <= i /\ i <= Len(s)
  BY LenProperties
<1>1. a \in Seq(S) /\ Len(a) = i - 1 /\ \A n \in 1..(i - 1) : a[n] = s[n]
  BY <1>0, SubSeqProperties
<1>2. b \in Seq(S) /\ Len(b) = Len(s) - i /\ \A n \in 1..(Len(s) - i) : b[n] = s[i + n]
  BY <1>0, SubSeqProperties
<1>3. /\ a \o b \in Seq(S)
      /\ Len(a \o b) = Len(a) + Len(b)
      /\ \A n \in 1..(Len(a) + Len(b)) :
            (a \o b)[n] = IF n <= Len(a) THEN a[n] ELSE b[n - Len(a)]
  BY <1>1, <1>2, ConcatProperties
<1>4. RemoveAt(s, i) = a \o b
  BY DEF RemoveAt
<1> HIDE DEF a, b
<1>5. ASSUME NEW n \in 1..(Len(s) - 1)
      PROVE  (a \o b)[n] = IF n < i THEN s[n] ELSE s[n + 1]
  <2>1. CASE n < i
    BY <1>0, <1>1, <1>2, <1>3, <2>1
  <2>2. CASE ~(n < i)
    <3>1. (a \o b)[n] = b[n - (i - 1)] /\ n - (i - 1) \in 1..(Len(s) - i)
      BY <1>0, <1>1, <1>2, <1>3, <2>2
    <3>2. b[n - (i - 1)] = s[i + (n - (i - 1))] /\ i + (n - (i - 1)) = n + 1
      BY <3>1, <1>0, <1>2
    <3> QED
      BY <3>1, <3>2, <2>2
  <2> QED
    BY <2>1, <2>2
<1>6. Len(a \o b) = Len(s) - 1
  BY <1>0, <1>1, <1>2, <1>3
<1> QED
  BY <1>3, <1>4, <1>5, <1>6, Zenon

\* RemoveFirst takes the first entry of e away, if there is one.
LEMMA RemoveFirstIs ==
    ASSUME NEW S, NEW s \in Seq(S), NEW e
    PROVE  \/ /\ e \notin Range(s) /\ RemoveFirst(s, e) = s
           \/ \E i \in 1..Len(s) : s[i] = e /\ RemoveFirst(s, e) = RemoveAt(s, i)
<1>0. DOMAIN s = 1..Len(s) /\ Len(s) \in Nat
  BY LenProperties
<1>1. CASE \E i \in 1..Len(s) : s[i] = e
  <2> DEFINE T == {i \in 1..Len(s) : s[i] = e}
  <2>1. Min(T) \in T
    <3>1. T # {} /\ T \subseteq Nat
      BY <1>0, <1>1
    <3>2. \E x \in T : \A y \in T : x <= y
      BY <3>1, LeastNat
    <3> HIDE DEF T
    <3> QED
      BY <3>2 DEF Min
  <2>2. RemoveFirst(s, e) = RemoveAt(s, Min(T))
    BY <1>1 DEF RemoveFirst, SelectInSeq
  <2> QED
    BY <2>1, <2>2
<1>2. CASE ~ \E i \in 1..Len(s) : s[i] = e
  BY <1>0, <1>2 DEF RemoveFirst, Range
<1> QED
  BY <1>1, <1>2

\* What a removal does to a queue: nobody but e leaves it.
Leaves(s, t, e) ==
    /\ Len(t) <= Len(s)
    /\ Range(t) \subseteq Range(s)
    /\ Range(s) \ {e} \subseteq Range(t)

\* exit and set_cpu_share take at most one entry off a queue, and one of e.
LEMMA RemoveFirstLeaves ==
    ASSUME NEW S, NEW s \in Seq(S), NEW e
    PROVE  RemoveFirst(s, e) \in Seq(S) /\ Leaves(s, RemoveFirst(s, e), e)
<1>0. DOMAIN s = 1..Len(s) /\ Len(s) \in Nat
  BY LenProperties
<1>1. CASE RemoveFirst(s, e) = s
  BY <1>0, <1>1 DEF Leaves
<1>2. CASE \E i \in 1..Len(s) : s[i] = e /\ RemoveFirst(s, e) = RemoveAt(s, i)
  <2>1. PICK i \in 1..Len(s) : s[i] = e /\ RemoveFirst(s, e) = RemoveAt(s, i)
    BY <1>2
  <2>2. PICK t : t = RemoveAt(s, i)
    OBVIOUS
  <2>3. /\ t \in Seq(S)
        /\ Len(t) = Len(s) - 1
        /\ \A n \in 1..(Len(s) - 1) : t[n] = IF n < i THEN s[n] ELSE s[n + 1]
    BY <2>2, RemoveAtIs
  <2>4. DOMAIN t = 1..(Len(s) - 1)
    BY <2>3, LenProperties
  <2>5. ASSUME NEW n \in DOMAIN t PROVE t[n] \in Range(s)
    <3>1. n \in DOMAIN s /\ n + 1 \in DOMAIN s
      BY <1>0, <2>4
    <3> QED
      BY <3>1, <2>3, <2>4 DEF Range
  <2>6. ASSUME NEW k \in DOMAIN s, s[k] # e PROVE s[k] \in Range(t)
    <3>1. CASE k < i
      <4>1. k \in DOMAIN t /\ t[k] = s[k]
        BY <1>0, <2>3, <2>4, <3>1
      <4> QED
        BY <4>1 DEF Range
    <3>2. CASE ~(k < i)
      <4>1. k > i
        BY <2>1, <2>6, <1>0, <3>2
      <4>2. k - 1 \in DOMAIN t /\ t[k - 1] = s[k]
        BY <1>0, <2>3, <2>4, <4>1
      <4> QED
        BY <4>2 DEF Range
    <3> QED
      BY <3>1, <3>2
  <2> QED
    BY <1>0, <2>1, <2>2, <2>3, <2>5, <2>6 DEF Leaves, Range
<1> QED
  BY <1>1, <1>2, RemoveFirstIs

\* A table without double entries loses all of e, keeps its first entry and
\* has no double entries.
LEMMA RemoveFirstOnce ==
    ASSUME NEW S, NEW s \in Seq(S), NEW e, IsInjective(s), s # <<>>, s[1] # e
    PROVE  LET t == RemoveFirst(s, e)
           IN  /\ IsInjective(t)
               /\ t # <<>> /\ t[1] = s[1]
               /\ Range(t) = Range(s) \ {e}
<1> DEFINE t == RemoveFirst(s, e)
<1>0. DOMAIN s = 1..Len(s) /\ Len(s) \in Nat /\ Len(s) > 0
  BY LenProperties, EmptySeq
<1>1. t \in Seq(S) /\ Range(t) \subseteq Range(s) /\ Range(s) \ {e} \subseteq Range(t)
  BY RemoveFirstLeaves DEF Leaves
<1>2. CASE e \notin Range(s) /\ t = s
  BY <1>1, <1>2
<1>3. CASE \E i \in 1..Len(s) : s[i] = e /\ t = RemoveAt(s, i)
  <2>1. PICK i \in 1..Len(s) : s[i] = e /\ t = RemoveAt(s, i)
    BY <1>3
  <2>2. /\ Len(t) = Len(s) - 1
        /\ \A n \in 1..(Len(s) - 1) : t[n] = IF n < i THEN s[n] ELSE s[n + 1]
    BY <2>1, RemoveAtIs
  <2>3. i > 1 /\ DOMAIN t = 1..(Len(s) - 1)
    BY <1>0, <1>1, <2>1, <2>2, LenProperties
  <2> HIDE DEF t
  <2>4. t[1] = s[1] /\ t # <<>>
    BY <1>0, <2>2, <2>3, EmptySeq
  <2>5. ASSUME NEW m \in DOMAIN t, NEW n \in DOMAIN t, t[m] = t[n] PROVE m = n
    <3>1. PICK k, l : /\ k = (IF m < i THEN m ELSE m + 1) /\ l = (IF n < i THEN n ELSE n + 1)
                      /\ k \in DOMAIN s /\ l \in DOMAIN s
      BY <1>0, <2>3
    <3>2. s[k] = s[l]
      BY <3>1, <2>2, <2>3, <2>5
    <3>3. k = l
      BY <3>1, <3>2 DEF IsInjective
    <3> QED
      BY <3>1, <3>3, <1>0, <2>3
  <2>6. ASSUME NEW n \in DOMAIN t PROVE t[n] # e
    <3>1. PICK k : k = (IF n < i THEN n ELSE n + 1) /\ k \in DOMAIN s /\ k # i
      BY <1>0, <2>3
    <3>2. s[k] # s[i] /\ t[n] = s[k]
      BY <3>1, <2>2, <2>3, <1>0 DEF IsInjective
    <3> QED
      BY <3>2, <2>1
  <2>7. e \notin Range(t)
    BY <2>6 DEF Range
  <2>8. IsInjective(t)
    BY <2>5 DEF IsInjective
  <2>9. Range(t) = Range(s) \ {e}
    BY <1>1, <2>7
  <2> QED
    BY <2>4, <2>8, <2>9 DEF t
<1> QED
  BY <1>2, <1>3, RemoveFirstIs

\* The ranks of the members of a finite set of numbers are 1 to its size.
LEMMA Ranks ==
    ASSUME NEW K, NEW m \in Nat, K \subseteq 1..m
    PROVE  /\ Cardinality(K) \in 0..m
           /\ \A k \in K : Cardinality({j \in K : j <= k}) \in 1..Cardinality(K)
           /\ \A k, l \in K : Cardinality({j \in K : j <= k}) = Cardinality({j \in K : j <= l})
                                  => k = l
           /\ \A n \in 1..Cardinality(K) :
                 \E k \in K : Cardinality({j \in K : j <= k}) = n
<1> DEFINE Upto(k) == {j \in K : j <= k}
           N == Cardinality(K)
           r == [k \in K |-> Cardinality(Upto(k))]
<1>1. IsFiniteSet(K) /\ N \in Nat /\ N <= m
  <2>1. IsFiniteSet(1..m) /\ Cardinality(1..m) = m
    BY FS_Interval
  <2> QED
    BY <2>1, FS_Subset, FS_CardinalityType
<1>2. ASSUME NEW k \in K
      PROVE  IsFiniteSet(Upto(k)) /\ Cardinality(Upto(k)) \in 1..N
  <2>1. IsFiniteSet(Upto(k)) /\ Cardinality(Upto(k)) <= N /\ Cardinality(Upto(k)) \in Nat
    BY <1>1, FS_Subset, FS_CardinalityType
  <2>2. k \in Upto(k)
    BY <1>2
  <2>3. Cardinality(Upto(k)) # 0
    BY <2>1, <2>2, FS_EmptySet
  <2> HIDE DEF Upto, N
  <2> QED
    BY <1>1, <2>1, <2>3
<1>3. ASSUME NEW k \in K, NEW l \in K, k < l
      PROVE  Cardinality(Upto(k)) < Cardinality(Upto(l))
  <2>0. k \in Int /\ l \in Int /\ \A j \in K : j \in Int
    OBVIOUS
  <2>1. Upto(k) \subseteq Upto(l) /\ l \in Upto(l) /\ l \notin Upto(k)
    <3>1. \A j \in K : j <= k => j <= l
      BY <1>3, <2>0
    <3>2. l <= l /\ ~(l <= k)
      BY <1>3, <2>0
    <3> QED
      BY <3>1, <3>2, Zenon
  <2>2. IsFiniteSet(Upto(l)) /\ Cardinality(Upto(l)) \in Nat /\ Cardinality(Upto(k)) \in Nat
    BY <1>2, FS_CardinalityType
  <2>3. Upto(k) \subseteq Upto(l) \ {l}
    BY <2>1
  <2>4. /\ IsFiniteSet(Upto(l) \ {l})
        /\ Cardinality(Upto(l) \ {l}) = Cardinality(Upto(l)) - 1
    BY <2>1, <2>2, FS_RemoveElement
  <2>5. Cardinality(Upto(k)) <= Cardinality(Upto(l) \ {l})
    BY <2>3, <2>4, FS_Subset
  <2> HIDE DEF Upto
  <2> QED
    BY <2>2, <2>4, <2>5
<1>4. ASSUME NEW k \in K, NEW l \in K, Cardinality(Upto(k)) = Cardinality(Upto(l))
      PROVE  k = l
  <2>1. k \in Int /\ l \in Int
    OBVIOUS
  <2>2. Cardinality(Upto(k)) \in Int
    BY <1>2
  <2> HIDE DEF Upto
  <2> QED
    BY <1>3, <1>4, <2>1, <2>2
<1>5. r \in Injection(K, 1..N)
  <2>1. r \in [K -> 1..N]
    BY <1>2
  <2>2. \A a, b \in K : r[a] = r[b] => a = b
    BY <1>4
  <2> QED
    BY <2>1, <2>2 DEF Injection, IsInjective
<1>6. r \in Surjection(K, 1..N)
  <2>1. IsFiniteSet(1..N) /\ Cardinality(1..N) = N
    BY <1>1, FS_Interval
  <2> QED
    BY <1>5, <2>1, FS_Injection
<1>7. ASSUME NEW n \in 1..N PROVE \E k \in K : Cardinality(Upto(k)) = n
  BY <1>6 DEF Surjection
<1> QED
  BY <1>1, <1>2, <1>4, <1>7

\* The loop of yield() takes nobody but p off a queue.
LEMMA DequeueAllLeaves ==
    ASSUME NEW S, NEW s \in Seq(S), NEW e
    PROVE  DequeueAll(s, e) \in Seq(S) /\ Leaves(s, DequeueAll(s, e), e)
<1> DEFINE K == {k \in DOMAIN s : RunLength(s, e, k) % 2 = 0}
           N == Cardinality(K)
           Rank(k) == Cardinality({j \in K : j <= k})
           C(n) == CHOOSE k \in K : Rank(k) = n
           t == [n \in 1..N |-> s[C(n)]]
<1>0. DOMAIN s = 1..Len(s) /\ Len(s) \in Nat /\ \A k \in DOMAIN s : s[k] \in S
  BY LenProperties, ElementOfSeq
<1>1. DequeueAll(s, e) = t
  BY DEF DequeueAll
<1>2. K \subseteq 1..Len(s)
  BY <1>0
<1>3. ASSUME NEW k \in DOMAIN s, s[k] # e PROVE k \in K
  <2>1. {j \in 1..k : \A i \in j..k : s[i] = e} = {}
    <3> SUFFICES ASSUME NEW j \in 1..k PROVE \E i \in j..k : s[i] # e
      OBVIOUS
    <3>1. k \in j..k
      BY <1>0
    <3> QED
      BY <3>1, <1>3
  <2>2. RunLength(s, e, k) = 0
    BY <2>1, FS_EmptySet DEF RunLength
  <2> QED
    BY <2>2
<1> HIDE DEF K
<1>4. /\ N \in 0..Len(s)
      /\ \A k \in K : Rank(k) \in 1..N
      /\ \A k, l \in K : Rank(k) = Rank(l) => k = l
      /\ \A n \in 1..N : \E k \in K : Rank(k) = n
  BY <1>0, <1>2, Ranks
<1> HIDE DEF N, Rank
<1>5. \A n \in 1..N : C(n) \in K /\ Rank(C(n)) = n
  BY <1>4
<1>6. \A k \in K : C(Rank(k)) = k
  BY <1>4, <1>5
<1> HIDE DEF C
<1>7. /\ N \in Nat /\ N <= Len(s) /\ t \in [1..N -> S]
  <2>1. ASSUME NEW n \in 1..N PROVE s[C(n)] \in S
    BY <1>0, <1>2, <1>5
  <2>2. N \in Nat /\ N <= Len(s)
    BY <1>0, <1>4
  <2> QED
    BY <2>1, <2>2
<1>8. t \in Seq(S) /\ Len(t) = N
  BY <1>7, IsASeq
<1>9. ASSUME NEW n \in DOMAIN t PROVE t[n] \in Range(s)
  BY <1>0, <1>2, <1>5 DEF Range
<1>10. ASSUME NEW k \in DOMAIN s, s[k] # e PROVE s[k] \in Range(t)
  <2>1. k \in K
    BY <1>3, <1>10
  <2>2. Rank(k) \in 1..N /\ t[Rank(k)] = s[k]
    BY <2>1, <1>4, <1>6
  <2> QED
    BY <2>2 DEF Range
<1>11. Range(t) \subseteq Range(s) /\ Range(s) \ {e} \subseteq Range(t)
  BY <1>9, <1>10 DEF Range
<1> QED
  BY <1>1, <1>7, <1>8, <1>11 DEF Leaves

-----------------------------------------------------------------------------
(* The invariant.                                                          *)

\* The calls of set_cpu_share for which the tables are made: no share of 0,
\* which the next pick would divide by, and no second call.
ProperShares == 0 \notin Shares /\ ~CanRepeat

\* Types, in three parts.
CpuTypes ==
    /\ state \in [Slots -> States]
    /\ from_trap \in [Slots -> BOOLEAN]
    /\ ticks \in 0..(PERIOD_BOOSTING - 1)
    /\ cur \in Entities
    /\ broken \in BOOLEAN
    /\ \A p \in Slots : state[p] = "RUNNING" <=> cur = p

LevelTypes ==
    /\ lev \in [Slots -> Levels \cup {STRIDE_LEV}]
    /\ allot \in [Slots -> Nat]
    /\ queue \in [Levels -> Seq(Slots)]
    /\ \A l \in Levels : Len(queue[l]) <= NPROC

StrideTypes ==
    /\ share \in [Entities -> Int]
    /\ \A p \in Slots : share[p] \in 0..TotalShare
    /\ pass \in [Entities -> Nat]
    /\ min_pass \in Nat
    /\ stable \in Seq(Entities) /\ stable # <<>>
    /\ Len(stable) <= NPROC

CallTypes == call \in [Slots -> {"user", "yield", "share", "alloc", "fork"} \X Nat]

\* p has an entry in some queue.
Queued(p) == \E l \in Levels : p \in Range(queue[l])

\* Where a process is and what is left to it: level l with allotment a.
Placed(p, l, a) ==
    IF share[p] = 0
      THEN /\ l \in Levels
           /\ l # LastLevel => a \in 1..time_allotment[l]
      ELSE l \in {0, STRIDE_LEV} /\ a >= 1

PlaceInv == \A p \in Slots : Live(p) => Placed(p, lev[p], allot[p])

\* A child that allocproc has put into queue 0.
Newborn(c) ==
    /\ share[c] = 0 /\ lev[c] = 0
    /\ allot[c] \in 1..time_allotment[0]
    /\ broken \/ Queued(c)

\* A child between allocproc and the end of fork() is in nobody else's hands,
\* and whoever is about to get a share has none yet.
Forking(p) == call[p][1] \in {"alloc", "fork"}
CallInv ==
    \A p \in Slots :
        /\ call[p][1] # "user" => Live(p)
        /\ call[p][1] = "share" => share[p] = 0 /\ call[p][2] \in Shares
        /\ Forking(p) =>
              /\ call[p][2] \in Slots /\ state[call[p][2]] = "EMBRYO"
              /\ \A q \in Slots \ {p} : Forking(q) => call[q][2] # call[p][2]
        /\ call[p][1] = "fork" => Newborn(call[p][2])

SchedInv ==
    /\ CpuTypes /\ LevelTypes /\ StrideTypes /\ CallTypes
    /\ PlaceInv /\ CallInv
    /\ NoLostProcess /\ StrideTable /\ SharesConserved

\* The parts of a pair.
LEMMA PairParts == \A a, b : <<a, b>>[1] = a /\ <<a, b>>[2] = b
  OBVIOUS

\* The slots are numbers, and none of them is the MLFQ's.
LEMMA SlotNumbers == /\ Slots \subseteq Nat \ {0} /\ 1 \in Slots /\ IsFiniteSet(Slots)
                     /\ NPROC \in Nat \ {0}
<1>1. NPROC \in Nat /\ IsFiniteSet(1..NPROC)
  BY SlotsAreTableSlots, FS_Interval
<1>2. IsFiniteSet(Slots)
  BY <1>1, SlotsAreTableSlots, FS_Subset
<1> QED
  BY <1>1, <1>2, SlotsAreTableSlots

\* The invariant contains the properties.
LEMMA InvImplies == SchedInv => TypeOK /\ NoLostProcess /\ AllotmentLeft
                                /\ StrideTable /\ SharesConserved
<1> SUFFICES ASSUME SchedInv PROVE TypeOK /\ AllotmentLeft
  BY DEF SchedInv
<1>1. TypeOK
  BY DEF SchedInv, CpuTypes, LevelTypes, StrideTypes, TypeOK
<1>2. AllotmentLeft
  BY DEF SchedInv, PlaceInv, Placed, AllotmentLeft
<1> QED
  BY <1>1, <1>2

\* What the points of share of one process are, and those of the others.
PointsBut(p) == {x \in SharePoints : x[1] # p}

PointsAdd ==
    \A p \in Slots :
        /\ Cardinality(PointsBut(p)) \in Nat
        /\ Cardinality(SharePoints)
             = Cardinality(PointsBut(p)) + (IF Live(p) THEN share[p] ELSE 0)

\* The points of all are the points of everybody but p and those of p.
LEMMA PointsSplit == StrideTypes => PointsAdd
<1> SUFFICES ASSUME StrideTypes, NEW p \in Slots
             PROVE  /\ Cardinality(PointsBut(p)) \in Nat
                    /\ Cardinality(SharePoints)
                         = Cardinality(PointsBut(p)) + (IF Live(p) THEN share[p] ELSE 0)
  BY DEF PointsAdd
<1> DEFINE n == IF Live(p) THEN share[p] ELSE 0
           Mine == {p} \X (1..n)
<1>0. n \in 0..TotalShare /\ TotalShare \in Nat
  BY SharesArePossible DEF StrideTypes
<1>1. IsFiniteSet(SharePoints)
  <2>1. IsFiniteSet(1..TotalShare)
    BY <1>0, FS_Interval
  <2>2. IsFiniteSet(Slots \X (1..TotalShare))
    BY <2>1, SlotNumbers, FS_Product
  <2>3. SharePoints \subseteq Slots \X (1..TotalShare)
    BY DEF SharePoints
  <2> QED
    BY <2>2, <2>3, FS_Subset
<1>2. IsFiniteSet(PointsBut(p)) /\ Cardinality(PointsBut(p)) \in Nat
  BY <1>1, FS_Subset, FS_CardinalityType DEF PointsBut
<1>3. IsFiniteSet(Mine) /\ Cardinality(Mine) = n
  <2>1. IsFiniteSet({p}) /\ Cardinality({p}) = 1
    BY FS_Singleton
  <2>2. IsFiniteSet(1..n) /\ Cardinality(1..n) = n
    <3> HIDE DEF n
    <3>1. /\ IsFiniteSet(1..n)
          /\ Cardinality(1..n) = IF 1 > n THEN 0 ELSE n - 1 + 1
      BY <1>0, FS_Interval
    <3> QED
      BY <1>0, <3>1
  <2>3. IsFiniteSet(Mine) /\ Cardinality(Mine) = Cardinality({p}) * Cardinality(1..n)
    BY <2>1, <2>2, FS_Product
  <2> HIDE DEF n, Mine
  <2> QED
    BY <1>0, <2>1, <2>2, <2>3
<1>4. SharePoints = PointsBut(p) \cup Mine
  <2>1. ASSUME NEW x \in SharePoints, x[1] = p PROVE x \in Mine
    <3>1. x \in Slots \X (1..TotalShare) /\ Live(x[1]) /\ x[2] <= share[x[1]]
      BY DEF SharePoints
    <3>2. x = <<x[1], x[2]>> /\ x[2] \in 1..TotalShare
      BY <3>1
    <3>3. x[2] \in 1..n
      BY <3>1, <3>2, <2>1, <1>0
    <3> QED
      BY <3>2, <3>3, <2>1
  <2>2. ASSUME NEW k \in 1..n PROVE <<p, k>> \in SharePoints
    <3>1. k \in 1..TotalShare /\ Live(p) /\ k <= share[p]
      BY <1>0
    <3> QED
      BY <3>1 DEF SharePoints
  <2>3. Mine \subseteq SharePoints
    <3> SUFFICES ASSUME NEW x \in Mine PROVE x \in SharePoints
      OBVIOUS
    <3>1. x = <<p, x[2]>> /\ x[2] \in 1..n
      OBVIOUS
    <3> HIDE DEF n
    <3> QED
      BY <3>1, <2>2, Zenon
  <2>4. PointsBut(p) \subseteq SharePoints
    BY DEF PointsBut
  <2>5. SharePoints \subseteq PointsBut(p) \cup Mine
    BY <2>1 DEF PointsBut
  <2> QED
    BY <2>3, <2>4, <2>5, Zenon
<1>5. PointsBut(p) \cap Mine = {}
  BY DEF PointsBut
<1> HIDE DEF n, Mine
<1>6. Cardinality(PointsBut(p) \cap Mine) = 0
  BY <1>5, FS_EmptySet
<1>7. Cardinality(SharePoints) = Cardinality(PointsBut(p)) + Cardinality(Mine)
                                   - Cardinality(PointsBut(p) \cap Mine)
  BY <1>2, <1>3, <1>4, FS_Union
<1>8. Cardinality(SharePoints) = Cardinality(PointsBut(p)) + n
  BY <1>0, <1>2, <1>3, <1>6, <1>7
<1> QED
  BY <1>2, <1>8 DEF n

\* userinit and the head of scheduler() establish the invariant.
LEMMA InitInv == Init => SchedInv
<1> SUFFICES ASSUME Init PROVE SchedInv
  OBVIOUS
<1> USE SlotNumbers
<1>1. CpuTypes
  <2>1. state \in [Slots -> States] /\ \A p \in Slots : state[p] # "RUNNING" /\ cur # p
    BY DEF Init, States, Nobody
  <2>2. ticks \in 0..(PERIOD_BOOSTING - 1) /\ cur \in Entities
    BY LevelTables DEF Init, Entities, Nobody, Mlfq
  <2>3. from_trap \in [Slots -> BOOLEAN] /\ broken \in BOOLEAN
    BY DEF Init
  <2> QED
    BY <2>1, <2>2, <2>3 DEF CpuTypes
<1>2. LevelTypes
  <2>1. \A l \in Levels : queue[l] \in Seq(Slots) /\ Len(queue[l]) <= NPROC
    <3>1. <<1>> \in Seq(Slots) /\ Len(<<1>>) = 1 /\ <<>> \in Seq(Slots) /\ Len(<<>>) = 0
      OBVIOUS
    <3> QED
      BY <3>1 DEF Init
  <2>2. queue \in [Levels -> Seq(Slots)]
    BY <2>1 DEF Init
  <2>3. allot \in [Slots -> Nat]
    BY LevelTables DEF Init
  <2> QED
    BY <2>1, <2>2, <2>3 DEF Init, LevelTypes, Levels
<1>3. StrideTypes
  BY SharesArePossible DEF Init, StrideTypes, Entities, Mlfq
<1>4. CallTypes /\ CallInv
  <2>1. \A p \in Slots : call[p] = <<"user", 0>>
    BY DEF Init, InUser
  <2>2. CallTypes
    BY DEF Init, InUser, CallTypes
  <2>3. \A p \in Slots : call[p][1] = "user"
    BY <2>1, PairParts, Zenon
  <2> QED
    BY <2>2, <2>3 DEF CallInv, Forking
<1>5. PlaceInv /\ NoLostProcess
  <2> SUFFICES ASSUME NEW p \in Slots, Live(p)
               PROVE  Placed(p, lev[p], allot[p]) /\ \E l \in Levels : p \in Range(queue[l])
    BY DEF PlaceInv, NoLostProcess
  <2>1. p = 1 /\ lev[p] = 0 /\ allot[p] = time_allotment[0] /\ share[p] = 0 /\ queue[0] = <<1>>
    BY DEF Init, Live, Entities, Mlfq, Levels
  <2>2. 1 \in Range(<<1>>) /\ 0 \in Levels
    BY DEF Range, Levels
  <2>3. Placed(p, lev[p], allot[p])
    BY <2>1, LevelTables DEF Placed, Levels, LastLevel
  <2> QED
    BY <2>1, <2>2, <2>3
<1>6. StrideTable
  BY DEF Init, StrideTable, IsInjective, Range, Live, Entities, Mlfq
<1>7. SharesConserved
  <2>1. SharePoints = {}
    <3> SUFFICES ASSUME NEW x \in Slots \X (1..TotalShare) PROVE ~(x[2] <= share[x[1]])
      BY DEF SharePoints
    <3>1. share[x[1]] = 0 /\ x[2] \in 1..TotalShare
      BY DEF Init, Entities, Mlfq
    <3> QED
      BY <3>1, SharesArePossible
  <2>2. Cardinality(SharePoints) = 0
    BY <2>1, FS_EmptySet
  <2> QED
    BY <2>2, SharesArePossible DEF SharesConserved, Init, Entities
<1> QED
  BY <1>1, <1>2, <1>3, <1>4, <1>5, <1>6, <1>7 DEF SchedInv

-----------------------------------------------------------------------------
(* Steps that leave the tables alone.                                      *)

\* Nobody is born and nobody dies.
SameLive == \A p \in Slots : Live(p)' <=> Live(p)

\* What the shares, the stride table and the live processes decide.
LEMMA StrideKept ==
    ASSUME SchedInv, SameLive, UNCHANGED <<share, stable>>
    PROVE  StrideTable' /\ SharesConserved'
<1>1. {p \in Slots : Live(p) /\ share[p] # 0}' = {p \in Slots : Live(p) /\ share[p] # 0}
  BY DEF SameLive
<1>2. StrideTable'
  BY <1>1 DEF SchedInv, StrideTable
<1>3. SharePoints' = SharePoints
  BY DEF SharePoints, SameLive
<1> QED
  BY <1>2, <1>3 DEF SchedInv, SharesConserved

\* A step that changes no table and leaves the same processes live keeps what
\* the invariant says of the queues and of the stride table.
LEMMA TablesKept ==
    ASSUME SchedInv, SameLive, UNCHANGED <<lev, allot, share, queue, stable>>
    PROVE  LevelTypes' /\ PlaceInv' /\ NoLostProcess' /\ StrideTable' /\ SharesConserved'
<1>1. LevelTypes'
  BY DEF SchedInv, LevelTypes
<1>2. PlaceInv'
  BY DEF SchedInv, PlaceInv, Placed, SameLive
<1>3. NoLostProcess'
  BY DEF SchedInv, NoLostProcess, SameLive
<1> QED
  BY <1>1, <1>2, <1>3, StrideKept

\* ... and of which only the processor and the calls have to be looked at.
LEMMA QuietInv ==
    ASSUME SchedInv, SameLive, UNCHANGED <<lev, allot, strideVars, queue>>,
           CpuTypes', CallTypes', CallInv'
    PROVE  SchedInv'
<1>1. StrideTypes'
  BY DEF SchedInv, StrideTypes, strideVars
<1>2. UNCHANGED <<lev, allot, share, queue, stable>>
  BY DEF strideVars
<1> QED
  BY <1>1, <1>2, TablesKept DEF SchedInv

\* The calls of a step that neither makes nor ends one, and keeps the children
\* of forks.
LEMMA CallsKept ==
    ASSUME SchedInv, SameLive, UNCHANGED <<lev, allot, share, queue, call>>,
           broken => broken',
           \A c \in Slots : state[c] = "EMBRYO" => state'[c] = "EMBRYO"
    PROVE  CallTypes' /\ CallInv'
<1>1. CallTypes'
  BY DEF SchedInv, CallTypes
<1>2. ASSUME NEW c, Newborn(c) PROVE Newborn(c)'
  BY <1>2 DEF Newborn, Queued
<1>3. CallInv'
  BY <1>2 DEF SchedInv, CallInv, Forking, SameLive
<1> QED
  BY <1>1, <1>3

\* sys_yield
LEMMA SysYieldInv ==
    ASSUME SchedInv, NEW p \in Slots, SysYield(p) PROVE SchedInv'
<1>1. SameLive /\ UNCHANGED <<lev, allot, strideVars, queue>>
  BY DEF SysYield, SameLive, Live
<1>2. CpuTypes'
  BY DEF SysYield, SchedInv, CpuTypes
<1>3. CallTypes'
  BY DEF SysYield, SchedInv, CallTypes
<1>4. \A q \in Slots : call'[q] = IF q = p THEN <<"yield", 0>> ELSE call[q]
  BY DEF SysYield, SchedInv, CallTypes
<1>5. Live(p)
  BY DEF SysYield, SchedInv, CpuTypes, Live
<1>6. \A c : Newborn(c)' <=> Newborn(c)
  BY DEF SysYield, Newborn, Queued, strideVars
<1>7. CallInv'
  BY <1>1, <1>4, <1>5, <1>6 DEF SysYield, SchedInv, CallInv, Forking, SameLive, strideVars
<1> QED
  BY <1>1, <1>2, <1>3, <1>7, QuietInv

\* set_cpu_share, the test
LEMMA SetCpuShareCheckInv ==
    ASSUME ProperShares, SchedInv, NEW p \in Slots, NEW s \in Shares, SetCpuShareCheck(p, s)
    PROVE  SchedInv'
<1>1. SameLive /\ UNCHANGED <<lev, allot, strideVars, queue>>
  BY DEF SetCpuShareCheck, SameLive, Live
<1>2. CpuTypes'
  BY DEF SetCpuShareCheck, SchedInv, CpuTypes
<1>3. CallTypes'
  BY SharesArePossible DEF SetCpuShareCheck, SchedInv, CallTypes
<1>4. \A q \in Slots : call'[q] = IF q = p THEN <<"share", s>> ELSE call[q]
  BY DEF SetCpuShareCheck, SchedInv, CallTypes
<1>5. Live(p) /\ share[p] = 0
  BY DEF SetCpuShareCheck, SchedInv, CpuTypes, Live, ProperShares
<1>6. \A c : Newborn(c)' <=> Newborn(c)
  BY DEF SetCpuShareCheck, Newborn, Queued, strideVars
<1>7. CallInv'
  BY <1>1, <1>4, <1>5, <1>6 DEF SetCpuShareCheck, SchedInv, CallInv, Forking, SameLive, strideVars
<1> QED
  BY <1>1, <1>2, <1>3, <1>7, QuietInv

\* allocproc, the first section
LEMMA AllocProcInv ==
    ASSUME SchedInv, NEW p \in Slots, AllocProc(p) PROVE SchedInv'
<1>0. PICK c \in Slots :
         /\ state[c] = "UNUSED"
         /\ state' = [state EXCEPT ![c] = "EMBRYO"]
         /\ call' = [call EXCEPT ![p] = <<"alloc", c>>, ![c] = InUser]
  BY DEF AllocProc
<1>1. /\ p # c /\ Live(p) /\ call[p][1] = "user"
  BY <1>0 DEF AllocProc, SchedInv, CpuTypes, Live, InUser
<1>2. SameLive /\ UNCHANGED <<lev, allot, strideVars, queue>>
  BY <1>0 DEF AllocProc, SameLive, Live, SchedInv, CpuTypes
<1>3. CpuTypes'
  BY <1>0 DEF AllocProc, SchedInv, CpuTypes, States
<1>4. CallTypes'
  BY <1>0, SlotNumbers DEF SchedInv, CallTypes, InUser
<1>5. \A q \in Slots : call'[q] = IF q = p THEN <<"alloc", c>>
                                  ELSE IF q = c THEN <<"user", 0>> ELSE call[q]
  BY <1>0, <1>1 DEF SchedInv, CallTypes, InUser
<1>6. \A q \in Slots : Forking(q) => call[q][2] # c
  BY <1>0 DEF SchedInv, CallInv
<1>7. \A q : Newborn(q)' <=> Newborn(q)
  BY <1>2 DEF AllocProc, Newborn, Queued, strideVars
<1>8. ASSUME NEW q \in Slots
      PROVE  /\ call'[q][1] # "user" => Live(q)'
             /\ call'[q][1] = "share" => share'[q] = 0 /\ call'[q][2] \in Shares
             /\ call'[q][1] = "fork" => Newborn(call[q][2])'
  BY <1>1, <1>2, <1>5, <1>7 DEF SchedInv, CallInv, SameLive, strideVars
<1>9. ASSUME NEW q \in Slots, Forking(q)'
      PROVE  /\ call'[q][2] \in Slots /\ state'[call'[q][2]] = "EMBRYO"
             /\ \A r \in Slots \ {q} : Forking(r)' => call'[r][2] # call'[q][2]
  <2>1. CASE q = p
    <3>0. call'[q] = <<"alloc", c>>
      BY <1>5, <2>1
    <3>1. call'[q][2] = c /\ state'[c] = "EMBRYO"
      <4>1. call'[q][2] = c
        BY <3>0, PairParts
      <4>2. state'[c] = "EMBRYO"
        BY <1>0 DEF SchedInv, CpuTypes
      <4> QED
        BY <4>1, <4>2
    <3>2. ASSUME NEW r \in Slots \ {q}, Forking(r)' PROVE Forking(r) /\ call'[r][2] = call[r][2]
      BY <1>5, <2>1, <3>2 DEF Forking
    <3> QED
      BY <3>1, <3>2, <1>6
  <2>2. CASE q # p
    <3>1. Forking(q) /\ call'[q] = call[q] /\ q # c
      BY <1>5, <1>9, <2>2 DEF Forking
    <3>2. ASSUME NEW r \in Slots \ {q}, Forking(r)' PROVE call'[r][2] # call'[q][2]
      <4>1. CASE r = p
        BY <4>1, <1>5, <1>6, <3>1
      <4>2. CASE r # p
        <5>1. Forking(r) /\ call'[r] = call[r]
          BY <1>5, <3>2, <4>2 DEF Forking
        <5> QED
          BY <5>1, <3>1 DEF SchedInv, CallInv
      <4> QED
        BY <4>1, <4>2
    <3>3. call[q][2] \in Slots /\ state'[call[q][2]] = "EMBRYO"
      BY <1>0, <3>1 DEF SchedInv, CallInv, CpuTypes
    <3> QED
      BY <3>1, <3>2, <3>3
  <2> QED
    BY <2>1, <2>2
<1>10. CallInv'
  BY <1>8, <1>9 DEF CallInv
<1> QED
  BY <1>2, <1>3, <1>4, <1>10, QuietInv

\* Calls go on or end, and those that go on keep what they rely on.
LEMMA CallsEnd ==
    ASSUME SchedInv, CallTypes',
           \A q \in Slots : call'[q] = call[q] \/ call'[q][1] = "user",
           \A q \in Slots : call'[q][1] # "user" /\ Live(q) => Live(q)',
           \A q \in Slots : call'[q][1] = "share" /\ share[q] = 0 => share'[q] = 0,
           \A q \in Slots : call'[q] = call[q] /\ Forking(q) => state'[call[q][2]] = "EMBRYO",
           \A q \in Slots : call'[q] = call[q] /\ call[q][1] = "fork" /\ Newborn(call[q][2])
                               => Newborn(call[q][2])'
    PROVE  CallInv'
<1>1. ASSUME NEW q \in Slots
      PROVE  /\ call'[q][1] # "user" => Live(q)'
             /\ call'[q][1] = "share" => share'[q] = 0 /\ call'[q][2] \in Shares
             /\ call'[q][1] = "fork" => Newborn(call[q][2])'
  BY DEF SchedInv, CallInv
<1>2. ASSUME NEW q \in Slots, Forking(q)'
      PROVE  /\ call'[q][2] \in Slots /\ state'[call'[q][2]] = "EMBRYO"
             /\ \A r \in Slots \ {q} : Forking(r)' => call'[r][2] # call'[q][2]
  <2>1. Forking(q) /\ call'[q] = call[q]
    BY <1>2 DEF Forking
  <2>2. ASSUME NEW r \in Slots \ {q}, Forking(r)' PROVE call'[r][2] # call'[q][2]
    <3>1. Forking(r) /\ call'[r] = call[r]
      BY <2>2 DEF Forking
    <3> QED
      BY <2>1, <3>1 DEF SchedInv, CallInv
  <2> QED
    BY <2>1, <2>2 DEF SchedInv, CallInv
<1> QED
  BY <1>1, <1>2 DEF CallInv

\* The calls when p comes back to user mode.
LEMMA BackInUser ==
    ASSUME SchedInv, NEW p \in Slots, call' = [call EXCEPT ![p] = InUser]
    PROVE  /\ CallTypes'
           /\ call'[p][1] = "user"
           /\ \A q \in Slots \ {p} : call'[q] = call[q]
  BY DEF SchedInv, CallTypes, InUser

\* allocproc without memory
LEMMA AllocFailInv ==
    ASSUME SchedInv, NEW p \in Slots, AllocFail(p) PROVE SchedInv'
<1>0. PICK c \in Slots : c = call[p][2] /\ state[c] = "EMBRYO" /\ Forking(p)
  BY DEF AllocFail, SchedInv, CallInv, Forking
<1>1. state' = [state EXCEPT ![c] = "UNUSED"]
  BY <1>0 DEF AllocFail
<1>2. SameLive /\ UNCHANGED <<lev, allot, strideVars, queue>>
  BY <1>0, <1>1 DEF AllocFail, SameLive, Live, SchedInv, CpuTypes
<1>3. CpuTypes'
  BY <1>0, <1>1 DEF AllocFail, SchedInv, CpuTypes, States
<1>4. /\ CallTypes' /\ call'[p][1] = "user"
      /\ \A q \in Slots \ {p} : call'[q] = call[q]
  BY BackInUser DEF AllocFail
<1>5. \A q \in Slots \ {p} : Forking(q) => state'[call[q][2]] = "EMBRYO"
  BY <1>0, <1>1 DEF SchedInv, CallInv, CpuTypes
<1>6. ASSUME NEW q \in Slots, call'[q] = call[q], Newborn(call[q][2])
      PROVE  Newborn(call[q][2])'
  BY <1>2, <1>6 DEF AllocFail, Newborn, Queued, strideVars
<1>7. \A q \in Slots : call'[q] = call[q] /\ Forking(q) => q # p
  BY <1>4 DEF Forking
<1>8. \A q \in Slots : Live(q)' <=> Live(q)
  BY <1>2 DEF SameLive
<1>9. CallInv'
  BY <1>2, <1>4, <1>5, <1>6, <1>7, <1>8, CallsEnd DEF strideVars
<1> QED
  BY <1>2, <1>3, <1>4, <1>9, QuietInv

\* sleep
LEMMA SleepInv ==
    ASSUME SchedInv, NEW p \in Slots, Sleep(p) PROVE SchedInv'
<1>1. SameLive /\ UNCHANGED <<lev, allot, strideVars, queue>>
  BY DEF Sleep, SameLive, Live, SchedInv, CpuTypes
<1>2. CpuTypes'
  <2>1. \A q \in Slots : q # Nobody /\ (state[q] = "RUNNING" <=> q = p)
    BY SlotNumbers DEF Sleep, SchedInv, CpuTypes, Nobody
  <2>2. state' \in [Slots -> States] /\ \A q \in Slots : state'[q] # "RUNNING"
    BY <2>1 DEF Sleep, SchedInv, CpuTypes, States
  <2>3. cur' = Nobody /\ Nobody \in Entities
    BY DEF Sleep, Nobody, Entities, Mlfq
  <2> QED
    BY <2>1, <2>2, <2>3 DEF Sleep, SchedInv, CpuTypes
<1>3. CallTypes' /\ CallInv'
  BY <1>1, CallsKept DEF Sleep, SchedInv, CpuTypes, strideVars
<1> QED
  BY <1>1, <1>2, <1>3, QuietInv

\* wakeup1 and kill
LEMMA WakeupInv ==
    ASSUME SchedInv, NEW p \in Slots, Wakeup(p) PROVE SchedInv'
<1>1. SameLive /\ UNCHANGED <<lev, allot, strideVars, queue>>
  BY DEF Wakeup, SameLive, Live, SchedInv, CpuTypes
<1>2. CpuTypes'
  BY DEF Wakeup, SchedInv, CpuTypes, States
<1>3. CallTypes' /\ CallInv'
  BY <1>1, CallsKept DEF Wakeup, SchedInv, CpuTypes, strideVars
<1> QED
  BY <1>1, <1>2, <1>3, QuietInv

\* wait
LEMMA WaitInv ==
    ASSUME SchedInv, NEW p \in Slots, NEW z \in Slots, Wait(p, z) PROVE SchedInv'
<1>1. SameLive /\ UNCHANGED <<lev, allot, strideVars, queue>>
  BY DEF Wait, SameLive, Live, SchedInv, CpuTypes
<1>2. CpuTypes'
  BY DEF Wait, SchedInv, CpuTypes, States
<1>3. CallTypes' /\ CallInv'
  BY <1>1, CallsKept DEF Wait, SchedInv, CpuTypes, strideVars
<1> QED
  BY <1>1, <1>2, <1>3, QuietInv

-----------------------------------------------------------------------------
(* scheduler().                                                            *)

\* The search for the smallest pass ends at an entry of the stride table.
LEMMA MinIndexIn ==
    ASSUME SchedInv
    PROVE  /\ MinIndex \in Eligible /\ MinIndex \in DOMAIN stable
           /\ \A j \in Eligible : pass[stable[MinIndex]] <= pass[stable[j]]
<1>0. /\ DOMAIN stable = 1..Len(stable) /\ Len(stable) \in Nat /\ 1 \in DOMAIN stable
      /\ \A i \in DOMAIN stable : stable[i] \in Entities /\ pass[stable[i]] \in Nat
  BY LenProperties, ElementOfSeq, EmptySeq DEF SchedInv, StrideTypes
<1>1. 1 \in Eligible /\ Eligible \subseteq DOMAIN stable
  BY <1>0 DEF Eligible
<1> DEFINE P == {pass[stable[i]] : i \in Eligible}
<1>2. PICK m \in P : \A y \in P : m <= y
  <2>1. P \subseteq Nat /\ P # {}
    BY <1>0, <1>1
  <2> HIDE DEF P
  <2> QED
    BY <2>1, LeastNat
<1> DEFINE J == {i \in Eligible : pass[stable[i]] = m}
<1>3. PICK i \in J : \A y \in J : i <= y
  <2>1. J \subseteq Nat /\ J # {}
    BY <1>0, <1>1, <1>2
  <2> HIDE DEF J
  <2> QED
    BY <2>1, LeastNat
<1>4. \A j \in Eligible :
         pass[stable[i]] < pass[stable[j]] \/ (pass[stable[i]] = pass[stable[j]] /\ i <= j)
  <2> SUFFICES ASSUME NEW j \in Eligible
               PROVE  pass[stable[i]] < pass[stable[j]]
                      \/ (pass[stable[i]] = pass[stable[j]] /\ i <= j)
    OBVIOUS
  <2>1. pass[stable[i]] = m /\ m <= pass[stable[j]]
    BY <1>2, <1>3
  <2>2. m \in Nat /\ pass[stable[j]] \in Nat
    BY <1>0, <1>1, <2>1
  <2>3. pass[stable[j]] = m => i <= j
    BY <1>3
  <2> QED
    BY <2>1, <2>2, <2>3
<1>5. /\ MinIndex \in Eligible
      /\ \A j \in Eligible :
            \/ pass[stable[MinIndex]] < pass[stable[j]]
            \/ pass[stable[MinIndex]] = pass[stable[j]] /\ MinIndex <= j
  <2>1. i \in Eligible
    BY <1>3
  <2> QED
    BY <1>4, <2>1 DEF MinIndex
<1> QED
  BY <1>0, <1>1, <1>5

\* The search in the queues ends at a slot, or at the MLFQ's own record.
LEMMA MlfqChoiceIn ==
    ASSUME SchedInv PROVE MlfqChoice \in Entities
<1> DEFINE all == queue[0] \o queue[1] \o queue[2]
<1>1. all \in Seq(Slots)
  <2>1. queue[0] \in Seq(Slots) /\ queue[1] \in Seq(Slots) /\ queue[2] \in Seq(Slots)
    BY DEF SchedInv, LevelTypes, Levels
  <2> QED
    BY <2>1, ConcatProperties
<1>2. DOMAIN all = 1..Len(all) /\ Len(all) \in Nat /\ \A i \in DOMAIN all : all[i] \in Slots
  BY <1>1, LenProperties, ElementOfSeq
<1> DEFINE I == {i \in 1..Len(all) : state[all[i]] = "RUNNABLE" /\ share[all[i]] = 0}
           hit == IF I # {} THEN Min(I) ELSE 0
<1>3. MlfqChoice = IF hit # 0 THEN all[hit] ELSE IF all # <<>> THEN Last(all) ELSE Mlfq
  BY DEF MlfqChoice, SelectInSeq
<1>4. hit = 0 \/ hit \in DOMAIN all
  <2>1. CASE I # {}
    <3>1. I \subseteq Nat
      <4> HIDE DEF all
      <4> QED
        BY <1>2
    <3>2. Min(I) \in I
      <4> HIDE DEF I
      <4> QED
        BY <2>1, <3>1, LeastNat DEF Min
    <3> QED
      BY <1>2, <3>2
  <2> QED
    BY <2>1
<1> HIDE DEF hit
<1>5. all # <<>> => Last(all) \in Slots
  <2> HIDE DEF all
  <2> QED
    BY <1>1, <1>2, EmptySeq DEF Last
<1> HIDE DEF all
<1> QED
  BY <1>2, <1>3, <1>4, <1>5 DEF Entities

\* A stride is a number.
LEMMA StrideInt == \A s \in Int \ {0} : Stride(s) \in Int /\ (s > 0 => Stride(s) \in Nat)
<1> SUFFICES ASSUME NEW s \in Int \ {0}
             PROVE  Stride(s) \in Int /\ (s > 0 => Stride(s) \in Nat)
  OBVIOUS
<1>1. \A n \in Nat \ {0} : MULTSTRIDESHARE \div n \in Nat
  BY SharesArePossible
<1>2. CASE s > 0
  BY <1>1, <1>2 DEF Stride
<1>3. CASE ~(s > 0)
  <2>1. -s \in Nat \ {0}
    BY <1>3
  <2>2. MULTSTRIDESHARE \div (-s) \in Nat
    BY <1>1, <2>1
  <2> QED
    BY <1>3, <2>2 DEF Stride
<1> QED
  BY <1>2, <1>3

\* What a round of scheduler() does to the passes: entity e is charged.
Charges(e, ps, b) ==
    /\ ps = [pass EXCEPT ![e] = @ + Stride(share[e])]
    /\ b = Base(ps, ps[e])
    /\ pass' = [x \in Entities |-> IF x \in Range(stable) THEN ps[x] - b ELSE 0]
    /\ min_pass' = ps[e] - b

\* A charge leaves every pass relative to the smallest one, so none is negative.
LEMMA ChargesTyped ==
    ASSUME SchedInv, NEW i \in DOMAIN stable, NEW e, e = stable[i], share[e] # 0,
           NEW ps, NEW b, Charges(e, ps, b)
    PROVE  /\ e \in Entities /\ ps \in [Entities -> Int] /\ b \in Int
           /\ \A x \in Range(stable) : b <= ps[x]
           /\ pass' \in [Entities -> Nat] /\ min_pass' \in Nat
<1>0. \A j \in DOMAIN stable : stable[j] \in Entities
  BY LenProperties, ElementOfSeq DEF SchedInv, StrideTypes
<1>1. /\ e \in Entities /\ pass \in [Entities -> Nat] /\ share[e] \in Int
  BY <1>0 DEF SchedInv, StrideTypes
<1>2. Stride(share[e]) \in Int
  BY <1>1, StrideInt
<1>3. /\ ps \in [Entities -> Int]
      /\ \A x \in Entities : ps[x] = ps[e] \/ ps[x] \in Nat
  <2>1. /\ ps = [pass EXCEPT ![e] = pass[e] + Stride(share[e])]
        /\ pass[e] + Stride(share[e]) \in Int
    BY <1>1, <1>2 DEF Charges
  <2> QED
    BY <1>1, <2>1
<1> DEFINE T == {ps[stable[j]] : j \in DOMAIN stable} \cup {ps[e]}
<1>4. b = Min(T)
  BY DEF Charges, Base
<1>5. ps[e] \in T /\ ps[e] \in Int /\ \A y \in T : y = ps[e] \/ y \in Nat
  <2>1. \A j \in DOMAIN stable : ps[stable[j]] = ps[e] \/ ps[stable[j]] \in Nat
    BY <1>0, <1>3
  <2>2. ps[e] \in Int
    BY <1>1, <1>3
  <2> QED
    BY <2>1, <2>2
<1>6. \A x \in Range(stable) : ps[x] \in T
  BY DEF Range
<1>7. T \subseteq Int
  BY <1>0, <1>1, <1>3
<1> HIDE DEF T
<1>8. b \in T /\ \A y \in T : b <= y
  BY <1>4, <1>5, MinIs
<1>9. b \in Int /\ \A x \in Range(stable) : b <= ps[x] /\ ps[x] - b \in Nat
  <2>1. b \in Int
    BY <1>7, <1>8
  <2>2. ASSUME NEW x \in Range(stable) PROVE b <= ps[x] /\ ps[x] - b \in Nat
    <3>1. ps[x] \in Int /\ b <= ps[x]
      BY <1>6, <1>7, <1>8
    <3> QED
      BY <2>1, <3>1
  <2> QED
    BY <2>1, <2>2
<1>10. ps[e] - b \in Nat
  BY <1>5, <1>7, <1>8
<1>11. pass' \in [Entities -> Nat]
  BY <1>9 DEF Charges
<1> QED
  BY <1>1, <1>3, <1>9, <1>10, <1>11 DEF Charges

\* One round of scheduler(): it fails, or somebody is charged and somebody may run.
LEMMA DispatchCases ==
    ASSUME SchedInv, Dispatch
    PROVE  LET e == stable[MinIndex]
           IN  /\ cur = Nobody /\ ~broken
               /\ UNCHANGED <<lev, allot, share, from_trap, queue, stable, ticks, call>>
               /\ \/ broken' /\ UNCHANGED <<pass, min_pass, state, cur>>
                  \/ /\ share[e] # 0 /\ UNCHANGED broken
                     /\ \E ps, b : Charges(e, ps, b)
                     /\ \E p \in Slots :
                          IF state[p] = "RUNNABLE"
                            THEN state' = [state EXCEPT ![p] = "RUNNING"] /\ cur' = p
                            ELSE UNCHANGED <<state, cur>>
<1> DEFINE e == stable[MinIndex]
           p == IF MinIndex = 1 THEN MlfqChoice ELSE e
           ps == [pass EXCEPT ![e] = @ + Stride(share[e])]
           b == Base(ps, ps[e])
<1>1. p \in Entities
  <2>1. e \in Entities
    BY MinIndexIn, ElementOfSeq, LenProperties DEF SchedInv, StrideTypes
  <2> QED
    BY <2>1, MlfqChoiceIn
<1>2. /\ cur = Nobody /\ ~broken
      /\ UNCHANGED <<lev, allot, share, from_trap, queue, stable, ticks, call>>
  BY DEF Dispatch
<1>3. CASE share[e] = 0 \/ p = Mlfq
  <2>1. broken' = TRUE /\ UNCHANGED <<pass, min_pass, state, cur>>
    BY <1>3 DEF Dispatch
  <2> QED
    BY <1>2, <2>1
<1>4. CASE ~(share[e] = 0 \/ p = Mlfq)
  <2>1. /\ pass' = [x \in Entities |-> IF x \in Range(stable) THEN ps[x] - b ELSE 0]
        /\ min_pass' = ps[e] - b
        /\ IF state[p] = "RUNNABLE"
             THEN state' = [state EXCEPT ![p] = "RUNNING"] /\ cur' = p
             ELSE UNCHANGED <<state, cur>>
        /\ UNCHANGED broken
    BY <1>4 DEF Dispatch
  <2>2. p \in Slots /\ share[e] # 0
    BY <1>1, <1>4 DEF Entities
  <2>3. Charges(e, ps, b)
    BY <2>1 DEF Charges
  <2> HIDE DEF ps, b, p, e
  <2>4. \E ps1, b1 : Charges(e, ps1, b1)
    BY <2>3
  <2> QED
    BY <1>2, <2>1, <2>2, <2>4 DEF e
<1> QED
  BY <1>3, <1>4

\* scheduler() keeps the invariant, even where it finds nobody to run.
LEMMA DispatchInv ==
    ASSUME SchedInv, Dispatch PROVE SchedInv'
<1>0. PICK i \in DOMAIN stable : i = MinIndex
  BY MinIndexIn
<1>1. PICK e : e = stable[i]
  OBVIOUS
<1>2. /\ cur = Nobody /\ ~broken
      /\ UNCHANGED <<lev, allot, share, from_trap, queue, stable, ticks, call>>
  BY DispatchCases
<1>3. CASE broken' /\ UNCHANGED <<pass, min_pass, state, cur>>
  <2>1. SameLive /\ UNCHANGED <<lev, allot, strideVars, queue>>
    BY <1>2, <1>3 DEF SameLive, Live, strideVars
  <2>2. CpuTypes'
    BY <1>2, <1>3 DEF SchedInv, CpuTypes
  <2>3. CallTypes' /\ CallInv'
    BY <1>2, <1>3, <2>1, CallsKept
  <2> QED
    BY <2>1, <2>2, <2>3, QuietInv
<1>4. CASE /\ share[e] # 0 /\ UNCHANGED broken
           /\ \E ps, b : Charges(e, ps, b)
           /\ \E p \in Slots : IF state[p] = "RUNNABLE"
                                 THEN state' = [state EXCEPT ![p] = "RUNNING"] /\ cur' = p
                                 ELSE UNCHANGED <<state, cur>>
  <2>1. pass' \in [Entities -> Nat] /\ min_pass' \in Nat
    BY <1>1, <1>4, ChargesTyped
  <2>2. PICK p \in Slots : IF state[p] = "RUNNABLE"
                             THEN state' = [state EXCEPT ![p] = "RUNNING"] /\ cur' = p
                             ELSE UNCHANGED <<state, cur>>
    BY <1>4
  <2>3. SameLive
    BY <2>2 DEF SameLive, Live, SchedInv, CpuTypes
  <2>4. CpuTypes'
    <3>1. \A q \in Slots : q # Nobody /\ state[q] # "RUNNING"
      BY <1>2, SlotNumbers DEF SchedInv, CpuTypes, Nobody
    <3>2. /\ state' \in [Slots -> States] /\ cur' \in Entities
          /\ \A q \in Slots : state'[q] = "RUNNING" <=> cur' = q
      BY <1>2, <2>2, <3>1 DEF SchedInv, CpuTypes, States, Entities
    <3> QED
      BY <1>2, <1>4, <3>2 DEF SchedInv, CpuTypes
  <2>5. StrideTypes'
    BY <1>2, <2>1 DEF SchedInv, StrideTypes
  <2>6. \A c \in Slots : state[c] = "EMBRYO" => state'[c] = "EMBRYO"
    BY <2>2 DEF SchedInv, CpuTypes
  <2>7. CallTypes' /\ CallInv'
    BY <1>2, <1>4, <2>3, <2>6, CallsKept
  <2> QED
    BY <1>2, <2>3, <2>4, <2>5, <2>7, TablesKept DEF SchedInv
<1> QED
  BY <1>0, <1>1, <1>3, <1>4, DispatchCases

-----------------------------------------------------------------------------
(* yield() and the timer.                                                  *)

\* Who is in a queue with a new last entry.
LEMMA AppendRange ==
    ASSUME NEW S, NEW s \in Seq(S), NEW e \in S
    PROVE  /\ Append(s, e) \in Seq(S) /\ Len(Append(s, e)) = Len(s) + 1
           /\ Range(Append(s, e)) = Range(s) \cup {e}
<1>1. /\ Append(s, e) \in Seq(S) /\ Len(Append(s, e)) = Len(s) + 1
      /\ \A i \in 1..Len(s) : Append(s, e)[i] = s[i]
      /\ Append(s, e)[Len(s) + 1] = e
      /\ Len(s) \in Nat
  BY AppendProperties, LenProperties
<1>2. DOMAIN Append(s, e) = 1..(Len(s) + 1) /\ DOMAIN s = 1..Len(s)
  BY <1>1, LenProperties
<1>3. PICK t : t = Append(s, e)
  OBVIOUS
<1>4. \A i \in DOMAIN t : t[i] \in Range(s) \cup {e}
  <2> SUFFICES ASSUME NEW i \in DOMAIN t, i # Len(s) + 1 PROVE t[i] \in Range(s)
    BY <1>1, <1>3
  <2>1. i \in DOMAIN s /\ t[i] = s[i]
    BY <1>1, <1>2, <1>3
  <2> QED
    BY <2>1 DEF Range
<1>5. \A i \in DOMAIN s : s[i] \in Range(t)
  <2> SUFFICES ASSUME NEW i \in DOMAIN s PROVE s[i] \in Range(t)
    OBVIOUS
  <2>1. i \in DOMAIN t /\ t[i] = s[i]
    BY <1>1, <1>2, <1>3
  <2> QED
    BY <2>1 DEF Range
<1>6. e \in Range(t)
  <2>1. Len(s) + 1 \in DOMAIN t /\ t[Len(s) + 1] = e
    BY <1>1, <1>2, <1>3
  <2> QED
    BY <2>1 DEF Range
<1>7. Range(t) = Range(s) \cup {e}
  BY <1>4, <1>5, <1>6 DEF Range
<1> QED
  BY <1>1, <1>3, <1>7

\* Nobody leaves the queues when p moves from one to another.
LEMMA RequeueKeeps ==
    ASSUME LevelTypes, broken \in BOOLEAN, NEW p \in Slots, NEW from \in Levels,
           NEW to \in Levels, Requeue(p, from, to)
    PROVE  /\ queue' \in [Levels -> Seq(Slots)]
           /\ \A l \in Levels : Len(queue'[l]) <= NPROC
           /\ \A q \in Slots : Queued(q) => Queued(q)'
           /\ broken' \in BOOLEAN /\ (broken => broken')
<1> USE SlotNumbers
<1>1. PICK out : out = [queue EXCEPT ![from] = DequeueAll(@, p)]
  OBVIOUS
<1>2. IF Len(out[to]) < NPROC
        THEN queue' = [out EXCEPT ![to] = Append(@, p)] /\ UNCHANGED broken
        ELSE broken' = TRUE /\ UNCHANGED queue
  BY <1>1 DEF Requeue
<1>3. /\ queue \in [Levels -> Seq(Slots)]
      /\ \A l \in Levels : Len(queue[l]) <= NPROC /\ Len(queue[l]) \in Nat
  BY LenProperties DEF LevelTypes
<1>4. /\ DequeueAll(queue[from], p) \in Seq(Slots)
      /\ Leaves(queue[from], DequeueAll(queue[from], p), p)
  BY <1>3, DequeueAllLeaves
<1>5. /\ out \in [Levels -> Seq(Slots)]
      /\ out[from] = DequeueAll(queue[from], p)
      /\ \A l \in Levels \ {from} : out[l] = queue[l]
  BY <1>1, <1>3, <1>4
<1>6. /\ \A l \in Levels : Len(out[l]) \in Nat /\ Len(out[l]) <= NPROC
      /\ \A l \in Levels : Range(queue[l]) \ {p} \subseteq Range(out[l])
  <2>1. Len(out[from]) \in Nat /\ Len(out[from]) <= Len(queue[from])
    BY <1>4, <1>5, LenProperties DEF Leaves
  <2>2. Len(out[from]) <= NPROC
    BY <1>3, <2>1
  <2>3. Range(queue[from]) \ {p} \subseteq Range(out[from])
    BY <1>4, <1>5 DEF Leaves
  <2> QED
    BY <1>3, <1>5, <2>1, <2>2, <2>3
<1>7. CASE Len(out[to]) < NPROC
  <2>1. queue' = [out EXCEPT ![to] = Append(out[to], p)] /\ UNCHANGED broken
    BY <1>2, <1>7
  <2>2. /\ Append(out[to], p) \in Seq(Slots) /\ Len(Append(out[to], p)) = Len(out[to]) + 1
        /\ Range(Append(out[to], p)) = Range(out[to]) \cup {p}
    BY <1>5, AppendRange
  <2>3. /\ queue' \in [Levels -> Seq(Slots)]
        /\ queue'[to] = Append(out[to], p)
        /\ \A l \in Levels \ {to} : queue'[l] = out[l]
    BY <1>5, <2>1, <2>2
  <2>4. Len(queue'[to]) <= NPROC
    BY <1>6, <1>7, <2>2, <2>3
  <2>5. \A l \in Levels : Len(queue'[l]) <= NPROC
    BY <1>6, <2>3, <2>4
  <2>6. ASSUME NEW q \in Slots, Queued(q) PROVE Queued(q)'
    <3>1. CASE q = p
      BY <2>2, <2>3, <3>1 DEF Queued
    <3>2. CASE q # p
      <4>1. PICK l \in Levels : q \in Range(queue[l])
        BY <2>6 DEF Queued
      <4>2. q \in Range(out[l])
        BY <1>6, <3>2, <4>1
      <4>3. q \in Range(queue'[l])
        BY <2>2, <2>3, <4>2
      <4> QED
        BY <4>3 DEF Queued
    <3> QED
      BY <3>1, <3>2
  <2> QED
    BY <2>1, <2>3, <2>5, <2>6
<1>8. CASE ~(Len(out[to]) < NPROC)
  BY <1>2, <1>3, <1>8 DEF Queued
<1> QED
  BY <1>7, <1>8

\* p->time_allotment-- stays a number as long as something was left.
LEMMA ChargedIs ==
    ASSUME NEW l \in Levels \cup {STRIDE_LEV}, NEW a \in Nat, l # LastLevel => a >= 1
    PROVE  /\ Charged(l, a) \in Nat
           /\ l # LastLevel => Charged(l, a) = a - 1
<1>1. CASE l = LastLevel
  <2>1. PICK q : q = time_quantom[l] /\ q \in Nat \ {0}
    BY LevelTables
  <2>2. a + q - 1 \in Nat
    BY <2>1
  <2>3. (a + q - 1) % q \in Nat
    BY <2>1, <2>2
  <2> QED
    BY <1>1, <2>1, <2>3 DEF Charged
<1>2. CASE l # LastLevel
  BY <1>2 DEF Charged
<1> QED
  BY <1>1, <1>2

\* What yield() relies on: level and allotment of p fit each other, but for an
\* allotment that the timer has just used up.
MayYield(p, l, a, trapped) ==
    IF share[p] = 0
      THEN /\ l \in Levels
           /\ l # LastLevel => a <= time_allotment[l] /\ (~trapped => a >= 1)
      ELSE l \in {0, STRIDE_LEV}

\* yield(): p gets a level and an allotment that fit, and nobody gets lost.
LEMMA YieldKeeps ==
    ASSUME LevelTypes, StrideTypes, broken \in BOOLEAN, NEW p \in Slots,
           NEW lv \in [Slots -> Levels \cup {STRIDE_LEV}], NEW al \in [Slots -> Nat],
           NEW trapped \in BOOLEAN, MayYield(p, lv[p], al[p], trapped),
           Yield(p, lv, al, trapped)
    PROVE  /\ LevelTypes'
           /\ Placed(p, lev'[p], allot'[p])
           /\ \A q \in Slots \ {p} : lev'[q] = lv[q] /\ allot'[q] = al[q]
           /\ \A q \in Slots : Queued(q) => Queued(q)'
           /\ broken' \in BOOLEAN /\ (broken => broken')
<1>0. PICK l, b : l = lv[p] /\ b = al[p]
  OBVIOUS
<1>1. l \in Levels \cup {STRIDE_LEV} /\ b \in Nat /\ MayYield(p, l, b, trapped)
  BY <1>0
<1>2. CASE share[p] = 0
  <2>1. PICK a : a = IF trapped THEN b ELSE Charged(l, b)
    OBVIOUS
  <2>2. PICK now : now = IF Demotes(a, l) THEN l + 1 ELSE l
    OBVIOUS
  <2>3. /\ lev' = [lv EXCEPT ![p] = now]
        /\ allot' = [al EXCEPT ![p] = IF now # l THEN time_allotment[now] ELSE a]
        /\ Requeue(p, l, now)
    BY <1>0, <1>2, <2>1, <2>2 DEF Yield
  <2>4. l \in Levels /\ (l # LastLevel => b <= time_allotment[l] /\ (~trapped => b >= 1))
    BY <1>1, <1>2 DEF MayYield
  <2>5. a \in Nat /\ (l # LastLevel => a <= time_allotment[l])
    <3>1. CASE trapped
      BY <1>1, <2>1, <2>4, <3>1
    <3>2. CASE ~trapped
      <4>1. a = Charged(l, b)
        BY <2>1, <3>2
      <4>2. a \in Nat /\ (l # LastLevel => a = b - 1)
        BY <1>1, <2>4, <3>2, <4>1, ChargedIs
      <4>3. l # LastLevel => time_allotment[l] \in Nat
        BY <2>4, LevelTables DEF Levels, LastLevel
      <4> QED
        BY <1>1, <2>4, <4>2, <4>3
    <3> QED
      BY <3>1, <3>2
  <2>6. now \in Levels /\ (now = l \/ (now = l + 1 /\ l # LastLevel))
    BY <2>2, <2>4 DEF Demotes, Levels, LastLevel
  <2>7. PICK n : n = IF now # l THEN time_allotment[now] ELSE a
    OBVIOUS
  <2>8. n \in Nat /\ (now # LastLevel => n \in 1..time_allotment[now])
    <3>1. CASE now # l
      <4>1. now \in {1, 2} /\ n = time_allotment[now]
        BY <2>4, <2>6, <2>7, <3>1 DEF Levels, LastLevel
      <4>2. time_allotment[1] \in Nat \ {0} /\ time_allotment[2] \in Nat
        BY LevelTables DEF LastLevel
      <4> QED
        BY <4>1, <4>2 DEF LastLevel
    <3>2. CASE now = l
      <4>1. ~Demotes(a, l) /\ n = a
        BY <2>2, <2>4, <2>7, <3>2 DEF Levels
      <4>2. l # LastLevel => a # 0
        BY <4>1 DEF Demotes
      <4>3. l # LastLevel => time_allotment[l] \in Nat
        BY <2>4, LevelTables DEF Levels, LastLevel
      <4> QED
        BY <2>5, <3>2, <4>1, <4>2, <4>3
    <3> QED
      BY <3>1, <3>2
  <2>9. allot' = [al EXCEPT ![p] = n]
    BY <2>3, <2>7
  <2>10. /\ queue' \in [Levels -> Seq(Slots)]
         /\ \A m \in Levels : Len(queue'[m]) <= NPROC
         /\ \A q \in Slots : Queued(q) => Queued(q)'
         /\ broken' \in BOOLEAN /\ (broken => broken')
    BY <2>3, <2>4, <2>6, RequeueKeeps
  <2>11. LevelTypes'
    BY <2>3, <2>6, <2>8, <2>9, <2>10 DEF LevelTypes
  <2>12. Placed(p, lev'[p], allot'[p])
    <3>1. lev'[p] = now /\ allot'[p] = n
      BY <2>3, <2>9
    <3> QED
      BY <1>2, <2>6, <2>8, <3>1 DEF Placed
  <2>13. \A q \in Slots \ {p} : lev'[q] = lv[q] /\ allot'[q] = al[q]
    BY <2>3, <2>9
  <2> QED
    BY <2>10, <2>11, <2>12, <2>13
<1>3. CASE share[p] # 0
  <2>1. /\ lev' = lv /\ allot' = [al EXCEPT ![p] = time_allotment[l]]
        /\ UNCHANGED <<queue, broken>>
    BY <1>0, <1>3 DEF Yield
  <2>2. l \in {0, STRIDE_LEV} /\ time_allotment[l] \in Nat \ {0}
    BY <1>1, <1>3, LevelTables DEF MayYield
  <2>3. LevelTypes'
    BY <2>1, <2>2 DEF LevelTypes
  <2>4. lev'[p] = l /\ allot'[p] = time_allotment[l]
    BY <1>0, <2>1
  <2>5. Placed(p, lev'[p], allot'[p])
    BY <1>3, <2>2, <2>4 DEF Placed
  <2>6. \A q \in Slots : Queued(q) => Queued(q)'
    BY <2>1 DEF Queued
  <2> QED
    BY <2>1, <2>3, <2>5, <2>6
<1> QED
  BY <1>2, <1>3

\* The levels, the allotments and the queues change; everybody keeps a place,
\* and so do the children of forks.
LEMMA LevelsMove ==
    ASSUME SchedInv, SameLive, UNCHANGED strideVars,
           CpuTypes', LevelTypes', CallTypes', broken => broken',
           \A q \in Slots : Live(q) => Placed(q, lev'[q], allot'[q]),
           \A q \in Slots : Queued(q) => Queued(q)',
           \A q \in Slots : state[q] = "EMBRYO" =>
               /\ state'[q] = "EMBRYO"
               /\ lev[q] = 0 /\ allot[q] \in 1..time_allotment[0]
                    => lev'[q] = 0 /\ allot'[q] \in 1..time_allotment[0],
           \A q \in Slots : call'[q] = call[q] \/ call'[q][1] = "user"
    PROVE  SchedInv'
<1>1. StrideTypes' /\ UNCHANGED <<share, stable>>
  BY DEF SchedInv, StrideTypes, strideVars
<1>2. PlaceInv'
  BY <1>1 DEF PlaceInv, Placed, SameLive
<1>3. NoLostProcess'
  BY <1>1 DEF SchedInv, NoLostProcess, Queued, SameLive
<1>4. StrideTable' /\ SharesConserved'
  BY <1>1, StrideKept
<1>5. \A q \in Slots : Live(q)' <=> Live(q)
  BY DEF SameLive
<1>6. \A q \in Slots : call'[q] = call[q] /\ Forking(q) => state'[call[q][2]] = "EMBRYO"
  BY DEF SchedInv, CallInv
<1>7. ASSUME NEW q \in Slots, call'[q] = call[q], call[q][1] = "fork", Newborn(call[q][2])
      PROVE  Newborn(call[q][2])'
  <2>1. PICK c \in Slots : c = call[q][2] /\ state[c] = "EMBRYO" /\ c = call'[q][2]
    BY <1>7 DEF SchedInv, CallInv, Forking
  <2>2. Newborn(c)
    BY <1>7, <2>1
  <2>3. share'[c] = 0 /\ lev'[c] = 0 /\ allot'[c] \in 1..time_allotment[0]
    BY <1>1, <2>1, <2>2 DEF Newborn
  <2>4. broken' \/ Queued(c)'
    BY <2>2 DEF Newborn
  <2>5. Newborn(c)'
    BY <2>3, <2>4 DEF Newborn
  <2> QED
    BY <2>1, <2>5
<1>8. CallInv'
  BY <1>1, <1>5, <1>6, <1>7, CallsEnd
<1> QED
  BY <1>1, <1>2, <1>3, <1>4, <1>8 DEF SchedInv

\* The processor after yield().
LEMMA YieldCpu ==
    ASSUME SchedInv, NEW p \in Slots, cur = p, state' = [state EXCEPT ![p] = "RUNNABLE"],
           cur' = Nobody, from_trap' \in [Slots -> BOOLEAN],
           ticks' \in 0..(PERIOD_BOOSTING - 1), broken' \in BOOLEAN
    PROVE  /\ CpuTypes' /\ SameLive
           /\ \A q \in Slots : state[q] = "EMBRYO" => state'[q] = "EMBRYO"
<1>1. \A q \in Slots : q # Nobody /\ (state[q] = "RUNNING" <=> q = p)
  BY SlotNumbers DEF SchedInv, CpuTypes, Nobody
<1>2. state' \in [Slots -> States] /\ \A q \in Slots : state'[q] # "RUNNING"
  BY <1>1 DEF SchedInv, CpuTypes, States
<1>3. Nobody \in Entities
  BY DEF Nobody, Entities, Mlfq
<1>4. CpuTypes'
  BY <1>1, <1>2, <1>3 DEF CpuTypes
<1>5. SameLive
  BY <1>1 DEF SameLive, Live, SchedInv, CpuTypes
<1> QED
  BY <1>1, <1>4, <1>5 DEF SchedInv, CpuTypes

\* sys_yield, the yield
LEMMA YieldCallInv ==
    ASSUME SchedInv, NEW p \in Slots, YieldCall(p) PROVE SchedInv'
<1>1. /\ cur = p /\ Yield(p, lev, allot, from_trap[p])
      /\ call' = [call EXCEPT ![p] = InUser]
      /\ UNCHANGED <<strideVars, from_trap, ticks>>
  BY DEF YieldCall
<1>2. /\ LevelTypes /\ StrideTypes /\ broken \in BOOLEAN /\ from_trap[p] \in BOOLEAN
      /\ lev \in [Slots -> Levels \cup {STRIDE_LEV}] /\ allot \in [Slots -> Nat]
  BY DEF SchedInv, CpuTypes, LevelTypes
<1>3. Live(p)
  BY <1>1 DEF SchedInv, CpuTypes, Live
<1>4. MayYield(p, lev[p], allot[p], from_trap[p])
  <2>1. Placed(p, lev[p], allot[p])
    BY <1>3 DEF SchedInv, PlaceInv
  <2>2. \A l \in {0, 1} : time_allotment[l] \in Nat
    BY LevelTables
  <2> QED
    BY <2>1, <2>2 DEF Placed, MayYield, Levels, LastLevel
<1>5. /\ LevelTypes' /\ Placed(p, lev'[p], allot'[p])
      /\ \A q \in Slots \ {p} : lev'[q] = lev[q] /\ allot'[q] = allot[q]
      /\ \A q \in Slots : Queued(q) => Queued(q)'
      /\ broken' \in BOOLEAN /\ (broken => broken')
  BY <1>1, <1>2, <1>4, YieldKeeps
<1>6. /\ CpuTypes' /\ SameLive
      /\ \A q \in Slots : state[q] = "EMBRYO" => state'[q] = "EMBRYO"
  <2>1. state' = [state EXCEPT ![p] = "RUNNABLE"] /\ cur' = Nobody
    BY <1>1 DEF Yield
  <2>2. from_trap' \in [Slots -> BOOLEAN] /\ ticks' \in 0..(PERIOD_BOOSTING - 1)
    BY <1>1 DEF SchedInv, CpuTypes
  <2> QED
    BY <1>1, <1>5, <2>1, <2>2, YieldCpu
<1>7. /\ CallTypes' /\ call'[p][1] = "user"
      /\ \A q \in Slots \ {p} : call'[q] = call[q]
  BY <1>1, BackInUser
<1>8. \A q \in Slots : Live(q) => Placed(q, lev'[q], allot'[q])
  BY <1>5 DEF SchedInv, PlaceInv
<1>9. \A q \in Slots : state[q] = "EMBRYO" => q # p
  BY <1>3 DEF Live
<1> QED
  BY <1>1, <1>5, <1>6, <1>7, <1>8, <1>9, LevelsMove

\* The timer interrupt, with boost()
LEMMA TimerTickInv ==
    ASSUME SchedInv, NEW p \in Slots, TimerTick(p) PROVE SchedInv'
<1>1. PICK lv, al : /\ lv = IF ticks' = 0 THEN BoostLevels(lev) ELSE lev
                    /\ al = IF ticks' = 0 THEN BoostAllots(allot) ELSE allot
  OBVIOUS
<1>2. PICK c : c = Charged(lv[p], al[p])
  OBVIOUS
<1>3. PICK a : a = [al EXCEPT ![p] = c]
  OBVIOUS
<1>4. /\ cur = p /\ UNCHANGED <<strideVars, call>>
      /\ ticks' = IF share[p] = 0 THEN (ticks + 1) % PERIOD_BOOSTING ELSE ticks
      /\ IF a[p] % time_quantom[lv[p]] # 0
           THEN /\ lev' = lv /\ allot' = a
                /\ UNCHANGED <<state, from_trap, queue, cur, broken>>
           ELSE /\ from_trap' = [from_trap EXCEPT ![p] = TRUE]
                /\ Yield(p, lv, a, TRUE)
  BY <1>1, <1>2, <1>3 DEF TimerTick
<1>5. ticks' \in 0..(PERIOD_BOOSTING - 1)
  <2>1. PERIOD_BOOSTING \in Nat \ {0} /\ ticks \in 0..(PERIOD_BOOSTING - 1)
    BY LevelTables DEF SchedInv, CpuTypes
  <2>2. (ticks + 1) % PERIOD_BOOSTING \in 0..(PERIOD_BOOSTING - 1)
    BY <2>1
  <2> QED
    BY <1>4, <2>1, <2>2
<1>6. /\ lv \in [Slots -> Levels \cup {STRIDE_LEV}] /\ al \in [Slots -> Nat]
      /\ \A q \in Slots : Live(q) => Placed(q, lv[q], al[q])
      /\ \A q \in Slots : lev[q] = 0 /\ allot[q] \in 1..time_allotment[0]
                            => lv[q] = 0 /\ al[q] \in 1..time_allotment[0]
  <2>1. CASE ticks' = 0
    <3>1. time_allotment[0] \in Nat \ {0}
      BY LevelTables
    <3>2. /\ lv = [q \in Slots |-> 0] /\ al = [q \in Slots |-> time_allotment[0]]
      BY <1>1, <2>1 DEF BoostLevels, BoostAllots
    <3>3. \A q \in Slots : lv[q] = 0 /\ al[q] = time_allotment[0]
      BY <3>2
    <3> QED
      BY <3>1, <3>2, <3>3 DEF Placed, Levels, LastLevel
  <2>2. CASE ticks' # 0
    BY <1>1, <2>2 DEF SchedInv, LevelTypes, PlaceInv
  <2> QED
    BY <2>1, <2>2
<1>7. Live(p) /\ Placed(p, lv[p], al[p])
  BY <1>4, <1>6 DEF SchedInv, CpuTypes, Live
<1>8. /\ lv[p] \in Levels \cup {STRIDE_LEV} /\ al[p] \in Nat
      /\ lv[p] # LastLevel => al[p] >= 1
  <2>1. lv[p] \in Levels \cup {STRIDE_LEV} /\ al[p] \in Nat
    BY <1>6
  <2>2. \A l \in {0, 1} : time_allotment[l] \in Nat
    BY LevelTables
  <2> QED
    BY <1>7, <2>1, <2>2 DEF Placed, Levels, LastLevel
<1>9. c \in Nat /\ (lv[p] # LastLevel => c = al[p] - 1)
  BY <1>2, <1>8, ChargedIs
<1>10. a \in [Slots -> Nat] /\ a[p] = c /\ \A q \in Slots \ {p} : a[q] = al[q]
  BY <1>3, <1>6, <1>9
<1>11. /\ CallTypes' /\ \A q \in Slots : call'[q] = call[q]
       /\ \A q \in Slots : state[q] = "EMBRYO" => q # p
  BY <1>4, <1>7 DEF SchedInv, CallTypes, Live
<1>12. CASE c % time_quantom[lv[p]] # 0
  <2>1. lev' = lv /\ allot' = a /\ UNCHANGED <<state, from_trap, queue, cur, broken>>
    BY <1>4, <1>10, <1>12
  <2>2. c # 0
    <3>1. PICK q : q = time_quantom[lv[p]] /\ q \in Nat \ {0}
      BY <1>8, LevelTables
    <3>2. 0 % q = 0
      BY <3>1
    <3> QED
      BY <1>12, <3>1, <3>2
  <2>3. Placed(p, lv[p], c)
    <3>1. CASE share[p] = 0
      <4>1. lv[p] \in Levels /\ (lv[p] # LastLevel => al[p] \in 1..time_allotment[lv[p]])
        BY <1>7, <3>1 DEF Placed
      <4>2. lv[p] # LastLevel => time_allotment[lv[p]] \in Nat
        BY <4>1, LevelTables DEF Levels, LastLevel
      <4>3. lv[p] # LastLevel => c \in 1..time_allotment[lv[p]]
        BY <1>9, <2>2, <4>1, <4>2
      <4> QED
        BY <3>1, <4>1, <4>3 DEF Placed
    <3>2. CASE share[p] # 0
      BY <1>7, <1>9, <2>2, <3>2 DEF Placed
    <3> QED
      BY <3>1, <3>2
  <2>4. LevelTypes'
    BY <1>6, <1>10, <2>1 DEF SchedInv, LevelTypes
  <2>5. CpuTypes' /\ SameLive
    BY <1>5, <2>1 DEF SchedInv, CpuTypes, SameLive, Live
  <2>6. \A q \in Slots : Live(q) => Placed(q, lev'[q], allot'[q])
    BY <1>6, <1>10, <2>1, <2>3
  <2>7. \A q \in Slots : Queued(q) => Queued(q)'
    BY <2>1 DEF Queued
  <2>8. \A q \in Slots : state[q] = "EMBRYO" =>
            /\ state'[q] = "EMBRYO"
            /\ lev[q] = 0 /\ allot[q] \in 1..time_allotment[0]
                 => lev'[q] = 0 /\ allot'[q] \in 1..time_allotment[0]
    BY <1>6, <1>10, <1>11, <2>1
  <2> QED
    BY <1>4, <1>11, <2>1, <2>4, <2>5, <2>6, <2>7, <2>8, LevelsMove
<1>13. CASE c % time_quantom[lv[p]] = 0
  <2>1. from_trap' = [from_trap EXCEPT ![p] = TRUE] /\ Yield(p, lv, a, TRUE)
    BY <1>4, <1>10, <1>13
  <2>2. MayYield(p, lv[p], a[p], TRUE)
    <3>1. CASE share[p] = 0
      <4>1. lv[p] \in Levels /\ (lv[p] # LastLevel => al[p] \in 1..time_allotment[lv[p]])
        BY <1>7, <3>1 DEF Placed
      <4>2. lv[p] # LastLevel => time_allotment[lv[p]] \in Nat
        BY <4>1, LevelTables DEF Levels, LastLevel
      <4>3. lv[p] # LastLevel => c <= time_allotment[lv[p]]
        BY <1>9, <4>1, <4>2
      <4> QED
        BY <1>10, <3>1, <4>1, <4>3 DEF MayYield
    <3>2. CASE share[p] # 0
      BY <1>7, <3>2 DEF Placed, MayYield
    <3> QED
      BY <3>1, <3>2
  <2>3. LevelTypes /\ StrideTypes /\ broken \in BOOLEAN
    BY DEF SchedInv, CpuTypes
  <2>4. /\ LevelTypes' /\ Placed(p, lev'[p], allot'[p])
        /\ \A q \in Slots \ {p} : lev'[q] = lv[q] /\ allot'[q] = a[q]
        /\ \A q \in Slots : Queued(q) => Queued(q)'
        /\ broken' \in BOOLEAN /\ (broken => broken')
    BY <1>6, <1>10, <2>1, <2>2, <2>3, YieldKeeps
  <2>5. /\ CpuTypes' /\ SameLive
        /\ \A q \in Slots : state[q] = "EMBRYO" => state'[q] = "EMBRYO"
    <3>1. state' = [state EXCEPT ![p] = "RUNNABLE"] /\ cur' = Nobody
      BY <2>1 DEF Yield
    <3>2. from_trap' \in [Slots -> BOOLEAN]
      BY <2>1 DEF SchedInv, CpuTypes
    <3> QED
      BY <1>4, <1>5, <2>4, <3>1, <3>2, YieldCpu
  <2>6. \A q \in Slots : Live(q) => Placed(q, lev'[q], allot'[q])
    BY <1>6, <1>10, <2>4
  <2>7. \A q \in Slots : state[q] = "EMBRYO" =>
            /\ state'[q] = "EMBRYO"
            /\ lev[q] = 0 /\ allot[q] \in 1..time_allotment[0]
                 => lev'[q] = 0 /\ allot'[q] \in 1..time_allotment[0]
    BY <1>6, <1>10, <1>11, <2>4, <2>5
  <2> QED
    BY <1>4, <1>11, <2>4, <2>5, <2>6, <2>7, LevelsMove
<1> QED
  BY <1>12, <1>13

-----------------------------------------------------------------------------
(* Births, shares and deaths: steps that change who counts.                *)

\* The points of share of everybody but p, when the others stay as they are.
LEMMA ButKept ==
    ASSUME NEW p \in Slots,
           \A q \in Slots \ {p} : share'[q] = share[q] /\ (Live(q)' <=> Live(q))
    PROVE  PointsBut(p)' = PointsBut(p)
<1>1. ASSUME NEW x \in Slots \X (1..TotalShare), x[1] # p
      PROVE  x \in SharePoints' <=> x \in SharePoints
  <2>1. x[1] \in Slots \ {p}
    BY <1>1
  <2> QED
    BY <2>1 DEF SharePoints
<1>2. SharePoints \subseteq Slots \X (1..TotalShare) /\ SharePoints' \subseteq Slots \X (1..TotalShare)
  BY DEF SharePoints
<1> QED
  BY <1>1, <1>2 DEF PointsBut

\* The sum of the shares, when only p and the MLFQ change.
LEMMA SharesMove ==
    ASSUME StrideTypes, StrideTypes', SharesConserved, NEW p \in Slots,
           \A q \in Slots \ {p} : share'[q] = share[q] /\ (Live(q)' <=> Live(q)),
           share'[Mlfq] = share[Mlfq] + (IF Live(p) THEN share[p] ELSE 0)
                             - (IF Live(p)' THEN share'[p] ELSE 0)
    PROVE  SharesConserved'
<1>1. PICK n : n = IF Live(p) THEN share[p] ELSE 0
  OBVIOUS
<1>2. PICK m : m = IF Live(p)' THEN share'[p] ELSE 0
  OBVIOUS
<1>3. PointsBut(p)' = PointsBut(p)
  BY ButKept
<1>4. Cardinality(PointsBut(p)) \in Nat /\ Cardinality(SharePoints) = Cardinality(PointsBut(p)) + n
  BY <1>1, PointsSplit DEF PointsAdd
<1>5. PointsAdd'
  BY PointsSplit, PTL
<1>6. Cardinality(SharePoints') = Cardinality(PointsBut(p)') + m
  BY <1>2, <1>5 DEF PointsAdd
<1>7. n \in Int /\ m \in Int /\ share[Mlfq] \in Int /\ share'[Mlfq] \in Int
  BY <1>1, <1>2 DEF StrideTypes, Entities
<1>8. share[Mlfq] + Cardinality(SharePoints) = TotalShare
  BY DEF SharesConserved
<1>9. share'[Mlfq] = share[Mlfq] + n - m
  BY <1>1, <1>2
<1>10. Cardinality(SharePoints') = Cardinality(PointsBut(p)) + m
  BY <1>3, <1>6
<1>11. share'[Mlfq] + Cardinality(SharePoints') = TotalShare
  BY <1>4, <1>7, <1>8, <1>9, <1>10
<1> QED
  BY <1>11 DEF SharesConserved

\* p leaves the queue of level l, the others stay.
LEMMA LeaveQueue ==
    ASSUME LevelTypes, NEW p \in Slots, NEW l \in Levels,
           queue' = [queue EXCEPT ![l] = RemoveFirst(@, p)]
    PROVE  /\ queue' \in [Levels -> Seq(Slots)]
           /\ \A m \in Levels : Len(queue'[m]) <= NPROC
           /\ \A q \in Slots \ {p} : Queued(q) => Queued(q)'
<1>1. /\ queue \in [Levels -> Seq(Slots)]
      /\ \A m \in Levels : Len(queue[m]) <= NPROC /\ Len(queue[m]) \in Nat
  BY LenProperties DEF LevelTypes
<1>2. PICK t : t = RemoveFirst(queue[l], p)
  OBVIOUS
<1>3. t \in Seq(Slots) /\ Leaves(queue[l], t, p) /\ Len(t) \in Nat
  BY <1>1, <1>2, RemoveFirstLeaves, LenProperties
<1>4. queue' = [queue EXCEPT ![l] = t]
  BY <1>2
<1>5. /\ queue' \in [Levels -> Seq(Slots)] /\ queue'[l] = t
      /\ \A m \in Levels \ {l} : queue'[m] = queue[m]
  BY <1>1, <1>3, <1>4
<1>6. Len(t) <= NPROC
  BY <1>1, <1>3, SlotNumbers DEF Leaves
<1>7. ASSUME NEW q \in Slots \ {p}, Queued(q) PROVE Queued(q)'
  <2>1. PICK m \in Levels : q \in Range(queue[m])
    BY <1>7 DEF Queued
  <2>2. q \in Range(queue'[m])
    BY <1>3, <1>5, <2>1 DEF Leaves
  <2> QED
    BY <2>2 DEF Queued
<1> QED
  BY <1>1, <1>5, <1>6, <1>7

\* set_cpu_share, under the lock
LEMMA SetCpuShareApplyInv ==
    ASSUME ProperShares, SchedInv, NEW p \in Slots, SetCpuShareApply(p) PROVE SchedInv'
<1>0. PICK s, l : s = call[p][2] /\ l = lev[p]
  OBVIOUS
<1>1. Live(p) /\ share[p] = 0 /\ s \in Shares /\ l \in Levels /\ l # STRIDE_LEV
  <2>1. Live(p) /\ share[p] = 0 /\ s \in Shares
    BY <1>0 DEF SetCpuShareApply, SchedInv, CallInv
  <2>2. Placed(p, lev[p], allot[p])
    BY <2>1 DEF SchedInv, PlaceInv
  <2> QED
    BY <1>0, <2>1, <2>2 DEF Placed, Levels, STRIDE_LEV
<1>2. s \in 1..TotalShare /\ p # Mlfq
  <2>1. s \in 0..TotalShare /\ s # 0 /\ TotalShare \in Nat
    BY <1>1, SharesArePossible DEF ProperShares
  <2>2. s \in 1..TotalShare
    BY <2>1
  <2> QED
    BY <2>2, SlotNumbers DEF Mlfq
<1>3. /\ call' = [call EXCEPT ![p] = InUser]
      /\ UNCHANGED <<state, min_pass, from_trap, ticks, cur>> /\ ~broken
  BY DEF SetCpuShareApply
<1>4. /\ CallTypes' /\ call'[p][1] = "user"
      /\ \A q \in Slots \ {p} : call'[q] = call[q]
  BY <1>3, BackInUser
<1>5. SameLive /\ (broken' \in BOOLEAN => CpuTypes')
  BY <1>3 DEF SchedInv, CpuTypes, SameLive, Live
<1>6. \A q \in Slots : call'[q] = call[q] /\ Forking(q) => state'[call[q][2]] = "EMBRYO"
  BY <1>3 DEF SchedInv, CallInv
<1>7. \A q \in Slots : Live(q)' <=> Live(q)
  BY <1>5 DEF SameLive
<1>8. CASE Len(stable) = NPROC
  <2>1. broken' = TRUE /\ UNCHANGED <<stable, share, pass, queue, lev, allot>>
    BY <1>8 DEF SetCpuShareApply
  <2>2. UNCHANGED <<lev, allot, strideVars, queue>> /\ CpuTypes'
    BY <1>3, <1>5, <2>1 DEF strideVars
  <2>3. ASSUME NEW q \in Slots, call'[q] = call[q], Newborn(call[q][2])
        PROVE  Newborn(call[q][2])'
    BY <2>1, <2>3 DEF Newborn
  <2>4. CallInv'
    BY <1>4, <1>6, <1>7, <2>1, <2>3, CallsEnd
  <2> QED
    BY <1>4, <1>5, <2>2, <2>4, QuietInv
<1>9. CASE Len(stable) # NPROC
  <2>1. /\ stable' = Append(stable, p)
        /\ share' = [share EXCEPT ![Mlfq] = @ - s, ![p] = s]
        /\ pass' = [pass EXCEPT ![p] = min_pass]
        /\ queue' = [queue EXCEPT ![l] = RemoveFirst(@, p)]
        /\ lev' = [lev EXCEPT ![p] = STRIDE_LEV]
        /\ allot' = [allot EXCEPT ![p] = time_allotment[STRIDE_LEV]]
        /\ UNCHANGED broken
    BY <1>0, <1>1, <1>9 DEF SetCpuShareApply
  <2>2. CpuTypes'
    BY <1>5, <2>1 DEF SchedInv, CpuTypes
  <2>3. /\ queue' \in [Levels -> Seq(Slots)]
        /\ \A m \in Levels : Len(queue'[m]) <= NPROC
        /\ \A q \in Slots \ {p} : Queued(q) => Queued(q)'
    BY <1>1, <2>1, LeaveQueue DEF SchedInv
  <2>4. LevelTypes'
    <3>1. time_allotment[STRIDE_LEV] \in Nat
      BY LevelTables
    <3> QED
      BY <2>1, <2>3, <3>1 DEF SchedInv, LevelTypes
  <2>5. /\ share' \in [Entities -> Int] /\ share'[p] = s
        /\ share'[Mlfq] = share[Mlfq] - s
        /\ \A q \in Slots \ {p} : share'[q] = share[q]
    <3>1. share \in [Entities -> Int] /\ Mlfq \in Entities /\ p \in Entities /\ Mlfq \notin Slots
      BY SlotNumbers DEF SchedInv, StrideTypes, Entities, Mlfq
    <3>2. share[Mlfq] - s \in Int /\ s \in Int
      BY <1>2, <3>1
    <3>3. \A q \in Slots \ {p} : q \in Entities /\ q # Mlfq
      BY <3>1 DEF Entities
    <3> QED
      BY <1>2, <2>1, <3>1, <3>2, <3>3
  <2>6. /\ stable' \in Seq(Entities) /\ Len(stable') = Len(stable) + 1
        /\ Range(stable') = Range(stable) \cup {p}
        /\ \A i \in 1..Len(stable) : stable'[i] = stable[i]
        /\ stable'[Len(stable) + 1] = p /\ Len(stable) \in Nat
    BY <2>1, AppendRange, AppendProperties, LenProperties DEF SchedInv, StrideTypes, Entities
  <2>7. StrideTypes'
    <3>1. stable' # <<>> /\ Len(stable') <= NPROC
      <4>1. Len(stable) <= NPROC
        BY DEF SchedInv, StrideTypes
      <4>2. Len(stable') <= NPROC /\ Len(stable') # 0
        BY <1>9, <2>6, <4>1, SlotNumbers
      <4> QED
        BY <4>2, EmptySeq
    <3>2. \A q \in Slots : share'[q] \in 0..TotalShare
      <4>1. s \in 0..TotalShare
        BY <1>2, SharesArePossible
      <4>2. \A q \in Slots \ {p} : share'[q] \in 0..TotalShare
        BY <2>5 DEF SchedInv, StrideTypes
      <4> QED
        BY <2>5, <4>1, <4>2
    <3>3. pass' \in [Entities -> Nat] /\ min_pass' \in Nat
      BY <1>3, <2>1 DEF SchedInv, StrideTypes
    <3> QED
      BY <2>5, <2>6, <3>1, <3>2, <3>3 DEF StrideTypes
  <2>8. PlaceInv'
    <3>1. lev'[p] = STRIDE_LEV /\ allot'[p] = time_allotment[STRIDE_LEV] /\ share'[p] # 0
      BY <1>2, <2>1, <2>5 DEF SchedInv, LevelTypes
    <3>2. time_allotment[STRIDE_LEV] \in Nat \ {0}
      BY LevelTables
    <3>3. Placed(p, lev[p], allot[p])'
      BY <3>1, <3>2 DEF Placed
    <3>4. \A q \in Slots \ {p} : lev'[q] = lev[q] /\ allot'[q] = allot[q]
      BY <2>1 DEF SchedInv, LevelTypes
    <3>5. \A q \in Slots \ {p} : Live(q) => Placed(q, lev[q], allot[q])'
      BY <2>5, <3>4 DEF SchedInv, PlaceInv, Placed
    <3> QED
      BY <1>7, <3>3, <3>5 DEF PlaceInv
  <2>9. NoLostProcess'
    <3>1. \A q \in Slots \ {p} : Live(q) /\ share[q] = 0 => Queued(q)
      BY DEF SchedInv, NoLostProcess, Queued
    <3>2. \A q \in Slots : Live(q)' /\ share'[q] = 0 => Queued(q)'
      BY <1>2, <1>7, <2>3, <2>5, <3>1
    <3> QED
      BY <3>2 DEF NoLostProcess, Queued
  <2>10. StrideTable'
    <3>1. /\ stable[1] = Mlfq /\ IsInjective(stable) /\ 1 \in 1..Len(stable)
          /\ Range(stable) \ {Mlfq} = {q \in Slots : Live(q) /\ share[q] # 0}
          /\ DOMAIN stable = 1..Len(stable)
      BY LenProperties, EmptySeq DEF SchedInv, StrideTable, StrideTypes
    <3>2. p \notin Range(stable)
      BY <1>1, <1>2, <3>1
    <3>3. \A i \in DOMAIN stable : stable[i] # p
      BY <3>2 DEF Range
    <3>4. DOMAIN stable' = 1..(Len(stable) + 1)
      BY <2>6, LenProperties
    <3>5. IsInjective(stable')
      <4> SUFFICES ASSUME NEW a \in DOMAIN stable', NEW b \in DOMAIN stable',
                          stable'[a] = stable'[b]
                   PROVE  a = b
        BY DEF IsInjective
      <4>1. CASE a \in 1..Len(stable) /\ b \in 1..Len(stable)
        <5>1. stable[a] = stable[b]
          BY <2>6, <4>1
        <5> QED
          BY <3>1, <4>1, <5>1 DEF IsInjective
      <4>2. CASE a = Len(stable) + 1 \/ b = Len(stable) + 1
        BY <2>6, <3>1, <3>3, <3>4, <4>2
      <4> QED
        BY <2>6, <3>4, <4>1, <4>2
    <3>6. stable'[1] = Mlfq
      BY <2>6, <3>1
    <3>7. \A q \in Slots : (Live(q)' /\ share'[q] # 0) <=> ((Live(q) /\ share[q] # 0) \/ q = p)
      BY <1>1, <1>2, <1>7, <2>5
    <3>8. {q \in Slots : Live(q) /\ share[q] # 0}'
            = {q \in Slots : Live(q) /\ share[q] # 0} \cup {p}
      BY <3>7
    <3>9. Range(stable') \ {Mlfq} = (Range(stable) \ {Mlfq}) \cup {p}
      BY <1>2, <2>6
    <3> QED
      BY <3>1, <3>5, <3>6, <3>8, <3>9 DEF StrideTable
  <2>11. SharesConserved'
    <3>1. share'[Mlfq] = share[Mlfq] + (IF Live(p) THEN share[p] ELSE 0)
                             - (IF Live(p)' THEN share'[p] ELSE 0)
      <4>1. share[Mlfq] \in Int
        BY DEF SchedInv, StrideTypes, Entities
      <4> QED
        BY <1>1, <1>2, <1>7, <2>5, <4>1
    <3> QED
      BY <1>7, <2>5, <2>7, <3>1, SharesMove DEF SchedInv
  <2>12. ASSUME NEW q \in Slots, call'[q] = call[q], call[q][1] = "fork", Newborn(call[q][2])
         PROVE  Newborn(call[q][2])'
    <3>1. PICK c \in Slots : c = call[q][2] /\ state[c] = "EMBRYO" /\ c = call'[q][2]
      BY <2>12 DEF SchedInv, CallInv, Forking
    <3>2. c # p
      BY <1>1, <3>1 DEF Live
    <3>3. Newborn(c)
      BY <2>12, <3>1
    <3>4. share'[c] = 0 /\ lev'[c] = 0 /\ allot'[c] \in 1..time_allotment[0]
      BY <2>1, <2>5, <3>2, <3>3 DEF Newborn, SchedInv, LevelTypes
    <3>5. Queued(c)'
      BY <1>3, <2>3, <3>2, <3>3 DEF Newborn
    <3>6. Newborn(c)'
      BY <3>4, <3>5 DEF Newborn
    <3> QED
      BY <3>1, <3>6
  <2>13. \A q \in Slots : call'[q][1] = "share" /\ share[q] = 0 => share'[q] = 0
    BY <1>4, <2>5
  <2>14. CallInv'
    BY <1>4, <1>6, <1>7, <2>12, <2>13, CallsEnd
  <2> QED
    BY <1>4, <2>2, <2>4, <2>7, <2>8, <2>9, <2>10, <2>11, <2>14 DEF SchedInv
<1> QED
  BY <1>8, <1>9

\* allocproc, the rest
LEMMA AllocEnqueueInv ==
    ASSUME SchedInv, NEW p \in Slots, AllocEnqueue(p) PROVE SchedInv'
<1>0. PICK c \in Slots : c = call[p][2] /\ state[c] = "EMBRYO" /\ Forking(p)
  BY DEF AllocEnqueue, SchedInv, CallInv, Forking
<1>1. /\ lev' = [lev EXCEPT ![c] = 0]
      /\ allot' = [allot EXCEPT ![c] = time_allotment[0]]
      /\ share' = [share EXCEPT ![c] = 0]
      /\ pass' = [pass EXCEPT ![c] = 0]
      /\ IF Len(queue[0]) < NPROC
           THEN queue' = [queue EXCEPT ![0] = Append(@, c)] /\ UNCHANGED broken
           ELSE broken' = TRUE /\ UNCHANGED queue
      /\ call' = [call EXCEPT ![p] = <<"fork", c>>]
      /\ UNCHANGED <<state, min_pass, from_trap, stable, ticks, cur>> /\ cur = p /\ ~broken
  BY <1>0 DEF AllocEnqueue
<1>2. Live(p) /\ ~Live(c) /\ p # c /\ c # Mlfq
  BY <1>0, <1>1, SlotNumbers DEF SchedInv, CpuTypes, Live, Mlfq
<1>3. time_allotment[0] \in Nat \ {0}
  BY LevelTables
<1>4. /\ queue' \in [Levels -> Seq(Slots)]
      /\ \A l \in Levels : Len(queue'[l]) <= NPROC
      /\ \A q \in Slots : Queued(q) => Queued(q)'
      /\ broken' \in BOOLEAN /\ (broken' \/ Queued(c)')
  <2>1. /\ queue \in [Levels -> Seq(Slots)] /\ 0 \in Levels
        /\ \A l \in Levels : Len(queue[l]) <= NPROC /\ Len(queue[l]) \in Nat
    BY LenProperties DEF SchedInv, LevelTypes, Levels
  <2>2. CASE Len(queue[0]) < NPROC
    <3>1. queue' = [queue EXCEPT ![0] = Append(queue[0], c)] /\ UNCHANGED broken
      BY <1>1, <2>2
    <3>2. /\ Append(queue[0], c) \in Seq(Slots) /\ Len(Append(queue[0], c)) = Len(queue[0]) + 1
          /\ Range(Append(queue[0], c)) = Range(queue[0]) \cup {c}
      BY <2>1, AppendRange
    <3>3. /\ queue' \in [Levels -> Seq(Slots)] /\ queue'[0] = Append(queue[0], c)
          /\ \A l \in Levels \ {0} : queue'[l] = queue[l]
      BY <2>1, <3>1, <3>2
    <3>4. Len(queue'[0]) <= NPROC
      BY <2>1, <2>2, <3>2, <3>3, SlotNumbers
    <3>5. ASSUME NEW q \in Slots, Queued(q) PROVE Queued(q)'
      <4>1. PICK l \in Levels : q \in Range(queue[l])
        BY <3>5 DEF Queued
      <4>2. q \in Range(queue'[l])
        BY <3>2, <3>3, <4>1
      <4> QED
        BY <4>2 DEF Queued
    <3>6. Queued(c)'
      BY <2>1, <3>2, <3>3 DEF Queued
    <3>7. \A l \in Levels : Len(queue'[l]) <= NPROC
      BY <2>1, <3>3, <3>4
    <3> QED
      BY <3>1, <3>3, <3>5, <3>6, <3>7 DEF SchedInv, CpuTypes
  <2>3. CASE ~(Len(queue[0]) < NPROC)
    BY <1>1, <2>1, <2>3 DEF Queued
  <2> QED
    BY <2>2, <2>3
<1>5. LevelTypes'
  <2>1. lev' \in [Slots -> Levels \cup {STRIDE_LEV}]
    BY <1>1 DEF SchedInv, LevelTypes, Levels
  <2>2. allot' \in [Slots -> Nat]
    BY <1>1, <1>3 DEF SchedInv, LevelTypes
  <2> QED
    BY <1>4, <2>1, <2>2 DEF LevelTypes
<1>6. CpuTypes' /\ SameLive
  BY <1>1, <1>4 DEF SchedInv, CpuTypes, SameLive, Live
<1>7. /\ share' \in [Entities -> Int] /\ share'[c] = 0 /\ share'[Mlfq] = share[Mlfq]
      /\ \A q \in Slots \ {c} : share'[q] = share[q]
  BY <1>1, <1>2 DEF SchedInv, StrideTypes, Entities
<1>8. StrideTypes'
  <2>1. \A q \in Slots : share'[q] \in 0..TotalShare
    <3>1. 0 \in 0..TotalShare
      BY SharesArePossible
    <3>2. \A q \in Slots \ {c} : share'[q] \in 0..TotalShare
      BY <1>7 DEF SchedInv, StrideTypes
    <3> QED
      BY <1>7, <3>1, <3>2
  <2>2. pass' \in [Entities -> Nat]
    BY <1>1 DEF SchedInv, StrideTypes
  <2> QED
    BY <1>1, <1>7, <2>1, <2>2 DEF SchedInv, StrideTypes
<1>9. /\ lev'[c] = 0 /\ allot'[c] = time_allotment[0]
      /\ \A q \in Slots \ {c} : lev'[q] = lev[q] /\ allot'[q] = allot[q]
  BY <1>1 DEF SchedInv, LevelTypes
<1>10. \A q \in Slots : (Live(q)' <=> Live(q)) /\ (Live(q) => q # c)
  BY <1>2, <1>6 DEF SameLive
<1>11. PlaceInv'
  <2>1. \A q \in Slots \ {c} : Live(q) => Placed(q, lev[q], allot[q])'
    BY <1>7, <1>9 DEF SchedInv, PlaceInv, Placed
  <2> QED
    BY <1>10, <2>1 DEF PlaceInv
<1>12. NoLostProcess'
  <2>1. \A q \in Slots : Live(q) /\ share[q] = 0 => Queued(q)
    BY DEF SchedInv, NoLostProcess, Queued
  <2>2. \A q \in Slots : Live(q)' /\ share'[q] = 0 => Queued(q)'
    BY <1>4, <1>7, <1>10, <2>1
  <2> QED
    BY <2>2 DEF NoLostProcess, Queued
<1>13. StrideTable'
  <2>1. {q \in Slots : Live(q) /\ share[q] # 0}' = {q \in Slots : Live(q) /\ share[q] # 0}
    BY <1>7, <1>10
  <2> QED
    BY <1>1, <2>1 DEF SchedInv, StrideTable
<1>14. SharesConserved'
  <2>1. share'[Mlfq] = share[Mlfq] + (IF Live(c) THEN share[c] ELSE 0)
                           - (IF Live(c)' THEN share'[c] ELSE 0)
    <3>1. share[Mlfq] \in Int
      BY DEF SchedInv, StrideTypes, Entities
    <3> QED
      BY <1>2, <1>7, <1>10, <3>1
  <2> QED
    BY <1>7, <1>8, <1>10, <2>1, SharesMove DEF SchedInv
<1>15. CallTypes'
  BY <1>1, SlotNumbers DEF SchedInv, CallTypes
<1>16. call'[p] = <<"fork", c>> /\ \A q \in Slots \ {p} : call'[q] = call[q]
  BY <1>1 DEF SchedInv, CallTypes
<1>17. call'[p][1] = "fork" /\ call'[p][2] = c
  <2>1. <<"fork", c>>[1] = "fork" /\ <<"fork", c>>[2] = c
    BY PairParts
  <2> QED
    BY <1>16, <2>1
<1>18. \A q \in Slots \ {p} : Forking(q) => call[q][2] # c
  BY <1>0 DEF SchedInv, CallInv
<1>19. Newborn(c)'
  <2>1. allot'[c] \in 1..time_allotment[0]
    BY <1>3, <1>9
  <2> QED
    BY <1>4, <1>7, <1>9, <2>1 DEF Newborn
<1>20. ASSUME NEW q \in Slots \ {p}, call[q][1] = "fork" PROVE Newborn(call[q][2])'
  <2>1. PICK d \in Slots : d = call[q][2] /\ d = call'[q][2] /\ d # c /\ Newborn(d)
    BY <1>16, <1>18, <1>20 DEF SchedInv, CallInv, Forking
  <2>2. share'[d] = 0 /\ lev'[d] = 0 /\ allot'[d] \in 1..time_allotment[0]
    BY <1>7, <1>9, <2>1 DEF Newborn
  <2>3. Queued(d)'
    BY <1>1, <1>4, <2>1 DEF Newborn
  <2>4. Newborn(d)'
    BY <2>2, <2>3 DEF Newborn
  <2> QED
    BY <2>1, <2>4
<1>21. ASSUME NEW q \in Slots
       PROVE  /\ call'[q][1] # "user" => Live(q)'
              /\ call'[q][1] = "share" => share'[q] = 0 /\ call'[q][2] \in Shares
              /\ call'[q][1] = "fork" => Newborn(call[q][2])'
  <2>1. CASE q = p
    <3>1. Live(q)' /\ call'[q][1] = "fork" /\ call'[q][2] = c
      BY <1>2, <1>10, <1>17, <2>1
    <3> QED
      BY <1>19, <3>1
  <2>2. CASE q # p
    BY <1>7, <1>10, <1>16, <1>20, <2>2 DEF SchedInv, CallInv
  <2> QED
    BY <2>1, <2>2
<1>22. ASSUME NEW q \in Slots, Forking(q)'
       PROVE  /\ call'[q][2] \in Slots /\ state'[call'[q][2]] = "EMBRYO"
              /\ \A r \in Slots \ {q} : Forking(r)' => call'[r][2] # call'[q][2]
  <2>1. ASSUME NEW r \in Slots, Forking(r)' PROVE Forking(r) /\ call'[r][2] = call[r][2]
    BY <1>0, <1>16, <1>17, <2>1 DEF Forking
  <2>2. Forking(q) /\ call'[q][2] = call[q][2]
    BY <1>22, <2>1
  <2> QED
    BY <1>1, <2>1, <2>2 DEF SchedInv, CallInv
<1>23. CallInv'
  BY <1>21, <1>22 DEF CallInv
<1> QED
  BY <1>5, <1>6, <1>8, <1>11, <1>12, <1>13, <1>14, <1>15, <1>23 DEF SchedInv

\* fork, the end: the child lives, or its slot is given back
LEMMA ForkReturnInv ==
    ASSUME SchedInv, NEW p \in Slots, ForkReturn(p) PROVE SchedInv'
<1>0. PICK c \in Slots : /\ c = call[p][2] /\ state[c] = "EMBRYO" /\ Forking(p)
                         /\ Newborn(c)
  BY DEF ForkReturn, SchedInv, CallInv, Forking
<1>1. PICK st \in {"RUNNABLE", "UNUSED"} : state' = [state EXCEPT ![c] = st]
  BY <1>0 DEF ForkReturn
<1>2. /\ cur = p /\ ~broken /\ call' = [call EXCEPT ![p] = InUser]
      /\ UNCHANGED <<lev, allot, strideVars, from_trap, queue, ticks, cur, broken>>
  BY DEF ForkReturn
<1>3. UNCHANGED <<share, pass, min_pass, stable>>
  BY <1>2 DEF strideVars
<1>4. share[c] = 0 /\ lev[c] = 0 /\ allot[c] \in 1..time_allotment[0] /\ Queued(c)
  BY <1>0, <1>2 DEF Newborn
<1>5. ~Live(c) /\ \A q \in Slots \ {c} : state'[q] = state[q] /\ (Live(q)' <=> Live(q))
  BY <1>0, <1>1 DEF SchedInv, CpuTypes, Live
<1>6. CpuTypes'
  BY <1>0, <1>1, <1>2 DEF SchedInv, CpuTypes, States
<1>7. LevelTypes' /\ StrideTypes'
  BY <1>2, <1>3 DEF SchedInv, LevelTypes, StrideTypes
<1>8. PlaceInv'
  <2>1. Placed(c, lev[c], allot[c])
    BY <1>4 DEF Placed, Levels
  <2>2. \A q \in Slots : Live(q)' => Placed(q, lev[q], allot[q])
    BY <1>5, <2>1 DEF SchedInv, PlaceInv
  <2> QED
    BY <1>2, <1>3, <2>2 DEF PlaceInv, Placed
<1>9. NoLostProcess'
  <2>1. \A q \in Slots : Live(q) /\ share[q] = 0 => Queued(q)
    BY DEF SchedInv, NoLostProcess, Queued
  <2>2. \A q \in Slots : Live(q)' /\ share[q] = 0 => Queued(q)
    BY <1>4, <1>5, <2>1
  <2> QED
    BY <1>2, <1>3, <2>2 DEF NoLostProcess, Queued
<1>10. StrideTable'
  <2>1. {q \in Slots : Live(q) /\ share[q] # 0}' = {q \in Slots : Live(q) /\ share[q] # 0}
    BY <1>3, <1>4, <1>5
  <2> QED
    BY <1>3, <2>1 DEF SchedInv, StrideTable
<1>11. SharesConserved'
  <2>1. share'[Mlfq] = share[Mlfq] + (IF Live(c) THEN share[c] ELSE 0)
                           - (IF Live(c)' THEN share'[c] ELSE 0)
    <3>1. share[Mlfq] \in Int
      BY DEF SchedInv, StrideTypes, Entities
    <3> QED
      BY <1>3, <1>4, <3>1
  <2> QED
    BY <1>3, <1>5, <1>7, <2>1, SharesMove DEF SchedInv
<1>12. /\ CallTypes' /\ call'[p][1] = "user"
       /\ \A q \in Slots \ {p} : call'[q] = call[q]
  BY <1>2, BackInUser
<1>13. \A q \in Slots : call'[q] = call[q] /\ Forking(q) =>
           /\ q # p /\ call[q][2] # c /\ state'[call[q][2]] = "EMBRYO"
  BY <1>0, <1>5, <1>12 DEF SchedInv, CallInv, Forking
<1>14. ASSUME NEW q \in Slots, call'[q] = call[q], Newborn(call[q][2])
       PROVE  Newborn(call[q][2])'
  BY <1>2, <1>3, <1>14 DEF Newborn, Queued
<1>15. CallInv'
  BY <1>3, <1>5, <1>12, <1>13, <1>14, CallsEnd
<1> QED
  BY <1>6, <1>7, <1>8, <1>9, <1>10, <1>11, <1>12, <1>15 DEF SchedInv

\* exit: out of the queue, or out of the stride table with the share given back
LEMMA ExitInv ==
    ASSUME SchedInv, NEW p \in Slots, Exit(p) PROVE SchedInv'
<1>0. /\ cur = p /\ call[p] = InUser
      /\ IF share[p] = 0
           THEN /\ queue' = [queue EXCEPT ![lev[p]] = RemoveFirst(@, p)]
                /\ UNCHANGED <<stable, share>>
           ELSE LeaveStride(p) /\ UNCHANGED queue
      /\ state' = [state EXCEPT ![p] = "ZOMBIE"] /\ cur' = Nobody
      /\ UNCHANGED <<lev, allot, pass, min_pass, from_trap, ticks, call, broken>>
  BY DEF Exit
<1>1. Live(p) /\ Placed(p, lev[p], allot[p]) /\ p # Mlfq
  BY <1>0, SlotNumbers DEF SchedInv, CpuTypes, Live, PlaceInv, Mlfq
<1>2. /\ ~Live(p)'
      /\ \A q \in Slots \ {p} : state'[q] = state[q] /\ (Live(q)' <=> Live(q))
  BY <1>0 DEF SchedInv, CpuTypes, Live
<1>3. CpuTypes'
  <2>1. \A q \in Slots : q # Nobody /\ (state[q] = "RUNNING" <=> q = p)
    BY <1>0, SlotNumbers DEF SchedInv, CpuTypes, Nobody
  <2>2. state' \in [Slots -> States] /\ \A q \in Slots : state'[q] # "RUNNING"
    BY <1>0, <2>1 DEF SchedInv, CpuTypes, States
  <2>3. Nobody \in Entities
    BY DEF Nobody, Entities, Mlfq
  <2> QED
    BY <1>0, <2>1, <2>2, <2>3 DEF SchedInv, CpuTypes
<1>4. /\ LevelTypes' /\ \A q \in Slots \ {p} : Queued(q) => Queued(q)'
  <2>1. CASE share[p] = 0
    <3>1. PICK l \in Levels : l = lev[p]
      BY <1>1, <2>1 DEF Placed
    <3>2. queue' = [queue EXCEPT ![l] = RemoveFirst(@, p)]
      BY <1>0, <2>1, <3>1
    <3>3. /\ queue' \in [Levels -> Seq(Slots)]
          /\ \A m \in Levels : Len(queue'[m]) <= NPROC
          /\ \A q \in Slots \ {p} : Queued(q) => Queued(q)'
      BY <3>2, LeaveQueue DEF SchedInv
    <3> QED
      BY <1>0, <3>3 DEF SchedInv, LevelTypes
  <2>2. CASE share[p] # 0
    BY <1>0, <2>2 DEF SchedInv, LevelTypes, Queued
  <2> QED
    BY <2>1, <2>2
<1>5. /\ share' \in [Entities -> Int] /\ \A q \in Slots : share'[q] = share[q]
      /\ share'[Mlfq] = share[Mlfq] + share[p]
  <2>1. /\ share \in [Entities -> Int] /\ share[p] \in Int /\ share[Mlfq] \in Int
        /\ Mlfq \in Entities /\ \A q \in Slots : q # Mlfq /\ q \in Entities
    BY SlotNumbers DEF SchedInv, StrideTypes, Entities, Mlfq
  <2>2. CASE share[p] = 0
    BY <1>0, <2>1, <2>2
  <2>3. CASE share[p] # 0
    <3>1. share' = [share EXCEPT ![Mlfq] = share[Mlfq] + share[p]]
      BY <1>0, <2>3 DEF LeaveStride
    <3> QED
      BY <2>1, <3>1
  <2> QED
    BY <2>2, <2>3
<1>6. /\ stable \in Seq(Entities) /\ stable # <<>> /\ Len(stable) <= NPROC /\ Len(stable) \in Nat
      /\ stable[1] = Mlfq /\ IsInjective(stable)
      /\ Range(stable) \ {Mlfq} = {q \in Slots : Live(q) /\ share[q] # 0}
  BY LenProperties DEF SchedInv, StrideTypes, StrideTable
<1>7. /\ stable' \in Seq(Entities) /\ stable' # <<>> /\ Len(stable') <= NPROC
      /\ stable'[1] = Mlfq /\ IsInjective(stable')
      /\ Range(stable') \ {Mlfq} = (Range(stable) \ {Mlfq}) \ {p}
  <2>1. CASE share[p] = 0
    <3>1. p \notin Range(stable) \ {Mlfq} /\ stable' = stable
      BY <1>0, <1>6, <2>1
    <3> QED
      BY <1>6, <3>1
  <2>2. CASE share[p] # 0
    <3>1. stable' = RemoveFirst(stable, p) /\ stable[1] # p
      BY <1>0, <1>1, <1>6, <2>2 DEF LeaveStride
    <3>2. stable' \in Seq(Entities) /\ Leaves(stable, stable', p)
      BY <1>6, <3>1, RemoveFirstLeaves
    <3>3. IsInjective(stable') /\ stable' # <<>> /\ stable'[1] = stable[1]
          /\ Range(stable') = Range(stable) \ {p}
      BY <1>6, <3>1, RemoveFirstOnce
    <3>4. Len(stable') <= NPROC
      <4>1. Len(stable') \in Nat /\ Len(stable') <= Len(stable)
        BY <3>2, LenProperties DEF Leaves
      <4> QED
        BY <1>6, <4>1, SlotNumbers
    <3> QED
      BY <1>6, <3>2, <3>3, <3>4
  <2> QED
    BY <2>1, <2>2
<1>8. StrideTypes'
  BY <1>0, <1>5, <1>7 DEF SchedInv, StrideTypes
<1>9. PlaceInv'
  <2>1. \A q \in Slots : Live(q)' => Placed(q, lev[q], allot[q])
    BY <1>2 DEF SchedInv, PlaceInv
  <2> QED
    BY <1>0, <1>5, <2>1 DEF PlaceInv, Placed
<1>10. NoLostProcess'
  <2>1. \A q \in Slots : Live(q) /\ share[q] = 0 => Queued(q)
    BY DEF SchedInv, NoLostProcess, Queued
  <2>2. \A q \in Slots : Live(q)' /\ share'[q] = 0 => Queued(q)'
    BY <1>2, <1>4, <1>5, <2>1
  <2> QED
    BY <2>2 DEF NoLostProcess, Queued
<1>11. StrideTable'
  <2>1. \A q \in Slots : (Live(q)' /\ share'[q] # 0) <=> (Live(q) /\ share[q] # 0 /\ q # p)
    BY <1>2, <1>5
  <2>2. {q \in Slots : Live(q) /\ share[q] # 0}'
          = {q \in Slots : Live(q) /\ share[q] # 0} \ {p}
    BY <2>1
  <2> QED
    BY <1>6, <1>7, <2>2 DEF StrideTable
<1>12. SharesConserved'
  <2>1. share'[Mlfq] = share[Mlfq] + (IF Live(p) THEN share[p] ELSE 0)
                           - (IF Live(p)' THEN share'[p] ELSE 0)
    <3>1. share[Mlfq] \in Int /\ share[p] \in Int
      BY DEF SchedInv, StrideTypes, Entities
    <3> QED
      BY <1>1, <1>2, <1>5, <3>1
  <2> QED
    BY <1>2, <1>5, <1>8, <2>1, SharesMove DEF SchedInv
<1>13. call[p][1] = "user"
  BY <1>0, PairParts DEF InUser
<1>14. CallTypes' /\ \A q \in Slots : call'[q] = call[q]
  BY <1>0 DEF SchedInv, CallTypes
<1>15. \A q \in Slots : Forking(q) => call[q][2] # p /\ state'[call[q][2]] = "EMBRYO"
  <2>1. state[p] # "EMBRYO"
    BY <1>1 DEF Live
  <2> QED
    BY <1>2, <2>1 DEF SchedInv, CallInv
<1>16. ASSUME NEW q \in Slots, call'[q] = call[q], call[q][1] = "fork", Newborn(call[q][2])
       PROVE  Newborn(call[q][2])'
  <2>1. PICK c \in Slots : c = call[q][2] /\ c = call'[q][2] /\ c # p /\ Newborn(c)
    BY <1>15, <1>16 DEF SchedInv, CallInv, Forking
  <2>2. Newborn(c)'
    BY <1>0, <1>4, <1>5, <2>1 DEF Newborn
  <2> QED
    BY <2>1, <2>2
<1>17. CallInv'
  BY <1>2, <1>5, <1>13, <1>14, <1>15, <1>16, CallsEnd
<1> QED
  BY <1>3, <1>4, <1>8, <1>9, <1>10, <1>11, <1>12, <1>14, <1>17 DEF SchedInv

\* Every step keeps the invariant.
LEMMA NextInv == ProperShares /\ SchedInv /\ [Next]_vars => SchedInv'
<1> SUFFICES ASSUME ProperShares, SchedInv, [Next]_vars PROVE SchedInv'
  OBVIOUS
<1>1. CASE Dispatch
  BY <1>1, DispatchInv
<1>2. ASSUME NEW p \in Slots, TimerTick(p) \/ Wakeup(p) PROVE SchedInv'
  BY <1>2, TimerTickInv, WakeupInv
<1>3. ASSUME NEW p \in Slots, SysCall(p) PROVE SchedInv'
  <2>1. CASE SysYield(p)
    BY <2>1, SysYieldInv
  <2>2. CASE YieldCall(p)
    BY <2>2, YieldCallInv
  <2>3. CASE \E s \in Shares : SetCpuShareCheck(p, s)
    BY <2>3, SetCpuShareCheckInv
  <2>4. CASE SetCpuShareApply(p)
    BY <2>4, SetCpuShareApplyInv
  <2>5. CASE AllocProc(p)
    BY <2>5, AllocProcInv
  <2>6. CASE AllocEnqueue(p)
    BY <2>6, AllocEnqueueInv
  <2>7. CASE AllocFail(p)
    BY <2>7, AllocFailInv
  <2>8. CASE ForkReturn(p)
    BY <2>8, ForkReturnInv
  <2>9. CASE Sleep(p)
    BY <2>9, SleepInv
  <2>10. CASE Exit(p)
    BY <2>10, ExitInv
  <2>11. CASE \E z \in Slots : Wait(p, z)
    BY <2>11, WaitInv
  <2> QED
    BY <1>3, <2>1, <2>2, <2>3, <2>4, <2>5, <2>6, <2>7, <2>8, <2>9, <2>10, <2>11 DEF SysCall
<1>4. CASE UNCHANGED vars
  <2>1. SameLive /\ UNCHANGED <<lev, allot, strideVars, queue>>
    BY <1>4 DEF vars, strideVars, SameLive, Live
  <2>2. CpuTypes'
    BY <1>4 DEF vars, SchedInv, CpuTypes
  <2>3. CallTypes' /\ CallInv'
    BY <1>4, <2>1, CallsKept DEF vars
  <2> QED
    BY <2>1, <2>2, <2>3, QuietInv
<1> QED
  BY <1>1, <1>2, <1>3, <1>4 DEF Next

\* The invariant of the scheduler's tables holds in every state.
THEOREM SchedulerInvariant == ProperShares /\ Spec => []SchedInv
<1> SUFFICES ASSUME ProperShares PROVE Spec => []SchedInv
  OBVIOUS
<1>1. SchedInv /\ [Next]_vars => SchedInv'
  BY NextInv
<1> QED
  BY <1>1, InitInv, PTL DEF Spec

\* The tables are well-formed: no queue and no stride table outgrows its array,
\* and exactly the process on the processor is RUNNING.
THEOREM TablesTyped == ProperShares /\ Spec => []TypeOK
  BY SchedulerInvariant, InvImplies, PTL

\* scheduler() can find every live process without a share in some queue.
THEOREM NobodyLost == ProperShares /\ Spec => []NoLostProcess
  BY SchedulerInvariant, InvImplies, PTL

\* No process gets past an allotment of 0 without yield() demoting it.
THEOREM AllotmentsHold == ProperShares /\ Spec => []AllotmentLeft
  BY SchedulerInvariant, InvImplies, PTL

\* Shares are neither lost nor made, even where two calls of set_cpu_share race.
THEOREM SharesSumUp == ProperShares /\ Spec => []SharesConserved
  BY SchedulerInvariant, InvImplies, PTL

\* The stride table has the MLFQ and the live stride processes, each once.
THEOREM StrideTableExact == ProperShares /\ Spec => []StrideTable
  BY SchedulerInvariant, InvImplies, PTL

-----------------------------------------------------------------------------
(* Proportional share.                                                     *)

\* The smallest share in play, and the longest stride.
SmallestShare == Min(Shares \cup {MinMlfqShare})
LongestStride == MULTSTRIDESHARE \div SmallestShare

\* The passes that a process has or may get.
Passes == {pass[x] : x \in Range(stable)} \cup {min_pass}

SpreadInv ==
    /\ \A p \in Slots : state[p] # "SLEEPING"
    /\ \A p \in Slots : share[p] \in Shares \cup {0}
    /\ \A x, y \in Passes : x - y <= LongestStride

\* The quotient of two numbers.
LEMMA DivBounds ==
    ASSUME NEW M \in Nat, NEW d \in Nat \ {0}
    PROVE  M \div d \in Nat /\ d * (M \div d) <= M /\ M < d * (M \div d) + d
<1>1. M \div d \in Int
  OBVIOUS
<1>2. M \div d >= 0
  OBVIOUS
<1>3. d * (M \div d) <= M
  OBVIOUS
<1>4. M < d * (M \div d) + d
  OBVIOUS
<1> QED
  BY <1>1, <1>2, <1>3, <1>4

\* A larger share has a shorter stride.
LEMMA ShorterStride ==
    ASSUME NEW M \in Nat, NEW m \in Nat \ {0}, NEW s \in Nat, s >= m
    PROVE  M \div s \in Nat /\ M \div s <= M \div m
<1>0. s \in Nat \ {0}
  OBVIOUS
<1>1. PICK a \in Nat : a = M \div s /\ s * a <= M /\ M < s * a + s
  BY <1>0, DivBounds
<1>2. PICK b \in Nat : b = M \div m /\ m * b <= M /\ M < m * b + m
  BY DivBounds
<1>3. m * a <= s * a
  OBVIOUS
<1>4. m * a \in Nat /\ s * a \in Nat /\ m * b \in Nat
  OBVIOUS
<1>5. m * a < m * b + m
  BY <1>1, <1>2, <1>3, <1>4
<1>6. CASE a >= b + 1
  <2>1. m * a >= m * (b + 1)
    BY <1>6
  <2>2. m * (b + 1) = m * b + m
    OBVIOUS
  <2> QED
    BY <1>4, <1>5, <2>1, <2>2
<1> QED
  BY <1>1, <1>2, <1>6

\* The smallest share is positive, and the smallest.
LEMMA SmallestShareIs ==
    ProperShares => /\ SmallestShare \in Nat \ {0}
                    /\ \A s \in Shares \cup {MinMlfqShare} : s \in Nat /\ SmallestShare <= s
<1> SUFFICES ASSUME ProperShares
             PROVE  /\ SmallestShare \in Nat \ {0}
                    /\ \A s \in Shares \cup {MinMlfqShare} : s \in Nat /\ SmallestShare <= s
  OBVIOUS
<1>1. \A s \in Shares \cup {MinMlfqShare} : s \in Nat \ {0}
  BY SharesArePossible DEF ProperShares
<1>2. /\ Min(Shares \cup {MinMlfqShare}) \in Shares \cup {MinMlfqShare}
      /\ \A s \in Shares \cup {MinMlfqShare} : Min(Shares \cup {MinMlfqShare}) <= s
  BY <1>1, MinIs
<1> QED
  BY <1>1, <1>2 DEF SmallestShare

\* Where no new pass appears, the spread stays.
LEMMA SpreadKept ==
    ASSUME SpreadInv, Passes' \subseteq Passes,
           \A p \in Slots : state'[p] # "SLEEPING",
           \A p \in Slots : share'[p] \in Shares \cup {0}
    PROVE  SpreadInv'
  BY DEF SpreadInv, LongestStride, SmallestShare

\* A round of scheduler() charges the entity with the smallest pass at most
\* the longest stride.
LEMMA DispatchSpread ==
    ASSUME ProperShares, SchedInv, MlfqKeepsShare, SpreadInv, Dispatch PROVE SpreadInv'
<1>0. PICK e : \E i \in DOMAIN stable :
                  /\ i = MinIndex /\ e = stable[i]
                  /\ \A j \in Eligible : pass[e] <= pass[stable[j]]
  BY MinIndexIn
<1>1. /\ cur = Nobody /\ ~broken
      /\ UNCHANGED <<lev, allot, share, from_trap, queue, stable, ticks, call>>
  BY DispatchCases
<1>2. /\ \A p \in Slots : state'[p] # "SLEEPING"
      /\ \A p \in Slots : share'[p] \in Shares \cup {0}
  <2>1. \/ UNCHANGED state
        \/ \E p \in Slots : state' = [state EXCEPT ![p] = "RUNNING"]
    BY DispatchCases
  <2> QED
    BY <1>1, <2>1 DEF SpreadInv, SchedInv, CpuTypes
<1>3. CASE UNCHANGED <<pass, min_pass>>
  <2>1. Passes' = Passes
    BY <1>1, <1>3 DEF Passes
  <2> QED
    BY <1>2, <2>1, SpreadKept
<1>4. CASE share[e] # 0 /\ \E ps, b : Charges(e, ps, b)
  <2>1. PICK ps, b : Charges(e, ps, b)
    BY <1>4
  <2>2. /\ e \in Entities /\ ps \in [Entities -> Int] /\ b \in Int
        /\ pass' \in [Entities -> Nat] /\ min_pass' \in Nat
    BY <1>0, <1>4, <2>1, ChargesTyped
  <2>3. /\ \A x \in Range(stable) : x \in Entities /\ pass[x] \in Nat
        /\ e \in Range(stable) /\ DOMAIN stable = 1..Len(stable)
    BY <1>0, LenProperties, ElementOfSeq DEF SchedInv, StrideTypes, Range
  <2>4. \A j \in DOMAIN stable : j \in Eligible
    <3> SUFFICES ASSUME NEW j \in DOMAIN stable, j # 1 PROVE state[stable[j]] = "RUNNABLE"
      BY DEF Eligible
    <3>1. 1 \in DOMAIN stable /\ stable[1] = Mlfq
      BY LenProperties, EmptySeq DEF SchedInv, StrideTable, StrideTypes
    <3>2. stable[j] # Mlfq
      BY <3>1 DEF SchedInv, StrideTable, IsInjective
    <3>3. stable[j] \in Slots /\ Live(stable[j])
      BY <3>2 DEF SchedInv, StrideTable, Range
    <3>4. state[stable[j]] # "RUNNING"
      BY <1>1, <3>3, SlotNumbers DEF SchedInv, CpuTypes, Nobody
    <3> QED
      BY <3>3, <3>4 DEF SpreadInv, Live
  <2>5. \A x \in Range(stable) : pass[e] <= pass[x]
    BY <1>0, <2>4 DEF Range
  <2>6. PICK d : d = Stride(share[e])
    OBVIOUS
  <2>7. d \in Nat /\ d <= LongestStride /\ LongestStride \in Nat
    <3>1. share[e] \in Shares \cup {MinMlfqShare} \/ (share[e] \in Int /\ share[e] >= MinMlfqShare)
      <4>1. CASE e = Mlfq
        BY <4>1 DEF MlfqKeepsShare, SchedInv, StrideTypes, Entities
      <4>2. CASE e # Mlfq
        BY <1>4, <2>2, <4>2 DEF SpreadInv, Entities
      <4> QED
        BY <4>1, <4>2
    <3>2. /\ SmallestShare \in Nat \ {0}
          /\ \A s \in Shares \cup {MinMlfqShare} : s \in Nat /\ SmallestShare <= s
      BY SmallestShareIs
    <3>3. share[e] \in Nat /\ share[e] >= SmallestShare
      <4>1. MinMlfqShare \in Nat /\ SmallestShare <= MinMlfqShare
        BY <3>2
      <4> QED
        BY <3>1, <3>2, <4>1
    <3>4. /\ MULTSTRIDESHARE \div share[e] \in Nat
          /\ MULTSTRIDESHARE \div share[e] <= MULTSTRIDESHARE \div SmallestShare
          /\ MULTSTRIDESHARE \div SmallestShare \in Nat
      <4>1. MULTSTRIDESHARE \in Nat
        BY SharesArePossible
      <4>2. PICK s, m : s = share[e] /\ m = SmallestShare
        OBVIOUS
      <4>3. s \in Nat /\ m \in Nat \ {0} /\ s >= m /\ m \in Nat /\ m >= m
        BY <3>2, <3>3, <4>2
      <4>4. MULTSTRIDESHARE \div s \in Nat /\ MULTSTRIDESHARE \div s <= MULTSTRIDESHARE \div m
        BY <4>1, <4>3, ShorterStride
      <4>5. MULTSTRIDESHARE \div m \in Nat
        BY <4>1, <4>3, ShorterStride
      <4> QED
        BY <4>2, <4>4, <4>5
    <3>5. d = MULTSTRIDESHARE \div share[e]
      BY <2>6, <3>2, <3>3 DEF Stride
    <3> QED
      BY <3>4, <3>5 DEF LongestStride
  <2>8. /\ ps[e] = pass[e] + d
        /\ \A x \in Range(stable) \ {e} : ps[x] = pass[x]
    BY <2>1, <2>2, <2>3, <2>6 DEF Charges, SchedInv, StrideTypes
  <2>9. \A x, y \in Range(stable) : pass[x] - pass[y] <= LongestStride
    BY DEF SpreadInv, Passes
  <2>10. ASSUME NEW x \in Range(stable), NEW y \in Range(stable)
         PROVE  ps[x] - ps[y] <= LongestStride
    <3>1. /\ pass[x] \in Nat /\ pass[y] \in Nat /\ pass[e] \in Nat
          /\ pass[e] <= pass[x] /\ pass[e] <= pass[y]
          /\ pass[x] - pass[y] <= LongestStride /\ pass[x] - pass[e] <= LongestStride
      BY <2>3, <2>5, <2>9
    <3>2. ps[x] = IF x = e THEN pass[e] + d ELSE pass[x]
      BY <2>8
    <3>3. ps[y] = IF y = e THEN pass[e] + d ELSE pass[y]
      BY <2>8
    <3> QED
      BY <2>7, <3>1, <3>2, <3>3
  <2>11. \A z \in Passes' : \E x \in Range(stable) : z = ps[x] - b
    <3>1. min_pass' = ps[e] - b
      BY <2>1 DEF Charges
    <3>2. \A x \in Range(stable) : pass'[x] = ps[x] - b
      BY <2>1, <2>3 DEF Charges
    <3>3. \A z \in Passes' : z = min_pass' \/ \E x \in Range(stable) : z = pass'[x]
      BY <1>1 DEF Passes
    <3> QED
      BY <2>3, <3>1, <3>2, <3>3
  <2>12. ASSUME NEW u \in Passes', NEW v \in Passes' PROVE u - v <= LongestStride
    <3>1. PICK x \in Range(stable), y \in Range(stable) : u = ps[x] - b /\ v = ps[y] - b
      BY <2>11
    <3>2. ps[x] \in Int /\ ps[y] \in Int /\ ps[x] - ps[y] <= LongestStride
      BY <2>2, <2>3, <2>10
    <3> QED
      BY <2>2, <2>7, <3>1, <3>2
  <2> QED
    BY <1>2, <2>12 DEF SpreadInv, LongestStride, SmallestShare
<1> QED
  BY <1>0, <1>3, <1>4, DispatchCases

\* Steps that touch no pass and no stride table keep the spread.
LEMMA StridesSame ==
    ASSUME SpreadInv, UNCHANGED strideVars,
           \A p \in Slots : state'[p] # "SLEEPING"
    PROVE  SpreadInv'
<1>1. Passes' = Passes
  BY DEF Passes, strideVars
<1>2. \A p \in Slots : share'[p] \in Shares \cup {0}
  BY DEF SpreadInv, strideVars
<1> QED
  BY <1>1, <1>2, SpreadKept

\* A process enters the stride table at the pass that was charged last.
LEMMA SetCpuShareApplySpread ==
    ASSUME SchedInv, SpreadInv, NEW p \in Slots, SetCpuShareApply(p) PROVE SpreadInv'
<1>1. /\ cur = p /\ call[p][1] = "share" /\ UNCHANGED <<state, min_pass>>
  BY DEF SetCpuShareApply
<1>2. \A q \in Slots : state'[q] # "SLEEPING"
  BY <1>1 DEF SpreadInv
<1>3. CASE UNCHANGED <<stable, share, pass>>
  BY <1>1, <1>2, <1>3, StridesSame DEF strideVars
<1>4. CASE /\ stable' = Append(stable, p)
           /\ share' = [share EXCEPT ![Mlfq] = @ - call[p][2], ![p] = call[p][2]]
           /\ pass' = [pass EXCEPT ![p] = min_pass]
  <2>1. Range(stable') = Range(stable) \cup {p}
    BY <1>4, AppendRange DEF SchedInv, StrideTypes, Entities
  <2>2. \A x \in Range(stable) : x \in Entities
    BY LenProperties, ElementOfSeq DEF SchedInv, StrideTypes, Range
  <2>3. \A x \in Range(stable') : pass'[x] = min_pass \/ (x \in Range(stable) /\ pass'[x] = pass[x])
    BY <1>4, <2>1, <2>2 DEF SchedInv, StrideTypes, Entities
  <2>4. Passes' \subseteq Passes
    BY <1>1, <2>3 DEF Passes
  <2>5. call[p][2] \in Shares
    BY <1>1 DEF SchedInv, CallInv
  <2>6. \A q \in Slots : share'[q] \in Shares \cup {0}
    BY <1>4, <2>5, SlotNumbers DEF SpreadInv, SchedInv, StrideTypes, Entities, Mlfq
  <2> QED
    BY <1>2, <2>4, <2>6, SpreadKept
<1> QED
  BY <1>3, <1>4 DEF SetCpuShareApply

\* The slot of a child is not in the stride table yet.
LEMMA AllocEnqueueSpread ==
    ASSUME SchedInv, SpreadInv, NEW p \in Slots, AllocEnqueue(p) PROVE SpreadInv'
<1>1. PICK c : c = call[p][2]
  OBVIOUS
<1>2. /\ call[p][1] = "alloc" /\ UNCHANGED <<state, min_pass, stable>>
      /\ share' = [share EXCEPT ![c] = 0] /\ pass' = [pass EXCEPT ![c] = 0]
  BY <1>1 DEF AllocEnqueue
<1>3. c \in Slots /\ state[c] = "EMBRYO"
  BY <1>1, <1>2 DEF SchedInv, CallInv, Forking
<1>4. \A x \in Range(stable) : x \in Entities /\ x # c
  <2>1. c # Mlfq /\ ~Live(c)
    BY <1>3, SlotNumbers DEF Mlfq, Live
  <2>2. \A x \in Range(stable) : x \in Entities
    BY LenProperties, ElementOfSeq DEF SchedInv, StrideTypes, Range
  <2> QED
    BY <2>1, <2>2 DEF SchedInv, StrideTable
<1>5. Passes' \subseteq Passes
  <2>1. \A x \in Range(stable) : pass'[x] = pass[x]
    BY <1>2, <1>4 DEF SchedInv, StrideTypes
  <2> QED
    BY <1>2, <2>1 DEF Passes
<1>6. \A q \in Slots : share'[q] \in Shares \cup {0}
  BY <1>2, <1>3 DEF SpreadInv, SchedInv, StrideTypes, Entities
<1>7. \A q \in Slots : state'[q] # "SLEEPING"
  BY <1>2 DEF SpreadInv
<1> QED
  BY <1>5, <1>6, <1>7, SpreadKept

\* exit only takes an entry away.
LEMMA ExitSpread ==
    ASSUME SchedInv, SpreadInv, NEW p \in Slots, Exit(p) PROVE SpreadInv'
<1>1. /\ state' = [state EXCEPT ![p] = "ZOMBIE"] /\ UNCHANGED <<pass, min_pass>>
      /\ \/ UNCHANGED <<stable, share>>
         \/ LeaveStride(p)
  BY DEF Exit
<1>2. \A q \in Slots : state'[q] # "SLEEPING"
  BY <1>1 DEF SpreadInv, SchedInv, CpuTypes
<1>3. CASE UNCHANGED <<stable, share>>
  BY <1>1, <1>2, <1>3, StridesSame DEF strideVars
<1>4. CASE LeaveStride(p)
  <2>1. Range(stable') \subseteq Range(stable)
    BY <1>4, RemoveFirstLeaves DEF LeaveStride, Leaves, SchedInv, StrideTypes
  <2>2. Passes' \subseteq Passes
    BY <1>1, <2>1 DEF Passes
  <2>3. \A q \in Slots : share'[q] \in Shares \cup {0}
    BY <1>4, SlotNumbers DEF LeaveStride, SpreadInv, SchedInv, StrideTypes, Entities, Mlfq
  <2> QED
    BY <1>2, <2>2, <2>3, SpreadKept
<1> QED
  BY <1>1, <1>3, <1>4

\* Every step keeps the passes close together.
LEMMA NextSpread ==
    ProperShares /\ Sleepers = {} /\ SchedInv /\ MlfqKeepsShare /\ SpreadInv /\ [Next]_vars
        => SpreadInv'
<1> SUFFICES ASSUME ProperShares, Sleepers = {}, SchedInv, MlfqKeepsShare, SpreadInv,
                    [Next]_vars
             PROVE  SpreadInv'
  OBVIOUS
<1> USE DEF SpreadInv, SchedInv, CpuTypes
<1>0. CASE UNCHANGED vars
  BY <1>0, StridesSame DEF vars, strideVars
<1>1. CASE Dispatch
  BY <1>1, DispatchSpread
<1>2. ASSUME NEW p \in Slots, TimerTick(p) PROVE SpreadInv'
  <2>1. UNCHANGED strideVars /\ (UNCHANGED state \/ state' = [state EXCEPT ![p] = "RUNNABLE"])
    BY <1>2 DEF TimerTick, Yield
  <2> QED
    BY <2>1, StridesSame
<1>3. ASSUME NEW p \in Slots, Wakeup(p) PROVE SpreadInv'
  BY <1>3 DEF Wakeup
<1>4. ASSUME NEW p \in Slots, SysCall(p) PROVE SpreadInv'
  <2>1. CASE SysYield(p)
    BY <2>1, StridesSame DEF SysYield
  <2>2. CASE YieldCall(p)
    BY <2>2, StridesSame DEF YieldCall, Yield
  <2>3. CASE \E s \in Shares : SetCpuShareCheck(p, s)
    BY <2>3, StridesSame DEF SetCpuShareCheck
  <2>4. CASE SetCpuShareApply(p)
    BY <2>4, SetCpuShareApplySpread
  <2>5. CASE AllocProc(p)
    BY <2>5, StridesSame DEF AllocProc
  <2>6. CASE AllocEnqueue(p)
    BY <2>6, AllocEnqueueSpread
  <2>7. CASE AllocFail(p)
    BY <2>7, StridesSame DEF AllocFail
  <2>8. CASE ForkReturn(p)
    <3>1. UNCHANGED strideVars
      BY <2>8 DEF ForkReturn
    <3>2. PICK st \in {"RUNNABLE", "UNUSED"} : state' = [state EXCEPT ![call[p][2]] = st]
      BY <2>8 DEF ForkReturn
    <3> QED
      BY <3>1, <3>2, StridesSame
  <2>9. CASE Sleep(p)
    BY <2>9 DEF Sleep
  <2>10. CASE Exit(p)
    BY <2>10, ExitSpread
  <2>11. CASE \E z \in Slots : Wait(p, z)
    BY <2>11, StridesSame DEF Wait
  <2> QED
    BY <1>4, <2>1, <2>2, <2>3, <2>4, <2>5, <2>6, <2>7, <2>8, <2>9, <2>10, <2>11 DEF SysCall
<1> QED
  BY <1>0, <1>1, <1>2, <1>3, <1>4 DEF Next

\* At the start everybody has pass 0.
LEMMA InitSpread == ProperShares /\ Init => SpreadInv
<1> SUFFICES ASSUME ProperShares, Init PROVE SpreadInv
  OBVIOUS
<1>1. LongestStride \in Nat
  <2>1. SmallestShare \in Nat \ {0} /\ MULTSTRIDESHARE \in Nat
    BY SmallestShareIs, SharesArePossible
  <2> QED
    BY <2>1, DivBounds DEF LongestStride
<1>2. Passes = {0}
  <2>1. Range(stable) = {Mlfq}
    BY DEF Init, Range
  <2> QED
    BY <2>1 DEF Init, Passes, Entities
<1>3. \A x, y \in Passes : x - y <= LongestStride
  BY <1>1, <1>2
<1>4. \A p \in Slots : state[p] # "SLEEPING" /\ share[p] = 0
  BY SlotNumbers DEF Init, Entities, Mlfq
<1> QED
  BY <1>3, <1>4 DEF SpreadInv

\* The passes of the entries are among those that the invariant bounds.
LEMMA SpreadImplies == SpreadInv => PassSpread
  BY DEF SpreadInv, PassSpread, Passes, Range, LongestStride, SmallestShare

\* Proportional share: as long as no process blocks and the MLFQ keeps its
\* share (two calls of set_cpu_share that race may take it), scheduler()
\* keeps every two passes within one stride of the smallest share.
THEOREM ShareProportional ==
    ProperShares /\ Sleepers = {} /\ Spec /\ []MlfqKeepsShare => []PassSpread
<1> SUFFICES ASSUME ProperShares, Sleepers = {}
             PROVE  Spec /\ []MlfqKeepsShare => []PassSpread
  OBVIOUS
<1>1. SchedInv /\ MlfqKeepsShare /\ SpreadInv /\ [Next]_vars => SpreadInv'
  BY NextSpread
<1>2. Init => SpreadInv
  BY InitSpread
<1>3. Spec => []SchedInv
  BY SchedulerInvariant
<1> QED
  BY <1>1, <1>2, <1>3, SpreadImplies, PTL DEF Spec
=============================================================================

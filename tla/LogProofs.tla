------------------------------- MODULE LogProofs -------------------------------
(***************************************************************************)
(* Proofs about the write-ahead log, for every number of threads, blocks   *)
(* and contents, and every size of the log.                                *)
(***************************************************************************)
EXTENDS Log, FiniteSetTheorems, TLAPS

-----------------------------------------------------------------------------
(* Sequences of block numbers.                                             *)

\* Appending a block to the header adds it to the logged blocks.
LEMMA AppendLogged ==
    ASSUME NEW h \in Seq(Blocks), NEW b \in Blocks
    PROVE  /\ Append(h, b) \in Seq(Blocks)
           /\ Len(Append(h, b)) = Len(h) + 1
           /\ \A i \in 1..Len(h) : Append(h, b)[i] = h[i]
           /\ Append(h, b)[Len(h) + 1] = b
           /\ Logged(Append(h, b)) = Logged(h) \cup {b}
<1>1. /\ Append(h, b) \in Seq(Blocks)
      /\ Len(Append(h, b)) = Len(h) + 1
      /\ \A i \in 1..Len(h) : Append(h, b)[i] = h[i]
      /\ Append(h, b)[Len(h) + 1] = b
      /\ Len(h) \in Nat
  OBVIOUS
<1>2. 1..Len(Append(h, b)) = 1..Len(h) \cup {Len(h) + 1}
  BY <1>1
<1>3. Logged(Append(h, b)) = Logged(h) \cup {b}
  BY <1>1, <1>2, Zenon DEF Logged
<1> QED
  BY <1>1, <1>3

\* log_write appends only a block that is not in the header: no duplicates.
LEMMA AppendAbsorbed ==
    ASSUME NEW h \in Seq(Blocks), NEW b \in Blocks, b \notin Logged(h), Absorbed(h)
    PROVE  Absorbed(Append(h, b))
<1>1. \A i \in 1..Len(h) : h[i] # b
  BY DEF Logged
<1>2. SUFFICES ASSUME NEW i \in 1..Len(Append(h, b)), NEW j \in 1..Len(Append(h, b)),
                      Append(h, b)[i] = Append(h, b)[j]
               PROVE  i = j
  BY DEF Absorbed
<1>3. CASE i \in 1..Len(h) /\ j \in 1..Len(h)
  BY <1>2, <1>3, AppendLogged DEF Absorbed
<1>4. CASE i = Len(h) + 1 \/ j = Len(h) + 1
  BY <1>1, <1>2, <1>4, AppendLogged
<1> QED
  BY <1>3, <1>4, AppendLogged

\* The header of an absorbed log replays each of its slots.
LEMMA ReplaySlot ==
    ASSUME TypeOK, Absorbed(dhead), NEW i \in 1..Len(dhead)
    PROVE  Replay[dhead[i]] = dlog[i]
<1>1. dhead[i] \in Blocks
  BY DEF TypeOK
<1>2. (CHOOSE j \in 1..Len(dhead) : dhead[j] = dhead[i]) = i
  BY DEF Absorbed
<1> QED
  BY <1>1, <1>2 DEF Replay

-----------------------------------------------------------------------------
(* Initial states.                                                         *)

\* The invariant holds when the machine boots.
LEMMA InitInv == Init => IInv
<1> SUFFICES ASSUME Init PROVE IInv
  OBVIOUS
<1>1. TypeOK
  <2>1. dlog \in [Slots -> Vals]
    BY DEF Init
  <2>2. /\ pc \in [Procs -> PCs]
        /\ pend \in [Procs -> Blocks \cup {NoBlock}]
        /\ wrote \in [Procs -> SUBSET Blocks]
    BY DEF Init, PCs
  <2>3. phase \in Phases
    BY DEF Init, Phases, RecoverPhases
  <2>4. dhead \in Seq(Blocks) /\ lh \in Seq(Blocks)
    BY DEF Init
  <2>5. outstanding \in Nat /\ tail \in Nat
    BY DEF Init
  <2> QED
    BY <2>1, <2>2, <2>3, <2>4, <2>5, Zenon DEF Init, TypeOK
<1>2. InOp = {}
  BY DEF Init, InOp
<1>3. Cardinality(InOp) = 0 /\ Cardinality({}) = 0
  BY <1>2, FS_EmptySet
<1>4. ThreadInv
  BY <1>2, <1>3, LogSizes DEF Init, ThreadInv, CommitPhases
<1>5. DiskInv
  BY DEF Init, DiskInv, Absorbed
<1>6. UpdatesPinned
  BY DEF Init, UpdatesPinned
<1>7. SpaceInv
  BY <1>2 DEF Init, SpaceInv
<1> QED
  BY <1>1, <1>4, <1>5, <1>6, <1>7 DEF IInv

-----------------------------------------------------------------------------
(* Counting operations and reservations.                                   *)

\* The sets that the invariant counts are finite, and a reservation is at
\* most the quota of every operation in progress.
Counts ==
    /\ IsFiniteSet(InOp)
    /\ Cardinality(InOp) \in Nat
    /\ IsFiniteSet(Reserved)
    /\ Cardinality(Reserved) \in Nat
    /\ Cardinality(Reserved) <= Cardinality(InOp) * OpQuota
    /\ \A p \in Procs : IsFiniteSet(wrote[p]) /\ Cardinality(wrote[p]) \in Nat

\* In every well-typed state the counted sets are finite.
LEMMA Finite == TypeOK => Counts
<1> SUFFICES ASSUME TypeOK PROVE Counts
  OBVIOUS
<1>1. IsFiniteSet(InOp)
  BY FiniteSystem, FS_Subset DEF InOp
<1>2. IsFiniteSet(1..OpQuota) /\ Cardinality(1..OpQuota) = OpQuota
  BY FS_Interval, LogSizes
<1>3. /\ IsFiniteSet(InOp \X (1..OpQuota))
      /\ Cardinality(InOp \X (1..OpQuota)) = Cardinality(InOp) * OpQuota
  BY <1>1, <1>2, FS_Product
<1>4. Reserved \subseteq InOp \X (1..OpQuota)
  BY DEF Reserved
<1>5. IsFiniteSet(Reserved) /\ Cardinality(Reserved) <= Cardinality(InOp) * OpQuota
  BY <1>3, <1>4, FS_Subset
<1>6. \A p \in Procs : IsFiniteSet(wrote[p])
  BY FiniteSystem, FS_Subset DEF TypeOK
<1> QED
  BY <1>1, <1>5, <1>6, FS_CardinalityType DEF Counts

\* An operation in progress is counted.
LEMMA Counted ==
    ASSUME IInv, NEW p \in InOp
    PROVE  outstanding >= 1 /\ phase = "run" /\ ~committing
<1>1. InOp # {} /\ Cardinality(InOp) # 0
  BY Finite, FS_EmptySet DEF IInv, Counts
<1> QED
  BY <1>1 DEF IInv, TypeOK, ThreadInv, Phases, Recovering

\* A logged header fits log.lh.block[].
LEMMA HeaderFits ==
    ASSUME IInv
    PROVE  Len(lh) <= LOGSIZE /\ Len(lh) \in Nat
<1>1. Len(lh) \in Nat
  BY DEF IInv, TypeOK
<1>2. CASE lh = <<>>
  BY <1>2, LogSizes
<1>3. CASE lh # <<>>
  BY <1>1, <1>3, Finite, LogSizes DEF IInv, SpaceInv, Counts
<1> QED
  BY <1>1, <1>2, <1>3

\* What begin_op reserves, MAXOPBLOCKS for each operation, covers the quotas.
LEMMA ReservationCovers ==
    ASSUME NEW n \in Nat, NEW q \in Nat, NEW m \in Nat, q <= m
    PROVE  (n + 1) * q + (m - q) <= (n + 1) * m
<1>1. PICK d \in Nat : m = q + d
  OBVIOUS
<1>2. (n + 1) * (q + d) = (n + 1) * q + n * d + d
  OBVIOUS
<1>3. n * d \in Nat /\ (n + 1) * q \in Nat
  OBVIOUS
<1> QED
  BY <1>1, <1>2, <1>3

-----------------------------------------------------------------------------
(* Every action preserves the invariant.                                   *)

\* begin_op preserves the invariant: the reservation fits the log.
LEMMA BeginOpInv ==
    ASSUME IInv, NEW p \in Procs, BeginOp(p)
    PROVE  IInv'
<1>1. TypeOK'
  <2>1. pc' \in [Procs -> PCs] /\ wrote' \in [Procs -> SUBSET Blocks]
    BY DEF IInv, TypeOK, BeginOp, PCs
  <2>2. outstanding' \in Nat
    BY DEF IInv, TypeOK, BeginOp
  <2> QED
    BY <2>1, <2>2, Zenon DEF IInv, TypeOK, BeginOp, diskVars, bufVars
<1>2. p \notin InOp
  BY DEF InOp, BeginOp
<1>3. CASE MustWait
  <2>1. InOp' = InOp /\ Reserved' = Reserved
    <3>1. InOp' = InOp
      BY <1>2, <1>3 DEF IInv, TypeOK, BeginOp, InOp
    <3> QED
      BY <1>3, <3>1 DEF BeginOp, Reserved
  <2>2. ThreadInv'
    BY <1>3, <2>1 DEF IInv, TypeOK, ThreadInv, BeginOp, Recovering
  <2>3. DiskInv'
    BY <1>3, <2>1 DEF IInv, DiskInv, BeginOp, Recovering, Absorbed, diskVars, bufVars
  <2>4. UpdatesPinned'
    BY <1>3 DEF IInv, UpdatesPinned, BeginOp, Logged, diskVars, bufVars
  <2>5. SpaceInv'
    BY <1>3, <2>1 DEF IInv, SpaceInv, BeginOp, diskVars
  <2> QED
    BY <1>1, <2>2, <2>3, <2>4, <2>5 DEF IInv
<1>4. CASE ~MustWait
  <2>1. InOp' = InOp \cup {p}
    BY <1>4 DEF IInv, TypeOK, BeginOp, InOp
  <2>2. outstanding' = outstanding + 1 /\ Cardinality(InOp') = outstanding + 1
    BY <1>2, <1>4, <2>1, Finite, FS_AddElement DEF IInv, BeginOp, ThreadInv, Counts
  <2>3. phase = "run" /\ ~committing
    BY <1>4 DEF MustWait, BeginOp, IInv, TypeOK, ThreadInv, Phases, Recovering
  <2>4. ThreadInv'
    <3>1. Cardinality({}) <= OpQuota
      BY FS_EmptySet, LogSizes
    <3> QED
      BY <1>4, <2>2, <2>3, <3>1
         DEF IInv, TypeOK, ThreadInv, BeginOp, Recovering, CommitPhases, RecoverPhases
  <2>5. DiskInv'
    BY <1>4, <2>1, <2>3
       DEF IInv, DiskInv, BeginOp, Recovering, RecoverPhases, Absorbed, diskVars, bufVars
  <2>6. UpdatesPinned'
    BY <1>4 DEF IInv, UpdatesPinned, BeginOp, Logged, diskVars, bufVars
  <2>7. SpaceInv'
    <3>0. Counts'
      BY <1>1, Finite, PTL
    <3>1. Cardinality(Reserved') <= (outstanding + 1) * OpQuota
      BY <2>2, <3>0 DEF Counts
    <3>2. Len(lh) + (outstanding + 1) * MAXOPBLOCKS <= LOGSIZE
      BY <1>4, LogSizes DEF MustWait, IInv, TypeOK
    <3>3. Cardinality(Reserved') \in Nat
      BY <3>0 DEF Counts
    <3>4. (outstanding + 1) * OpQuota + (MAXOPBLOCKS - OpQuota)
            <= (outstanding + 1) * MAXOPBLOCKS
      BY ReservationCovers, LogSizes DEF IInv, TypeOK
    <3>5. Len(lh) + Cardinality(Reserved') + (MAXOPBLOCKS - OpQuota) <= LOGSIZE
      <4> HIDE DEF Reserved
      <4> DEFINE x == (outstanding + 1) * OpQuota
                 y == (outstanding + 1) * MAXOPBLOCKS
                 z == Cardinality(Reserved')
      <4>1. x \in Nat /\ y \in Nat /\ z \in Nat /\ Len(lh) \in Nat
        BY <3>3, LogSizes DEF IInv, TypeOK
      <4> HIDE DEF x, y, z
      <4>2. z <= x /\ x + (MAXOPBLOCKS - OpQuota) <= y /\ Len(lh) + y <= LOGSIZE
        BY <3>1, <3>2, <3>4 DEF x, y, z
      <4>3. Len(lh) + z + (MAXOPBLOCKS - OpQuota) <= LOGSIZE
        BY <4>1, <4>2, LogSizes
      <4> QED
        BY <4>3 DEF z
    <3> QED
      BY <3>5 DEF IInv, SpaceInv, BeginOp, diskVars
  <2> QED
    BY <1>1, <2>4, <2>5, <2>6, <2>7 DEF IInv
<1> QED
  BY <1>3, <1>4

\* Entering log_write preserves the invariant.
LEMMA LogWriteCheckInv ==
    ASSUME IInv, ~panicked, NEW p \in Procs, NEW b \in Blocks, NEW v \in Vals,
           LogWriteCheck(p, b, v)
    PROVE  IInv'
<1>1. p \in InOp /\ b # NoBlock
  BY NoBlockIsNoBlock DEF LogWriteCheck, InOp
<1>2. phase = "run" /\ ~committing /\ outstanding >= 1
  BY <1>1, Counted
<1>3. cache' \in [Blocks -> Vals]
  BY DEF IInv, TypeOK, LogWriteCheck
<1>4. DiskInv'
  <2>1. InOp' = InOp
    BY <1>1 DEF IInv, TypeOK, LogWriteCheck, InOp, opVars
  <2> QED
    BY <1>2, <2>1 DEF IInv, DiskInv, LogWriteCheck, Recovering, RecoverPhases, Absorbed, diskVars
<1>5. CASE panicked'
  <2>1. UNCHANGED opVars
    BY <1>5 DEF LogWriteCheck
  <2>2. TypeOK'
    BY <1>3, <1>5, <2>1, Zenon DEF IInv, TypeOK, LogWriteCheck, diskVars, opVars
  <2>3. InOp' = InOp /\ Reserved' = Reserved
    BY <2>1 DEF InOp, Reserved, LogWriteCheck, opVars
  <2>4. ThreadInv'
    BY <2>1, <2>3 DEF IInv, ThreadInv, LogWriteCheck, opVars, Recovering
  <2>5. UpdatesPinned'
    BY <1>5 DEF UpdatesPinned
  <2>6. SpaceInv'
    BY <2>3 DEF IInv, SpaceInv, LogWriteCheck, diskVars
  <2> QED
    BY <1>4, <2>2, <2>4, <2>5, <2>6 DEF IInv
<1>6. CASE ~panicked'
  <2>1. /\ pc' = [pc EXCEPT ![p] = "logging"]
        /\ pend' = [pend EXCEPT ![p] = b]
        /\ wrote' = [wrote EXCEPT ![p] = @ \cup {b}]
        /\ UNCHANGED panicked
    BY <1>6 DEF LogWriteCheck
  <2>2. TypeOK'
    <3>1. /\ pc' \in [Procs -> PCs]
          /\ pend' \in [Procs -> Blocks \cup {NoBlock}]
          /\ wrote' \in [Procs -> SUBSET Blocks]
      BY <2>1 DEF IInv, TypeOK, PCs
    <3> QED
      BY <1>3, <2>1, <3>1, Zenon DEF IInv, TypeOK, LogWriteCheck, diskVars
  <2>3. InOp' = InOp
    BY <1>1, <2>1 DEF IInv, TypeOK, InOp
  <2>4. ThreadInv'
    BY <1>1, <1>2, <2>1, <2>3
       DEF IInv, TypeOK, ThreadInv, LogWriteCheck, Recovering, CommitPhases, RecoverPhases
  <2>5. UpdatesPinned'
    <3> SUFFICES ASSUME NEW c \in Blocks
                 PROVE  \/ cache'[c] = disk'[c]
                        \/ c \in dirty' /\ c \in Logged(lh')
                        \/ \E q \in Procs : pend'[q] = c
      BY DEF UpdatesPinned
    <3>1. UNCHANGED <<disk, dirty, lh>>
      BY DEF LogWriteCheck, diskVars
    <3>2. CASE c = b
      BY <2>1, <3>2 DEF IInv, TypeOK
    <3>3. CASE c # b
      <4>1. cache'[c] = cache[c]
        BY <3>3 DEF IInv, TypeOK, LogWriteCheck
      <4>2. ASSUME NEW q \in Procs, pend[q] = c PROVE pend'[q] = c
        <5>1. q # p
          BY <4>2, NoBlockIsNoBlock DEF IInv, ThreadInv, LogWriteCheck
        <5> QED
          BY <2>1, <4>2, <5>1 DEF IInv, TypeOK
      <4> QED
        BY <3>1, <4>1, <4>2 DEF IInv, UpdatesPinned
    <3> QED
      BY <3>2, <3>3
  <2>6. SpaceInv'
    <3>1. UNCHANGED lh /\ UNCHANGED dhead
      BY DEF LogWriteCheck, diskVars
    <3>2. \A q \in Procs : /\ Cardinality(wrote[q] \cap Logged(lh))
                               <= Cardinality(wrote'[q] \cap Logged(lh))
                          /\ Cardinality(wrote[q] \cap Logged(lh)) \in Nat
                          /\ Cardinality(wrote'[q] \cap Logged(lh)) \in Nat
      <4> TAKE q \in Procs
      <4>1. wrote[q] \cap Logged(lh) \subseteq wrote'[q] \cap Logged(lh)
        BY <2>1 DEF IInv, TypeOK
      <4>2. wrote'[q] \cap Logged(lh) \subseteq Blocks
        BY <2>2 DEF TypeOK
      <4> QED
        BY <4>1, <4>2, FS_Subset, FS_CardinalityType, FiniteSystem
    <3>3. Reserved' \subseteq Reserved
      <4> SUFFICES ASSUME NEW q \in InOp, NEW n \in 1..OpQuota,
                          n <= OpQuota - Cardinality(wrote'[q] \cap Logged(lh))
                   PROVE  n <= OpQuota - Cardinality(wrote[q] \cap Logged(lh))
        BY <2>3, <3>1 DEF Reserved
      <4>1. q \in Procs
        BY DEF InOp
      <4> DEFINE x == Cardinality(wrote[q] \cap Logged(lh))
                 y == Cardinality(wrote'[q] \cap Logged(lh))
      <4>2. x \in Nat /\ y \in Nat /\ x <= y
        BY <3>2, <4>1
      <4>3. n <= OpQuota - y
        OBVIOUS
      <4> HIDE DEF x, y
      <4>4. n <= OpQuota - x
        BY <4>2, <4>3, LogSizes
      <4> QED
        BY <4>4 DEF x
    <3>4. Cardinality(Reserved') <= Cardinality(Reserved) /\ Cardinality(Reserved') \in Nat
      BY <3>3, Finite, FS_Subset, FS_CardinalityType DEF IInv, Counts
    <3> QED
      BY <2>3, <3>1, <3>4, Finite, LogSizes DEF IInv, TypeOK, SpaceInv, Counts
  <2> QED
    BY <1>4, <2>2, <2>4, <2>5, <2>6 DEF IInv
<1> QED
  BY <1>5, <1>6

\* A block that is new to the header uses up one reservation of its writer.
LEMMA RecordUsesReservation ==
    ASSUME IInv, NEW p \in Procs, LogWriteRecord(p), pend[p] \notin Logged(lh)
    PROVE  /\ Cardinality(Reserved') \in Nat
           /\ Cardinality(Reserved') + 1 <= Cardinality(Reserved)
<1> DEFINE b == pend[p]
           old(q) == Cardinality(wrote[q] \cap Logged(lh))
           new(q) == Cardinality(wrote[q] \cap Logged(lh'))
<1>1. b \in wrote[p] /\ b \in Blocks /\ p \in InOp
  BY DEF LogWriteRecord, IInv, TypeOK, ThreadInv, InOp
<1>2. Logged(lh') = Logged(lh) \cup {b}
  BY <1>1, AppendLogged DEF LogWriteRecord, IInv, TypeOK
<1>3. InOp' = InOp /\ wrote' = wrote
  BY <1>1 DEF LogWriteRecord, IInv, TypeOK, InOp
<1>4. \A q \in Procs : old(q) \in Nat /\ new(q) \in Nat /\ old(q) <= new(q)
  <2> TAKE q \in Procs
  <2>1. /\ wrote[q] \cap Logged(lh) \subseteq wrote[q] \cap Logged(lh')
        /\ wrote[q] \cap Logged(lh') \subseteq Blocks
    BY <1>2 DEF IInv, TypeOK
  <2> QED
    BY <2>1, FS_Subset, FS_CardinalityType, FiniteSystem
<1>5. new(p) = old(p) + 1
  <2>1. /\ wrote[p] \cap Logged(lh') = (wrote[p] \cap Logged(lh)) \cup {b}
        /\ b \notin wrote[p] \cap Logged(lh)
        /\ wrote[p] \cap Logged(lh) \subseteq Blocks
    BY <1>1, <1>2 DEF IInv, TypeOK
  <2>2. IsFiniteSet(wrote[p] \cap Logged(lh))
    BY <2>1, FS_Subset, FiniteSystem
  <2> QED
    BY <2>1, <2>2, FS_AddElement
<1>6. new(p) <= OpQuota
  <2>1. IsFiniteSet(wrote[p]) /\ wrote[p] \cap Logged(lh') \subseteq wrote[p]
    BY Finite DEF IInv, Counts
  <2>2. new(p) <= Cardinality(wrote[p]) /\ Cardinality(wrote[p]) \in Nat
    BY <2>1, FS_Subset, FS_CardinalityType
  <2>3. Cardinality(wrote[p]) <= OpQuota
    BY DEF IInv, ThreadInv
  <2>4. new(p) \in Nat
    BY <1>4
  <2> DEFINE m == Cardinality(wrote[p])
  <2>5. m \in Nat /\ new(p) <= m /\ m <= OpQuota
    BY <2>2, <2>3
  <2> HIDE DEF new, m
  <2> QED
    BY <2>4, <2>5, LogSizes
<1> DEFINE n == OpQuota - old(p)
<1> HIDE DEF old, new, b
<1>7. n \in 1..OpQuota /\ ~(n <= OpQuota - new(p))
  BY <1>4, <1>5, <1>6, LogSizes
<1>8. Reserved = {r \in InOp \X (1..OpQuota) : r[2] <= OpQuota - old(r[1])}
  BY DEF Reserved, old
<1>9. Reserved' = {r \in InOp \X (1..OpQuota) : r[2] <= OpQuota - new(r[1])}
  BY <1>3 DEF Reserved, new
<1>10. <<p, n>> \in Reserved /\ <<p, n>> \notin Reserved'
  <2>1. n <= OpQuota - old(p)
    BY <1>4, LogSizes
  <2> QED
    BY <1>1, <1>7, <1>8, <1>9, <2>1
<1>11. Reserved' \subseteq Reserved
  <2> SUFFICES ASSUME NEW q \in InOp, NEW i \in 1..OpQuota, i <= OpQuota - new(q)
               PROVE  i <= OpQuota - old(q)
    BY <1>8, <1>9
  <2>1. q \in Procs
    BY DEF InOp
  <2> QED
    BY <1>4, <2>1, LogSizes
<1>12. Reserved' \subseteq Reserved \ {<<p, n>>}
  BY <1>10, <1>11
<1>13. /\ IsFiniteSet(Reserved \ {<<p, n>>})
       /\ Cardinality(Reserved \ {<<p, n>>}) = Cardinality(Reserved) - 1
       /\ Cardinality(Reserved) \in Nat
  BY <1>10, Finite, FS_RemoveElement DEF IInv, Counts
<1>14. /\ Cardinality(Reserved') <= Cardinality(Reserved \ {<<p, n>>})
       /\ Cardinality(Reserved') \in Nat
  BY <1>12, <1>13, FS_Subset, FS_CardinalityType
<1> QED
  BY <1>13, <1>14

\* The locked half of log_write preserves the invariant.
LEMMA LogWriteRecordInv ==
    ASSUME IInv, ~panicked, NEW p \in Procs, LogWriteRecord(p)
    PROVE  IInv'
<1> DEFINE b == pend[p]
<1>1. b \in Blocks /\ p \in InOp
  BY DEF LogWriteRecord, IInv, TypeOK, ThreadInv, InOp
<1>2. phase = "run" /\ ~committing /\ outstanding >= 1
  BY <1>1, Counted
<1>3. InOp' = InOp
  BY <1>1 DEF LogWriteRecord, IInv, TypeOK, InOp
<1>4. lh' \in Seq(Blocks) /\ Absorbed(lh') /\ Logged(lh') = Logged(lh) \cup {b}
  <2>1. CASE b \in Logged(lh)
    BY <2>1 DEF LogWriteRecord, IInv, TypeOK, DiskInv
  <2>2. CASE b \notin Logged(lh)
    BY <1>1, <2>2, AppendLogged, AppendAbsorbed DEF LogWriteRecord, IInv, TypeOK, DiskInv
  <2> QED
    BY <2>1, <2>2
<1>5. TypeOK'
  <2>1. /\ pc' \in [Procs -> PCs]
        /\ pend' \in [Procs -> Blocks \cup {NoBlock}]
        /\ dirty' \in SUBSET Blocks
    BY <1>1 DEF LogWriteRecord, IInv, TypeOK, PCs
  <2> QED
    BY <1>4, <2>1, Zenon DEF IInv, TypeOK, LogWriteRecord, diskVars
<1>6. ThreadInv'
  BY <1>1, <1>2, <1>3
     DEF LogWriteRecord, IInv, TypeOK, ThreadInv, Recovering, CommitPhases, RecoverPhases
<1>7. DiskInv'
  BY <1>1, <1>2, <1>3, <1>4
     DEF IInv, DiskInv, LogWriteRecord, Recovering, RecoverPhases, Absorbed, diskVars
<1>8. UpdatesPinned'
  <2> SUFFICES ASSUME NEW c \in Blocks
               PROVE  \/ cache'[c] = disk'[c]
                      \/ c \in dirty' /\ c \in Logged(lh')
                      \/ \E q \in Procs : pend'[q] = c
    BY DEF UpdatesPinned
  <2>1. UNCHANGED <<disk, cache>> /\ dirty' = dirty \cup {b}
    BY DEF LogWriteRecord, diskVars
  <2>2. ASSUME NEW q \in Procs, pend[q] = c, c # b PROVE pend'[q] = c
    BY <2>2 DEF LogWriteRecord, IInv, TypeOK
  <2> HIDE DEF b
  <2> QED
    BY <1>4, <2>1, <2>2 DEF IInv, UpdatesPinned
<1>9. SpaceInv'
  <2>1. UNCHANGED dhead
    BY DEF LogWriteRecord, diskVars
  <2>2. CASE b \in Logged(lh)
    <3>1. UNCHANGED <<lh, Reserved>>
      BY <1>3, <2>2 DEF LogWriteRecord, Reserved
    <3> QED
      BY <1>3, <2>1, <3>1 DEF IInv, SpaceInv
  <2>3. CASE b \notin Logged(lh)
    <3>1. Len(lh') = Len(lh) + 1 /\ Len(lh) \in Nat
      BY <1>1, <2>3, AppendLogged DEF LogWriteRecord, IInv, TypeOK
    <3>2. /\ Cardinality(Reserved') \in Nat /\ Cardinality(Reserved) \in Nat
          /\ Cardinality(Reserved') + 1 <= Cardinality(Reserved)
      BY <2>3, RecordUsesReservation, Finite DEF IInv, Counts
    <3>3. Len(lh) + Cardinality(Reserved) + (MAXOPBLOCKS - OpQuota) <= LOGSIZE
      BY <1>1 DEF IInv, SpaceInv
    <3>4. Len(lh') + Cardinality(Reserved') + (MAXOPBLOCKS - OpQuota) <= LOGSIZE
      BY <3>1, <3>2, <3>3, LogSizes
    <3> QED
      BY <2>1, <3>4 DEF IInv, SpaceInv
  <2> QED
    BY <2>2, <2>3
<1> QED
  BY <1>5, <1>6, <1>7, <1>8, <1>9 DEF IInv

\* end_op preserves the invariant and never meets a running commit.
LEMMA EndOpInv ==
    ASSUME IInv, ~panicked, NEW p \in Procs, EndOp(p)
    PROVE  IInv' /\ ~panicked'
<1>1. p \in InOp
  BY DEF EndOp, InOp
<1>2. phase = "run" /\ ~committing /\ outstanding >= 1
  BY <1>1, Counted
<1>3. InOp' = InOp \ {p}
  BY <1>2 DEF EndOp, IInv, TypeOK, InOp, Wakeup
<1>4. outstanding' = outstanding - 1 /\ outstanding' \in Nat
  BY <1>2 DEF EndOp, IInv, TypeOK
<1>5. Cardinality(InOp') = outstanding'
  BY <1>1, <1>3, <1>4, Finite, FS_RemoveElement DEF IInv, ThreadInv, Counts
<1>6. IsFiniteSet(InOp')
  BY <1>1, <1>3, Finite, FS_RemoveElement DEF IInv, Counts
<1>7. outstanding' = 0 <=> InOp' = {}
  BY <1>5, <1>6, FS_EmptySet
<1>8. /\ ~panicked'
      /\ UNCHANGED <<disk, dlog, dhead, cache, dirty, lh, pend, wrote, panicked>>
  BY <1>2 DEF EndOp, diskVars, bufVars
<1>9. \A q \in Procs : q # p /\ pc[q] # "asleep" => pc'[q] = pc[q]
  BY <1>2 DEF EndOp, IInv, TypeOK, Wakeup
<1>10. \A q \in Procs : pc[q] # "commit" /\ (q # p => pc'[q] # "commit")
  <2> TAKE q \in Procs
  <2>1. pc[q] # "commit"
    BY <1>2 DEF IInv, ThreadInv
  <2> QED
    BY <1>2, <2>1 DEF EndOp, IInv, TypeOK, Wakeup
<1>11. pc' \in [Procs -> PCs]
  BY <1>2 DEF EndOp, IInv, TypeOK, Wakeup, PCs
<1>12. /\ committing' \in BOOLEAN /\ phase' \in Phases /\ tail' \in Nat
       /\ (committing' <=> phase' \in CommitPhases)
       /\ ~Recovering'
  <2>1. CASE outstanding' = 0
    <3>1. committing' = TRUE /\ tail' = 0 /\ phase' \in {"writelog", "done"}
      BY <1>2, <2>1 DEF EndOp
    <3> QED
      BY <3>1 DEF Phases, CommitPhases, Recovering, RecoverPhases
  <2>2. CASE outstanding' # 0
    <3>1. UNCHANGED <<committing, tail, phase>>
      BY <1>2, <2>2 DEF EndOp
    <3>2. /\ committing \in BOOLEAN /\ phase \in Phases /\ tail \in Nat
          /\ committing <=> phase \in CommitPhases
      BY DEF IInv, TypeOK, ThreadInv
    <3>3. ~Recovering'
      BY <1>2, <3>1 DEF Recovering, RecoverPhases
    <3> QED
      BY <3>1, <3>2, <3>3, Zenon
  <2> QED
    BY <2>1, <2>2
<1>13. TypeOK'
  BY <1>4, <1>8, <1>11, <1>12, Zenon DEF IInv, TypeOK
<1>14. ThreadInv'
  <2>1. committing' => InOp' = {}
    BY <1>2, <1>7 DEF EndOp
  <2>2. \A q \in Procs : pc'[q] = "commit" => q = p /\ committing'
    BY <1>2, <1>10 DEF EndOp, IInv, TypeOK, Wakeup
  <2>3. \A q \in Procs : pc'[q] = "logging" <=> pend[q] # NoBlock
    <3> TAKE q \in Procs
    <3>1. pc[q] = "logging" <=> pend[q] # NoBlock
      BY DEF IInv, ThreadInv
    <3> QED
      BY <1>2, <3>1 DEF EndOp, IInv, TypeOK, Wakeup
  <2> QED
    BY <1>5, <1>8, <1>12, <2>1, <2>2, <2>3 DEF IInv, ThreadInv
<1>15. DiskInv'
  <2>1. CASE outstanding' = 0
    BY <1>2, <1>8, <2>1
       DEF EndOp, IInv, TypeOK, DiskInv, Recovering, RecoverPhases, Absorbed
  <2>2. CASE outstanding' # 0
    BY <1>2, <1>7, <1>8, <2>2
       DEF EndOp, IInv, TypeOK, DiskInv, Recovering, RecoverPhases, Absorbed
  <2> QED
    BY <2>1, <2>2
<1>16. UpdatesPinned'
  BY <1>8 DEF IInv, UpdatesPinned, Logged
<1>17. SpaceInv'
  <2>1. Reserved' \subseteq Reserved
    BY <1>3, <1>8 DEF Reserved
  <2>2. /\ Cardinality(Reserved') <= Cardinality(Reserved)
        /\ Cardinality(Reserved') \in Nat /\ Cardinality(Reserved) \in Nat
    BY <2>1, Finite, FS_Subset, FS_CardinalityType DEF IInv, Counts
  <2>3. Len(lh) \in Nat
    BY DEF IInv, TypeOK
  <2> QED
    BY <1>1, <1>8, <2>2, <2>3, LogSizes DEF IInv, SpaceInv
<1> QED
  BY <1>8, <1>13, <1>14, <1>15, <1>16, <1>17 DEF IInv

\* While a commit or a recovery runs, no operation holds a reservation.
LEMMA QuietReserved ==
    ASSUME IInv, phase # "run"
    PROVE  InOp = {} /\ Reserved = {} /\ Cardinality(Reserved) = 0
<1>1. InOp = {}
  BY DEF IInv, TypeOK, ThreadInv, Phases, Recovering
<1> QED
  BY <1>1, FS_EmptySet DEF Reserved

\* Steps of the committer leave the threads alone.
LEMMA LogStepThreads ==
    ASSUME IInv, UNCHANGED <<outstanding, committing, pc, pend, wrote>>,
           phase \in CommitPhases <=> phase' \in CommitPhases,
           Recovering' => Recovering
    PROVE  ThreadInv' /\ InOp' = InOp
BY DEF IInv, ThreadInv, InOp

\* A round of write_log preserves the invariant.
LEMMA WriteLogInv ==
    ASSUME IInv, WriteLog
    PROVE  IInv'
<1>1. UNCHANGED <<disk, dhead, cache, dirty, lh, outstanding, committing, pc,
                  pend, wrote, panicked>>
  BY DEF WriteLog, bufVars, opVars
<1>2. Len(lh) \in 0..LOGSIZE
  BY HeaderFits, LogSizes
<1>3. TypeOK'
  <2>1. tail' \in Nat /\ phase' \in Phases /\ dlog' \in [Slots -> Vals]
    BY DEF WriteLog, IInv, TypeOK, Phases, CommitPhases
  <2> QED
    BY <1>1, <2>1, Zenon DEF IInv, TypeOK
<1>4. ThreadInv' /\ InOp' = InOp
  BY <1>1, LogStepThreads DEF WriteLog, CommitPhases, Recovering, RecoverPhases
<1>5. DiskInv'
  <2>1. CASE tail < Len(lh)
    <3>1. /\ dlog' = [dlog EXCEPT ![tail + 1] = cache[lh[tail + 1]]]
          /\ tail' = tail + 1
          /\ phase = "writelog" /\ phase' = "writelog"
      BY <2>1 DEF WriteLog
    <3>2. tail + 1 \in Slots
      BY <1>2, <2>1, LogSizes DEF IInv, TypeOK, Slots
    <3>3. \A i \in 1..Len(lh) : i <= tail' => dlog'[i] = cache'[lh'[i]]
      <4> TAKE i \in 1..Len(lh)
      <4>1. CASE i = tail + 1
        BY <1>1, <3>1, <3>2, <4>1 DEF IInv, TypeOK
      <4>2. CASE i # tail + 1
        BY <1>1, <3>1, <4>2 DEF IInv, TypeOK, DiskInv
      <4> QED
        BY <4>1, <4>2
    <3> QED
      BY <1>1, <3>1, <3>3 DEF IInv, DiskInv, Recovering, RecoverPhases, Absorbed
  <2>2. CASE ~(tail < Len(lh))
    <3>1. phase = "writelog" /\ phase' = "writehead" /\ UNCHANGED <<dlog, tail>>
      BY <2>2 DEF WriteLog
    <3>2. \A i \in 1..Len(lh) : dlog[i] = cache[lh[i]]
      BY <1>2, <2>2, <3>1 DEF IInv, TypeOK, DiskInv
    <3> QED
      BY <1>1, <3>1, <3>2 DEF IInv, DiskInv, Recovering, RecoverPhases, Absorbed
  <2> QED
    BY <2>1, <2>2
<1>6. UpdatesPinned' /\ SpaceInv'
  <2>1. UNCHANGED Reserved
    BY <1>1, <1>4 DEF Reserved
  <2> QED
    BY <1>1, <1>4, <2>1 DEF IInv, UpdatesPinned, SpaceInv, Logged
<1> QED
  BY <1>3, <1>4, <1>5, <1>6 DEF IInv

\* Writing the header preserves the invariant.
LEMMA WriteHeadInv ==
    ASSUME IInv, WriteHead
    PROVE  IInv'
<1>1. /\ phase = "writehead" /\ phase' = "install"
      /\ dhead' = lh /\ tail' = 0
      /\ UNCHANGED <<disk, dlog, cache, dirty, lh, outstanding, committing, pc,
                     pend, wrote, panicked>>
  BY DEF WriteHead, bufVars, opVars
<1>2. TypeOK'
  <2>1. tail' \in Nat /\ phase' \in Phases
    BY <1>1 DEF Phases, CommitPhases
  <2> QED
    BY <1>1, <2>1, Zenon DEF IInv, TypeOK
<1>3. ThreadInv' /\ InOp' = InOp
  BY <1>1, LogStepThreads DEF CommitPhases, Recovering, RecoverPhases
<1>4. DiskInv'
  BY <1>1 DEF IInv, DiskInv, Recovering, RecoverPhases, Absorbed
<1>5. UpdatesPinned'
  BY <1>1 DEF IInv, UpdatesPinned, Logged
<1>6. SpaceInv'
  <2>1. Reserved' = Reserved /\ Cardinality(Reserved) = 0
    BY <1>1, <1>3, QuietReserved DEF Reserved
  <2>2. Len(lh) \in Nat
    BY DEF IInv, TypeOK
  <2> QED
    BY <1>1, <1>3, <2>1, <2>2, LogSizes DEF IInv, SpaceInv
<1> QED
  BY <1>2, <1>3, <1>4, <1>5, <1>6 DEF IInv

\* A round of install_trans preserves the invariant.
LEMMA InstallTransInv ==
    ASSUME IInv, InstallTrans
    PROVE  IInv'
<1>1. UNCHANGED <<dlog, dhead, lh, outstanding, committing, pc, pend, wrote, panicked>>
  BY DEF InstallTrans, opVars
<1>2. Len(lh) \in 0..LOGSIZE
  BY HeaderFits, LogSizes
<1>3. tail < Len(lh) => tail + 1 \in Slots /\ tail + 1 \in 1..Len(lh)
  BY <1>2, LogSizes DEF IInv, TypeOK, Slots
<1>4. phase' \in Phases
  BY DEF InstallTrans, IInv, TypeOK, Phases, CommitPhases, RecoverPhases
<1>5. TypeOK'
  <2>1. tail' \in Nat
    BY DEF InstallTrans, IInv, TypeOK
  <2>2. CASE tail < Len(lh)
    <3>1. lh[tail + 1] \in Blocks /\ dlog[tail + 1] \in Vals
      BY <1>3, <2>2 DEF IInv, TypeOK
    <3>2. disk' \in [Blocks -> Vals] /\ cache' \in [Blocks -> Vals] /\ dirty' \in SUBSET Blocks
      BY <2>2, <3>1 DEF InstallTrans, IInv, TypeOK
    <3> QED
      BY <1>1, <1>4, <2>1, <3>2, Zenon DEF IInv, TypeOK
  <2>3. CASE ~(tail < Len(lh))
    <3>1. UNCHANGED <<disk, cache, dirty>>
      BY <2>3 DEF InstallTrans, bufVars
    <3> QED
      BY <1>1, <1>4, <2>1, <3>1, Zenon DEF IInv, TypeOK
  <2> QED
    BY <2>2, <2>3
<1>6. ThreadInv' /\ InOp' = InOp
  BY <1>1, LogStepThreads DEF InstallTrans, CommitPhases, Recovering, RecoverPhases
<1>7. DiskInv' /\ UpdatesPinned'
  <2>1. CASE tail < Len(lh)
    <3> DEFINE c == lh[tail + 1]
               d == dlog[tail + 1]
    <3>1. /\ disk' = [disk EXCEPT ![c] = d]
          /\ cache' = [cache EXCEPT ![c] = d]
          /\ dirty' = dirty \ {c}
          /\ tail' = tail + 1
          /\ phase' = phase
          /\ phase \in {"install", "rinstall"}
      BY <2>1 DEF InstallTrans
    <3>2. c \in Blocks
      BY <1>3, <2>1 DEF IInv, TypeOK
    <3>3. \A i \in 1..Len(lh) : lh[i] \in Blocks /\ (lh[i] = c => i = tail + 1)
      BY <1>3, <2>1 DEF IInv, TypeOK, DiskInv, Absorbed
    <3>4. \A i \in 1..Len(lh) : i <= tail + 1 => disk'[lh[i]] = dlog[i]
      <4> TAKE i \in 1..Len(lh)
      <4>1. CASE i = tail + 1
        BY <3>1, <3>2, <4>1 DEF IInv, TypeOK
      <4>2. CASE i # tail + 1
        BY <3>1, <3>3, <4>2 DEF IInv, TypeOK, DiskInv
      <4> QED
        BY <4>1, <4>2
    <3>5. phase = "install" => \A i \in 1..Len(lh) : dlog[i] = cache'[lh[i]]
      <4> SUFFICES ASSUME phase = "install", NEW i \in 1..Len(lh)
                   PROVE  dlog[i] = cache'[lh[i]]
        OBVIOUS
      <4>1. CASE i = tail + 1
        BY <3>1, <3>2, <4>1 DEF IInv, TypeOK
      <4>2. CASE i # tail + 1
        BY <3>1, <3>3, <4>2 DEF IInv, TypeOK, DiskInv
      <4> QED
        BY <4>1, <4>2
    <3>6. Recovering => cache' = disk'
      BY <3>1 DEF IInv, DiskInv
    <3>7. DiskInv'
      <4> HIDE DEF c, d
      <4> QED
        BY <1>1, <3>1, <3>4, <3>5, <3>6
           DEF IInv, TypeOK, DiskInv, Recovering, RecoverPhases, Absorbed
    <3>8. UpdatesPinned'
      <4> SUFFICES ASSUME NEW b \in Blocks
                   PROVE  \/ panicked'
                          \/ cache'[b] = disk'[b]
                          \/ b \in dirty' /\ b \in Logged(lh')
                          \/ \E p \in Procs : pend'[p] = b
        BY DEF UpdatesPinned
      <4>1. CASE b = c
        BY <3>1, <3>2, <4>1 DEF IInv, TypeOK
      <4>2. CASE b # c
        <5>1. cache'[b] = cache[b] /\ disk'[b] = disk[b] /\ (b \in dirty => b \in dirty')
          BY <3>1, <4>2 DEF IInv, TypeOK
        <5> QED
          BY <1>1, <5>1 DEF IInv, UpdatesPinned
      <4> QED
        BY <4>1, <4>2
    <3> QED
      BY <3>7, <3>8
  <2>2. CASE ~(tail < Len(lh))
    <3>1. /\ phase \in {"install", "rinstall"}
          /\ phase' = IF phase = "install" THEN "clear" ELSE "rclear"
          /\ UNCHANGED <<disk, cache, dirty, tail>>
      BY <2>2 DEF InstallTrans, bufVars
    <3>2. \A i \in 1..Len(lh) : disk[lh[i]] = dlog[i]
      BY <1>2, <2>2, <3>1 DEF IInv, TypeOK, DiskInv
    <3>3. DiskInv'
      BY <1>1, <3>1, <3>2 DEF IInv, DiskInv, Recovering, RecoverPhases, Absorbed
    <3> QED
      BY <1>1, <3>1, <3>3 DEF IInv, UpdatesPinned, Logged
  <2> QED
    BY <2>1, <2>2
<1>8. SpaceInv'
  <2>1. UNCHANGED Reserved
    BY <1>1, <1>6 DEF Reserved
  <2> QED
    BY <1>1, <1>6, <2>1 DEF IInv, SpaceInv
<1> QED
  BY <1>5, <1>6, <1>7, <1>8 DEF IInv

\* Erasing the transaction preserves the invariant.
LEMMA ClearHeadInv ==
    ASSUME IInv, ~panicked, ClearHead
    PROVE  IInv'
<1>1. /\ phase \in {"clear", "rclear"}
      /\ phase' = IF phase = "clear" THEN "done" ELSE "run"
      /\ lh' = <<>> /\ dhead' = <<>>
      /\ UNCHANGED <<disk, dlog, cache, dirty, outstanding, committing, tail, pc,
                     pend, wrote, panicked>>
  BY DEF ClearHead, bufVars, opVars
<1>2. TypeOK'
  <2>1. phase' \in Phases /\ lh' \in Seq(Blocks) /\ dhead' \in Seq(Blocks)
    BY <1>1 DEF Phases, CommitPhases
  <2> QED
    BY <1>1, <2>1, Zenon DEF IInv, TypeOK
<1>3. ThreadInv' /\ InOp' = InOp
  BY <1>1, LogStepThreads DEF CommitPhases, Recovering, RecoverPhases
<1>4. DiskInv'
  BY <1>1 DEF IInv, DiskInv, Recovering, RecoverPhases, Absorbed
<1>5. \A b \in Blocks : cache[b] = disk[b] \/ \E p \in Procs : pend[p] = b
  <2> TAKE b \in Blocks
  <2>1. CASE phase = "rclear"
    BY <2>1 DEF IInv, DiskInv, Recovering, RecoverPhases
  <2>2. CASE phase = "clear"
    <3>1. b \in Logged(lh) => cache[b] = disk[b]
      BY <2>2 DEF IInv, DiskInv, Logged
    <3> QED
      BY <3>1 DEF IInv, UpdatesPinned
  <2> QED
    BY <1>1, <2>1, <2>2
<1>6. UpdatesPinned'
  BY <1>1, <1>5 DEF UpdatesPinned
<1>7. SpaceInv'
  BY <1>1, <1>3, QuietReserved DEF IInv, SpaceInv
<1> QED
  BY <1>2, <1>3, <1>4, <1>6, <1>7 DEF IInv

\* Leaving end_op after a commit preserves the invariant.
LEMMA CommitDoneInv ==
    ASSUME IInv, NEW p \in Procs, CommitDone(p)
    PROVE  IInv'
<1>1. /\ phase = "done" /\ phase' = "run" /\ pc[p] = "commit"
      /\ committing' = FALSE
      /\ pc' = [q \in Procs |-> IF q = p THEN "idle"
                                ELSE IF pc[q] = "asleep" THEN "begin" ELSE pc[q]]
      /\ UNCHANGED <<disk, dlog, dhead, cache, dirty, lh, outstanding, tail, pend,
                     wrote, panicked>>
  BY DEF CommitDone, Wakeup, IInv, TypeOK, diskVars, bufVars
<1>2. InOp = {} /\ InOp' = {}
  BY <1>1, QuietReserved DEF InOp
<1>3. TypeOK'
  <2>1. phase' \in Phases /\ pc' \in [Procs -> PCs]
    BY <1>1 DEF Phases, IInv, TypeOK, PCs
  <2> QED
    BY <1>1, <2>1, Zenon DEF IInv, TypeOK
<1>4. ThreadInv'
  <2>1. \A q \in Procs : pc'[q] # "commit"
    BY <1>1 DEF IInv, ThreadInv
  <2>2. \A q \in Procs : pc'[q] = "logging" <=> pc[q] = "logging"
    BY <1>1
  <2>3. ~Recovering' /\ phase' \notin CommitPhases
    BY <1>1 DEF Recovering, RecoverPhases, CommitPhases
  <2> QED
    BY <1>1, <1>2, <2>1, <2>2, <2>3 DEF IInv, ThreadInv
<1>5. DiskInv'
  BY <1>1 DEF IInv, DiskInv, Recovering, RecoverPhases, Absorbed
<1>6. UpdatesPinned'
  BY <1>1 DEF IInv, UpdatesPinned, Logged
<1>7. SpaceInv'
  BY <1>1, <1>2 DEF IInv, SpaceInv, DiskInv
<1> QED
  BY <1>3, <1>4, <1>5, <1>6, <1>7 DEF IInv

\* Recycling a buffer is invisible: bread finds on the disk what was cached.
LEMMA RecycleInvisible ==
    ASSUME IInv, ~panicked, NEW b \in Blocks, Recycle(b)
    PROVE  UNCHANGED vars
<1>1. cache[b] = disk[b]
  BY DEF IInv, UpdatesPinned, Recycle
<1>2. cache' = cache
  BY <1>1 DEF Recycle, IInv, TypeOK
<1> QED
  BY <1>2 DEF Recycle, vars, diskVars, opVars

\* A power failure preserves the invariant.
LEMMA CrashInv ==
    ASSUME IInv, Crash
    PROVE  IInv'
<1>1. /\ lh' = <<>> /\ dirty' = {} /\ cache' = disk /\ phase' = "rhead"
      /\ outstanding' = 0 /\ committing' = FALSE /\ tail' = 0 /\ panicked' = FALSE
      /\ UNCHANGED <<disk, dlog, dhead>>
  BY DEF Crash, diskVars
<1>2. \A p \in Procs : pc'[p] = "idle" /\ pend'[p] = NoBlock /\ wrote'[p] = {}
  BY DEF Crash
<1>3. InOp' = {}
  BY <1>2 DEF InOp
<1>4. TypeOK'
  <2>1. /\ pc' \in [Procs -> PCs]
        /\ pend' \in [Procs -> Blocks \cup {NoBlock}]
        /\ wrote' \in [Procs -> SUBSET Blocks]
    BY DEF Crash, PCs
  <2>2. lh' \in Seq(Blocks) /\ tail' \in Nat /\ outstanding' \in Nat
    BY <1>1
  <2>3. phase' \in Phases
    BY <1>1 DEF Phases, RecoverPhases
  <2> QED
    BY <1>1, <2>1, <2>2, <2>3, Zenon DEF IInv, TypeOK
<1>5. ThreadInv'
  <2>1. Cardinality(InOp') = 0 /\ Cardinality({}) <= OpQuota
    BY <1>3, FS_EmptySet, LogSizes
  <2>2. \A p \in Procs : Cardinality(wrote'[p]) <= OpQuota
    BY <1>2, <2>1
  <2>3. committing' = FALSE /\ phase' \notin CommitPhases
    BY <1>1 DEF CommitPhases
  <2> QED
    BY <1>1, <1>2, <1>3, <2>1, <2>2, <2>3 DEF ThreadInv
<1>6. DiskInv'
  BY <1>1 DEF IInv, DiskInv, Absorbed
<1>7. UpdatesPinned' /\ SpaceInv'
  BY <1>1, <1>3 DEF IInv, UpdatesPinned, SpaceInv
<1> QED
  BY <1>4, <1>5, <1>6, <1>7 DEF IInv

\* Reading the header at boot preserves the invariant.
LEMMA ReadHeadInv ==
    ASSUME IInv, ReadHead
    PROVE  IInv'
<1>1. /\ phase = "rhead" /\ phase' = "rinstall"
      /\ lh' = dhead /\ tail' = 0
      /\ UNCHANGED <<disk, dlog, dhead, cache, dirty, outstanding, committing, pc,
                     pend, wrote, panicked>>
  BY DEF ReadHead, diskVars, bufVars, opVars
<1>2. TypeOK'
  <2>1. phase' \in Phases /\ tail' \in Nat
    BY <1>1 DEF Phases, RecoverPhases
  <2> QED
    BY <1>1, <2>1, Zenon DEF IInv, TypeOK
<1>3. ThreadInv' /\ InOp' = InOp
  BY <1>1, LogStepThreads DEF CommitPhases, Recovering, RecoverPhases
<1>4. DiskInv'
  BY <1>1 DEF IInv, DiskInv, Recovering, RecoverPhases, Absorbed
<1>5. UpdatesPinned'
  BY <1>1 DEF IInv, DiskInv, UpdatesPinned, Recovering, RecoverPhases
<1>6. SpaceInv'
  <2>1. InOp' = {} /\ Reserved' = {}
    BY <1>1, <1>3, QuietReserved DEF Reserved
  <2>2. Cardinality(Reserved') = 0 /\ Len(dhead) \in Nat
    BY <2>1, FS_EmptySet DEF IInv, TypeOK
  <2> QED
    BY <1>1, <2>1, <2>2, LogSizes DEF IInv, SpaceInv
<1> QED
  BY <1>2, <1>3, <1>4, <1>5, <1>6 DEF IInv

\* After a panic nothing runs.
LEMMA Running ==
    /\ \A p \in Procs : Thread(p) => ~panicked
    /\ LogStep => ~panicked
BY DEF Thread, BeginOp, LogWriteCheck, LogWriteRecord, EndOp, CommitDone, LogStep,
   WriteLog, WriteHead, InstallTrans, ClearHead, ReadHead

\* Every step preserves the invariant.
LEMMA NextInv == IInv /\ [Next]_vars => IInv'
<1> SUFFICES ASSUME IInv, [Next]_vars PROVE IInv'
  OBVIOUS
<1>1. ASSUME UNCHANGED vars PROVE IInv'
  BY <1>1 DEF vars, IInv, TypeOK, ThreadInv, DiskInv, UpdatesPinned, SpaceInv,
     InOp, Reserved, Recovering, Logged, Absorbed
<1>2. CASE Crash
  BY <1>2, CrashInv
<1>3. ASSUME NEW p \in Procs, Thread(p) PROVE IInv'
  BY <1>3, Running, BeginOpInv, LogWriteCheckInv, LogWriteRecordInv, EndOpInv, CommitDoneInv
     DEF Thread
<1>4. CASE LogStep
  BY <1>4, Running, WriteLogInv, WriteHeadInv, InstallTransInv, ClearHeadInv, ReadHeadInv
     DEF LogStep
<1>5. ASSUME NEW b \in Blocks, Recycle(b) PROVE IInv'
  BY <1>1, <1>5, RecycleInvisible DEF Recycle
<1> QED
  BY <1>1, <1>2, <1>3, <1>4, <1>5 DEF Next

-----------------------------------------------------------------------------
(* Safety theorems.                                                        *)

\* The inductive invariant holds in every reachable state of the log.
THEOREM Invariance == Spec => []IInv
BY InitInv, NextInv, PTL DEF Spec

\* Type correctness: every begin_op is matched by at most one end_op, and
\* write_log and install_trans stay inside the slots of the header.
THEOREM TypeCorrect == Spec => []TypeOK
<1>1. IInv => TypeOK
  BY DEF IInv
<1> QED
  BY <1>1, Invariance, PTL

\* commit() and recover_from_log() never run while a system call is between
\* begin_op and end_op.
THEOREM CommitsAlone == Spec => []CommitAlone
<1>1. IInv => CommitAlone
  BY FS_EmptySet DEF IInv, ThreadInv, CommitAlone
<1> QED
  BY <1>1, Invariance, PTL

\* bget never recycles a buffer that holds an update the disk does not have.
THEOREM NoUpdateLost == Spec => []UpdatesPinned
<1>1. IInv => UpdatesPinned
  BY DEF IInv
<1> QED
  BY <1>1, Invariance, PTL

\* Once no system call is in progress and no commit is running, all that the
\* ended system calls wrote is at its home on the disk.
THEOREM Durable == Spec => []EndedIsDurable
<1>1. IInv => EndedIsDurable
  <2> SUFFICES ASSUME IInv, phase = "run", InOp = {}, ~panicked
               PROVE  disk = cache /\ dhead = <<>>
    BY DEF EndedIsDurable
  <2>1. lh = <<>> /\ dhead = <<>>
    BY DEF IInv, DiskInv
  <2>2. \A b \in Blocks, p \in Procs : pend[p] # b
    BY NoBlockIsNoBlock DEF IInv, ThreadInv, InOp
  <2>3. \A b \in Blocks : cache[b] = disk[b]
    BY <2>1, <2>2 DEF IInv, UpdatesPinned, Logged
  <2> QED
    BY <2>1, <2>3 DEF IInv, TypeOK
<1> QED
  BY <1>1, Invariance, PTL

\* install_trans writes a home block only after write_head has put a header
\* that names the block on the disk.
THEOREM WritesAhead == Spec => WriteAhead
<1> DEFINE A == \A b \in Blocks : disk'[b] # disk[b] => b \in Logged(dhead)
<1>1. IInv /\ [Next]_vars => A
  <2> SUFFICES ASSUME IInv, [Next]_vars PROVE A
    OBVIOUS
  <2>1. CASE ~InstallTrans
    <3>1. disk' = disk
      BY <2>1 DEF vars, Next, Thread, LogStep, BeginOp, LogWriteCheck, LogWriteRecord,
         EndOp, CommitDone, WriteLog, WriteHead, ClearHead, ReadHead, Recycle, Crash,
         diskVars
    <3> QED
      BY <3>1
  <2>2. CASE InstallTrans
    <3>1. dhead = lh
      BY <2>2 DEF InstallTrans, IInv, DiskInv
    <3>2. CASE tail < Len(lh)
      <4>1. tail + 1 \in 1..Len(lh)
        BY <3>2 DEF IInv, TypeOK
      <4> QED
        BY <2>2, <3>1, <3>2, <4>1 DEF InstallTrans, IInv, TypeOK, Logged
    <3>3. CASE ~(tail < Len(lh))
      BY <2>2, <3>3 DEF InstallTrans
    <3> QED
      BY <3>2, <3>3
  <2> QED
    BY <2>1, <2>2
<1> HIDE DEF A
<1>2. Spec => [][A]_vars
  BY <1>1, Invariance, PTL DEF Spec
<1> QED
  BY <1>2 DEF A, WriteAhead

\* If an operation writes few enough blocks, log_write never meets a full log
\* and end_op never meets a commit, although log_write tests the log's size
\* outside log.lock: the reservation of begin_op alone is enough.
THEOREM NeverPanics == QuotaSlack => (Spec => []NoPanic)
<1> SUFFICES ASSUME QuotaSlack PROVE Spec => []NoPanic
  OBVIOUS
<1>1. IInv => Len(lh) <= NLOG - 1
  <2> SUFFICES ASSUME IInv PROVE Len(lh) <= NLOG - 1
    OBVIOUS
  <2>1. Len(lh) \in Nat /\ Cardinality(Reserved) \in Nat
    BY Finite DEF IInv, TypeOK, Counts
  <2>2. CASE lh = <<>>
    BY <2>2, LogSizes
  <2>3. CASE lh # <<>>
    <3>1. Len(lh) + Cardinality(Reserved) + (MAXOPBLOCKS - OpQuota) <= LOGSIZE
      BY <2>3 DEF IInv, SpaceInv
    <3> QED
      BY <2>1, <3>1, LogSizes DEF QuotaSlack
  <2> QED
    BY <2>2, <2>3
<1>2. ASSUME IInv, ~panicked, NEW p \in Procs, NEW b \in Blocks, NEW v \in Vals,
             LogWriteCheck(p, b, v)
      PROVE  ~panicked'
  <2>1. p \in InOp
    BY <1>2 DEF LogWriteCheck, InOp
  <2>2. outstanding >= 1 /\ outstanding \in Nat
    BY <1>2, <2>1, Counted DEF IInv, TypeOK
  <2>3. Len(lh) \in Nat /\ Cardinality(Reserved) \in Nat
    BY <1>2, Finite DEF IInv, TypeOK, Counts
  <2>4. Len(lh) + Cardinality(Reserved) + (MAXOPBLOCKS - OpQuota) <= LOGSIZE
    BY <1>2, <2>1 DEF IInv, SpaceInv
  <2>5. ~(Len(lh) >= LOGSIZE) /\ ~(Len(lh) >= NLOG - 1) /\ ~(outstanding < 1)
    BY <2>2, <2>3, <2>4, LogSizes DEF QuotaSlack
  <2> QED
    BY <1>2, <2>5 DEF LogWriteCheck
<1>3. IInv /\ ~panicked /\ [Next]_vars => ~panicked'
  <2> SUFFICES ASSUME IInv, ~panicked, [Next]_vars PROVE ~panicked'
    OBVIOUS
  <2>1. ASSUME NEW p \in Procs, Thread(p) PROVE ~panicked'
    BY <1>2, <2>1, EndOpInv DEF Thread, BeginOp, LogWriteRecord, CommitDone
  <2>2. CASE LogStep
    BY <2>2 DEF LogStep, WriteLog, WriteHead, InstallTrans, ClearHead, ReadHead
  <2>3. ASSUME NEW b \in Blocks, Recycle(b) PROVE ~panicked'
    BY <2>3 DEF Recycle
  <2> QED
    BY <2>1, <2>2, <2>3 DEF Next, Crash, vars
<1>4. Init => ~panicked
  BY DEF Init
<1> QED
  BY <1>1, <1>3, <1>4, Invariance, PTL DEF Spec, NoPanic

-----------------------------------------------------------------------------
(* The log implements TxnDisk.                                             *)

\* What system calls see: the contents that recovery is about to restore, or
\* else the buffers.
Current == IF Recovering THEN Replay ELSE cache

\* With an empty header on the disk, there is nothing to replay.
LEMMA ReplayEmpty ==
    ASSUME TypeOK, dhead = <<>>
    PROVE  Replay = disk
BY DEF TypeOK, Replay

\* install_trans changes only blocks that a crash would replay anyway.
LEMMA ReplayInstall ==
    ASSUME IInv, InstallTrans
    PROVE  Replay' = Replay
<1>1. UNCHANGED <<dhead, dlog>> /\ dhead = lh
  BY DEF InstallTrans, IInv, DiskInv
<1>2. ASSUME NEW b \in Blocks, ~\E i \in 1..Len(dhead) : dhead[i] = b
      PROVE  disk'[b] = disk[b]
  <2>1. CASE tail < Len(lh)
    <3>1. tail + 1 \in 1..Len(lh)
      BY <2>1 DEF IInv, TypeOK
    <3>2. b # lh[tail + 1]
      BY <1>1, <1>2, <3>1
    <3> QED
      BY <2>1, <3>2 DEF InstallTrans, IInv, TypeOK
  <2>2. CASE ~(tail < Len(lh))
    BY <2>2 DEF InstallTrans
  <2> QED
    BY <2>1, <2>2
<1> QED
  BY <1>1, <1>2 DEF Replay

\* Before the header is cleared every logged block is at home.
LEMMA ReplayInstalled ==
    ASSUME IInv, phase \in {"clear", "rclear"}
    PROVE  Replay = disk
<1>1. dhead = lh /\ \A i \in 1..Len(dhead) : disk[dhead[i]] = dlog[i]
  BY DEF IInv, DiskInv
<1>2. \A b \in Blocks : Replay[b] = disk[b]
  <2> TAKE b \in Blocks
  <2>1. CASE \E i \in 1..Len(dhead) : dhead[i] = b
    <3>1. PICK i \in 1..Len(dhead) : dhead[i] = b
      BY <2>1
    <3> QED
      BY <1>1, <3>1, ReplaySlot DEF IInv, DiskInv
  <2>2. CASE ~\E i \in 1..Len(dhead) : dhead[i] = b
    BY <2>2 DEF Replay
  <2> QED
    BY <2>1, <2>2
<1> QED
  BY <1>2 DEF Replay, IInv, TypeOK

\* Writing the header makes exactly the cached contents durable.
LEMMA WriteHeadCommits ==
    ASSUME IInv, IInv', ~panicked, WriteHead
    PROVE  Replay' = cache
<1>1. /\ phase = "writehead" /\ dhead' = lh
      /\ UNCHANGED <<disk, dlog, cache>>
  BY DEF WriteHead, bufVars
<1>2. \A b \in Blocks, p \in Procs : pend[p] # b
  BY <1>1, QuietReserved, NoBlockIsNoBlock DEF IInv, ThreadInv, InOp
<1>3. Replay' = [b \in Blocks |->
                    IF \E i \in 1..Len(lh) : lh[i] = b
                      THEN dlog[CHOOSE i \in 1..Len(lh) : lh[i] = b]
                      ELSE disk[b]]
  BY <1>1 DEF Replay
<1>4. ASSUME NEW b \in Blocks PROVE Replay'[b] = cache[b]
  <2>1. CASE \E i \in 1..Len(lh) : lh[i] = b
    <3>1. PICK i \in 1..Len(lh) : lh[i] = b
      BY <2>1
    <3>2. (CHOOSE j \in 1..Len(lh) : lh[j] = b) = i
      BY <3>1 DEF IInv, DiskInv, Absorbed
    <3>3. dlog[i] = cache[lh[i]]
      BY <1>1 DEF IInv, DiskInv
    <3> QED
      BY <1>3, <2>1, <3>1, <3>2, <3>3
  <2>2. CASE ~\E i \in 1..Len(lh) : lh[i] = b
    <3>1. cache[b] = disk[b]
      BY <1>2, <2>2 DEF IInv, UpdatesPinned, Logged
    <3> QED
      BY <1>3, <2>2, <3>1
  <2> QED
    BY <2>1, <2>2
<1> QED
  BY <1>3, <1>4 DEF IInv, TypeOK

\* Initial states of the log are initial states of the abstract disk.
LEMMA RefineInit == Init => Txn!Init
<1> SUFFICES ASSUME Init PROVE Txn!Init
  OBVIOUS
<1>1. TypeOK
  BY InitInv DEF IInv
<1>2. Replay = disk
  BY <1>1, ReplayEmpty DEF Init
<1>3. InOp = {} /\ Recovering
  BY DEF Init, InOp, Recovering, RecoverPhases
<1> QED
  BY <1>1, <1>2, <1>3 DEF Txn!Init, TypeOK

\* A step that keeps the abstract variables is a stutter.
LEMMA AbstractStutter ==
    ASSUME Replay' = Replay, Current' = Current, InOp' = InOp
    PROVE  UNCHANGED Txn!vars
BY DEF Txn!vars, Current

\* A step that leaves the disk alone leaves what recovery restores alone.
LEMMA ReplaySame ==
    ASSUME UNCHANGED <<disk, dlog, dhead>>
    PROVE  Replay' = Replay
BY DEF Replay

\* A step of a thread is a step of one system call, or invisible.
LEMMA RefineThread ==
    ASSUME IInv, ~panicked, NEW p \in Procs, Thread(p)
    PROVE  [Txn!Next]_(Txn!vars)
<1>1. Replay' = Replay
  <2>1. UNCHANGED <<disk, dlog, dhead>>
    BY DEF Thread, BeginOp, LogWriteCheck, LogWriteRecord, EndOp, CommitDone, diskVars
  <2> QED
    BY <2>1, ReplaySame
<1>2. CASE BeginOp(p)
  <2>1. Current' = Current
    BY <1>1, <1>2 DEF BeginOp, Current, Recovering, bufVars
  <2>2. CASE MustWait
    <3>1. InOp' = InOp
      BY <1>2, <2>2 DEF BeginOp, InOp, IInv, TypeOK
    <3> QED
      BY <1>1, <2>1, <3>1, AbstractStutter
  <2>3. CASE ~MustWait
    <3>1. InOp' = InOp \cup {p} /\ p \notin InOp
      BY <1>2, <2>3 DEF BeginOp, InOp, IInv, TypeOK
    <3>2. Txn!Begin(p)
      BY <1>1, <2>1, <3>1 DEF Txn!Begin, Current
    <3> QED
      BY <3>2 DEF Txn!Next
  <2> QED
    BY <2>2, <2>3
<1>3. ASSUME NEW b \in Blocks, NEW v \in Vals, LogWriteCheck(p, b, v)
      PROVE  [Txn!Next]_(Txn!vars)
  <2>1. p \in InOp /\ InOp' = InOp
    BY <1>3 DEF LogWriteCheck, InOp, IInv, TypeOK, opVars
  <2>2. ~Recovering /\ ~Recovering'
    <3>1. phase = "run" /\ phase' = phase
      BY <1>3, <2>1, Counted DEF LogWriteCheck
    <3> QED
      BY <3>1 DEF Recovering, RecoverPhases
  <2>3. cache' = [cache EXCEPT ![b] = v]
    BY <1>3 DEF LogWriteCheck
  <2>4. Txn!Write(p, b, v)
    BY <1>1, <2>1, <2>2, <2>3 DEF Txn!Write
  <2> QED
    BY <2>4 DEF Txn!Next
<1>4. CASE LogWriteRecord(p)
  <2>1. InOp' = InOp
    BY <1>4 DEF LogWriteRecord, InOp, IInv, TypeOK
  <2>2. Current' = Current
    BY <1>1, <1>4 DEF LogWriteRecord, Current, Recovering
  <2> QED
    BY <1>1, <2>1, <2>2, AbstractStutter
<1>5. CASE EndOp(p)
  <2>1. p \in InOp
    BY <1>5 DEF EndOp, InOp
  <2>2. phase = "run" /\ ~committing
    BY <2>1, Counted
  <2>3. InOp' = InOp \ {p}
    BY <1>5, <2>2 DEF EndOp, InOp, IInv, TypeOK, Wakeup
  <2>4. ~Recovering /\ ~Recovering' /\ cache' = cache
    BY <1>5, <2>2 DEF EndOp, Recovering, RecoverPhases, bufVars
  <2>5. Txn!End(p)
    BY <1>1, <2>1, <2>3, <2>4 DEF Txn!End
  <2> QED
    BY <2>5 DEF Txn!Next
<1>6. CASE CommitDone(p)
  <2>1. InOp' = InOp
    BY <1>6 DEF CommitDone, InOp, IInv, TypeOK, Wakeup
  <2>2. Current' = Current
    BY <1>6 DEF CommitDone, Current, Recovering, RecoverPhases, bufVars
  <2> QED
    BY <1>1, <2>1, <2>2, AbstractStutter
<1> QED
  BY <1>2, <1>3, <1>4, <1>5, <1>6 DEF Thread

\* Of the steps of commit() and of recovery only the write of the header is
\* visible, and it is the abstract commit.
LEMMA RefineLogStep ==
    ASSUME IInv, IInv', ~panicked, LogStep
    PROVE  [Txn!Next]_(Txn!vars)
<1>1. InOp' = InOp
  BY DEF LogStep, WriteLog, WriteHead, InstallTrans, ClearHead, ReadHead, InOp, opVars
<1>2. CASE WriteLog
  <2>1. dhead = <<>> /\ dhead' = <<>> /\ disk' = disk
    BY <1>2 DEF WriteLog, IInv, DiskInv
  <2>2. Replay' = Replay
    BY <2>1 DEF Replay
  <2>3. Current' = Current
    BY <1>2 DEF WriteLog, Current, Recovering, RecoverPhases, bufVars
  <2> QED
    BY <1>1, <2>2, <2>3, AbstractStutter
<1>3. CASE WriteHead
  <2>1. Replay' = cache /\ cache' = cache
    BY <1>3, WriteHeadCommits DEF WriteHead, bufVars
  <2>2. ~Recovering /\ ~Recovering'
    BY <1>3 DEF WriteHead, Recovering, RecoverPhases
  <2>3. InOp = {}
    BY <1>3, QuietReserved DEF WriteHead
  <2>4. Txn!Commit
    BY <1>1, <2>1, <2>2, <2>3 DEF Txn!Commit
  <2> QED
    BY <2>4 DEF Txn!Next
<1>4. CASE InstallTrans
  <2>1. Replay' = Replay
    BY <1>4, ReplayInstall
  <2>2. CASE phase = "install"
    <3>1. cache' = cache
      <4>1. CASE tail < Len(lh)
        <5>1. tail + 1 \in 1..Len(lh)
          BY <4>1 DEF IInv, TypeOK
        <5>2. cache[lh[tail + 1]] = dlog[tail + 1]
          BY <2>2, <5>1 DEF IInv, DiskInv
        <5> QED
          BY <1>4, <4>1, <5>2 DEF InstallTrans, IInv, TypeOK
      <4>2. CASE ~(tail < Len(lh))
        BY <1>4, <4>2 DEF InstallTrans, bufVars
      <4> QED
        BY <4>1, <4>2
    <3>2. ~Recovering /\ ~Recovering'
      BY <1>4, <2>2 DEF InstallTrans, Recovering, RecoverPhases
    <3> QED
      BY <1>1, <2>1, <3>1, <3>2, AbstractStutter DEF Current
  <2>3. CASE phase = "rinstall"
    <3>1. Recovering /\ Recovering'
      BY <1>4, <2>3 DEF InstallTrans, Recovering, RecoverPhases
    <3> QED
      BY <1>1, <2>1, <3>1, AbstractStutter DEF Current
  <2> QED
    BY <1>4, <2>2, <2>3 DEF InstallTrans
<1>5. CASE ClearHead
  <2>1. Replay = disk
    BY <1>5, ReplayInstalled DEF ClearHead
  <2>2. Replay' = disk
    BY <1>5 DEF ClearHead, Replay, IInv, TypeOK
  <2>3. Current' = Current
    <3>1. ~Recovering' /\ cache' = cache
      BY <1>5 DEF ClearHead, Recovering, RecoverPhases, bufVars
    <3>2. Recovering => cache = disk
      BY DEF IInv, DiskInv
    <3> QED
      BY <2>1, <3>1, <3>2 DEF Current
  <2> QED
    BY <1>1, <2>1, <2>2, <2>3, AbstractStutter
<1>6. CASE ReadHead
  <2>1. Replay' = Replay
    BY <1>6, ReplaySame DEF ReadHead, diskVars
  <2>2. Recovering /\ Recovering'
    BY <1>6 DEF ReadHead, Recovering, RecoverPhases
  <2> QED
    BY <1>1, <2>1, <2>2, AbstractStutter DEF Current
<1> QED
  BY <1>2, <1>3, <1>4, <1>5, <1>6 DEF LogStep

\* A step of the log is a step of the abstract disk or invisible.
LEMMA RefineNext == IInv /\ IInv' /\ [Next]_vars => [Txn!Next]_(Txn!vars)
<1> SUFFICES ASSUME IInv, IInv', [Next]_vars PROVE [Txn!Next]_(Txn!vars)
  OBVIOUS
<1>1. ASSUME UNCHANGED vars PROVE UNCHANGED Txn!vars
  BY <1>1 DEF vars, Txn!vars, Replay, InOp, Recovering
<1>2. CASE Crash
  <2>1. Replay' = Replay
    BY <1>2, ReplaySame DEF Crash, diskVars
  <2>2. InOp' = {} /\ Recovering'
    BY <1>2 DEF Crash, InOp, Recovering, RecoverPhases
  <2>3. Txn!Crash
    BY <2>1, <2>2 DEF Txn!Crash
  <2> QED
    BY <2>3 DEF Txn!Next
<1>3. ASSUME NEW b \in Blocks, Recycle(b) PROVE UNCHANGED Txn!vars
  BY <1>1, <1>3, RecycleInvisible DEF Recycle
<1> QED
  BY <1>1, <1>2, <1>3, Running, RefineThread, RefineLogStep DEF Next

\* Crash atomicity: whenever the machine stops, recovery brings back exactly
\* the contents of the last commit, in which every system call is present
\* entirely or not at all, and running system calls see their own updates.
THEOREM CrashAtomicity == Spec => CrashAtomic
<1>1. Spec => Txn!Init /\ [][Txn!Next]_(Txn!vars)
  BY RefineInit, RefineNext, Invariance, PTL DEF Spec
<1> QED
  BY <1>1 DEF CrashAtomic, Txn!Spec

=============================================================================

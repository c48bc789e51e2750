---------------------------- MODULE BcacheProofs ----------------------------
(***************************************************************************)
(* Proofs about the buffer cache and the disk queue (Bcache), for any number *)
(* of buffers, blocks and threads.                                          *)
(***************************************************************************)
EXTENDS Bcache, TLAPS, WellFoundedInduction, FiniteSetTheorems, SequenceTheorems

-----------------------------------------------------------------------------
(* The invariant.                                                          *)

BcacheTypes ==
    /\ blockno \in [Bufs -> DiskBlocks \cup {NoDev}]
    /\ refcnt \in [Bufs -> Nat]
    /\ bvalid \in [Bufs -> BOOLEAN]
    /\ bdirty \in [Bufs -> BOOLEAN]
    /\ bytes \in [Bufs -> Words]
    /\ lru \in [Bufs -> Bufs]
    /\ lockedBy \in [Bufs -> Threads \cup {Unlocked}]
    /\ idequeue \in Seq(Bufs)
    /\ sectors \in [DiskBlocks -> Words]
    /\ at \in [Threads -> {"user", "acquire", "hold", "iderw", "io", "brelse"}]
    /\ bp \in [Threads -> Bufs \cup {0}]
    /\ slept \subseteq Threads

\* The list has every buffer.
ListInv == \A i \in Bufs : \E n \in Bufs : lru[n] = i

\* A buffer's references are its users, and a buffer in use has a block.
UsersOf(i) == {t \in Threads : bp[t] = i}
UseInv ==
    /\ \A i \in Bufs : refcnt[i] = Cardinality(UsersOf(i))
    /\ \A t \in Threads : /\ (at[t] = "user") <=> (bp[t] = 0)
                          /\ bp[t] # 0 => blockno[bp[t]] # NoDev

\* A thread has the lock of its buffer from acquiresleep to releasesleep.
LockInv ==
    \A t \in Threads, i \in Bufs :
        (lockedBy[i] = t) <=> (bp[t] = i /\ at[t] \in {"hold", "iderw", "io"})

\* The disk's queue: no request twice, each by the holder of the lock; a
\* request is queued until it is done and not longer.
Queued(i) == \E n \in DOMAIN idequeue : idequeue[n] = i
QueueInv ==
    /\ \A m, n \in DOMAIN idequeue : idequeue[m] = idequeue[n] => m = n
    /\ \A i \in Bufs : Queued(i) => /\ \E t \in Threads : at[t] = "io" /\ bp[t] = i
                                    /\ ~bvalid[i] \/ bdirty[i]
    /\ \A t \in Threads :
          /\ at[t] = "io" => Queued(bp[t]) \/ (bvalid[bp[t]] /\ ~bdirty[bp[t]])
          /\ at[t] = "iderw" => ~bvalid[bp[t]] \/ bdirty[bp[t]]
          /\ at[t] = "hold" => bvalid[bp[t]]

\* Whoever sleeps waits for a lock that is taken or for a queued request.
SleepInv ==
    \A t \in slept :
        \/ at[t] = "acquire" /\ lockedBy[bp[t]] # Unlocked
        \/ at[t] = "io" /\ Queued(bp[t])

\* What is not dirty is on the disk, and so is the request that the disk works
\* on; only valid buffers are dirty.
DiskInv ==
    /\ \A i \in Bufs : bdirty[i] => bvalid[i] /\ blockno[i] # NoDev
    /\ \A i \in Bufs : bvalid[i] /\ ~bdirty[i] /\ blockno[i] # NoDev =>
          bytes[i] = sectors[blockno[i]]
    /\ idequeue # <<>> /\ bdirty[Head(idequeue)] =>
          bytes[Head(idequeue)] = sectors[blockno[Head(idequeue)]]

\* The buffers that are dirty because the log has pinned them, not because
\* they are being written.
Writing(i) == \E t \in Threads : bp[t] = i /\ at[t] \in {"iderw", "io"}
Pinned == {i \in Bufs : bdirty[i] /\ ~Writing(i)}
PinInv == Cardinality(Pinned) <= MaxPinned

BcacheInv ==
    /\ BcacheTypes /\ ListInv /\ UseInv /\ LockInv /\ QueueInv /\ SleepInv
    /\ OneBuffer /\ DiskInv /\ PinInv

-----------------------------------------------------------------------------
(* Sets, the list and the queue.                                           *)

\* The contents of a buffer that was never read are some word.
LEMMA NoBytesIn == NoBytes \in Words
  BY BcacheAssumption DEF NoBytes

\* A set of buffers that is not empty has a greatest member.
LEMMA GreatestBuf ==
    ASSUME NEW T, T \subseteq Bufs, T # {}
    PROVE  \E x \in T : \A y \in T : y <= x
<1> DEFINE D == {n \in Nat : \E y \in T : n = NBUF - y}
<1>1. NBUF \in Nat /\ \A y \in T : y \in Int /\ y <= NBUF
  BY BcacheAssumption DEF Bufs
<1>2. D # {} /\ D \subseteq Nat
  <2>1. PICK y \in T : TRUE
    OBVIOUS
  <2>2. NBUF - y \in D
    BY <1>1
  <2> QED
    BY <2>2
<1>3. IsWellFoundedOn(OpToRel(<,Nat), Nat)
  BY NatLessThanWellFounded
<1>4. \E d \in D : \A e \in D : ~ (<<e, d>> \in OpToRel(<,Nat))
  BY <1>2, <1>3, WFMin, Zenon
<1>5. PICK d \in D : \A e \in D : ~ (<<e, d>> \in OpToRel(<,Nat))
  BY <1>4
<1>6. \A e \in D : ~(e < d)
  BY <1>5 DEF OpToRel
<1>7. PICK x \in T : d = NBUF - x
  BY <1>5
<1>8. ASSUME NEW y \in T PROVE y <= x
  <2>1. NBUF - y \in D
    BY <1>1
  <2>2. ~(NBUF - y < NBUF - x)
    BY <1>6, <1>7, <2>1
  <2> QED
    BY <1>1, <2>2
<1> QED
  BY <1>8

\* bget's loop from the end of the list finds a buffer of S if there is one.
LEMMA LeastRecentIn ==
    ASSUME ListInv, BcacheTypes, NEW T, T \subseteq Bufs, T # {}
    PROVE  LeastRecent(T) \in T
<1> DEFINE P == {n \in Bufs : lru[n] \in T}
<1>1. P # {} /\ P \subseteq Bufs
  BY DEF ListInv
<1>2. PICK x \in P : \A y \in P : y <= x
  BY <1>1, GreatestBuf
<1>3. \A m \in x + 1..NBUF : lru[m] \notin T
  <2> SUFFICES ASSUME NEW m \in x + 1..NBUF, lru[m] \in T PROVE FALSE
    OBVIOUS
  <2>1. x \in Nat /\ NBUF \in Nat /\ 1 <= x
    BY BcacheAssumption DEF Bufs
  <2>2. m \in P
    BY <2>1 DEF Bufs
  <2> QED
    BY <1>2, <2>1, <2>2
<1> QED
  BY <1>2, <1>3 DEF LeastRecent

\* Moving a buffer to the front keeps every buffer in the list.
LEMMA MoveToFrontKeeps ==
    ASSUME ListInv, BcacheTypes, NEW i \in Bufs, lru' = MoveToFront(i)
    PROVE  lru' \in [Bufs -> Bufs] /\ ListInv'
<1> DEFINE place == CHOOSE n \in Bufs : lru[n] = i
<1>1. place \in Bufs /\ lru[place] = i
  BY DEF ListInv
<1>2. lru' = [n \in Bufs |-> IF n = 1 THEN i ELSE IF n <= place THEN lru[n - 1] ELSE lru[n]]
  BY DEF MoveToFront
<1> HIDE DEF place
<1>3. NBUF \in Nat /\ Bufs = 1..NBUF
  BY BcacheAssumption DEF Bufs
<1>4. lru' \in [Bufs -> Bufs]
  <2>1. ASSUME NEW n \in Bufs, n # 1 PROVE n - 1 \in Bufs
    BY <1>3, <2>1
  <2>2. \A n \in Bufs : lru[n] \in Bufs
    BY DEF BcacheTypes
  <2> QED
    BY <1>2, <2>1, <2>2
<1>5. ASSUME NEW j \in Bufs PROVE \E n \in Bufs : lru'[n] = j
  <2>1. CASE j = i
    BY <1>2, <1>3, <2>1
  <2>2. CASE j # i
    <3>1. PICK m \in Bufs : lru[m] = j
      BY DEF ListInv
    <3>2. CASE m < place
      <4>1. m + 1 \in Bufs /\ m + 1 # 1 /\ m + 1 <= place /\ (m + 1) - 1 = m
        BY <1>1, <1>3, <3>2
      <4> QED
        BY <1>2, <3>1, <4>1
    <3>3. CASE ~(m < place)
      <4>1. m # 1 /\ ~(m <= place)
        BY <1>1, <1>3, <2>2, <3>1, <3>3
      <4> QED
        BY <1>2, <3>1, <4>1
    <3> QED
      BY <3>2, <3>3
  <2> QED
    BY <2>1, <2>2
<1> QED
  BY <1>4, <1>5 DEF ListInv

\* The queue after a request is appended.
LEMMA AppendQueued ==
    ASSUME BcacheTypes, QueueInv, NEW i \in Bufs, ~Queued(i),
           idequeue' = Append(idequeue, i)
    PROVE  /\ idequeue' \in Seq(Bufs) /\ idequeue' # <<>>
           /\ \A m, n \in DOMAIN idequeue' : idequeue'[m] = idequeue'[n] => m = n
           /\ \A j \in Bufs : Queued(j)' <=> (Queued(j) \/ j = i)
           /\ Head(idequeue') = IF idequeue = <<>> THEN i ELSE Head(idequeue)
<1> USE DEF BcacheTypes
<1>1. /\ idequeue' \in Seq(Bufs) /\ idequeue' # <<>> /\ Len(idequeue') = Len(idequeue) + 1
      /\ \A n \in 1..Len(idequeue) : idequeue'[n] = idequeue[n]
      /\ idequeue'[Len(idequeue) + 1] = i
      /\ Len(idequeue) \in Nat
  <2>1. idequeue \in Seq(Bufs)
    OBVIOUS
  <2>2. Len(idequeue) \in Nat
    BY <2>1, LenProperties
  <2> HIDE DEF BcacheTypes
  <2> QED
    BY <2>1, <2>2, AppendProperties
<1>2. DOMAIN idequeue = 1..Len(idequeue) /\ DOMAIN idequeue' = 1..Len(idequeue) + 1
  BY <1>1
<1>3. \A m, n \in DOMAIN idequeue' : idequeue'[m] = idequeue'[n] => m = n
  BY <1>1, <1>2 DEF QueueInv, Queued
<1>4. ASSUME NEW j \in Bufs PROVE Queued(j)' <=> (Queued(j) \/ j = i)
  <2>1. ASSUME NEW n \in DOMAIN idequeue', idequeue'[n] = j PROVE Queued(j) \/ j = i
    BY <1>1, <1>2, <2>1 DEF Queued
  <2>2. ASSUME NEW n \in DOMAIN idequeue, idequeue[n] = j PROVE Queued(j)'
    <3>1. n \in DOMAIN idequeue' /\ idequeue'[n] = j
      BY <1>1, <1>2, <2>2
    <3> QED
      BY <3>1 DEF Queued
  <2>3. Queued(i)'
    <3>1. Len(idequeue) + 1 \in DOMAIN idequeue'
      BY <1>1, <1>2
    <3> QED
      BY <1>1, <3>1 DEF Queued
  <2> QED
    BY <2>1, <2>2, <2>3 DEF Queued
<1>5. Head(idequeue') = IF idequeue = <<>> THEN i ELSE Head(idequeue)
  BY HeadTailAppend
<1> QED
  BY <1>1, <1>3, <1>4, <1>5

\* The queue after its first request is done.
LEMMA TailQueued ==
    ASSUME BcacheTypes, QueueInv, idequeue # <<>>, idequeue' = Tail(idequeue)
    PROVE  /\ Head(idequeue) \in Bufs /\ Queued(Head(idequeue))
           /\ idequeue' \in Seq(Bufs)
           /\ \A m, n \in DOMAIN idequeue' : idequeue'[m] = idequeue'[n] => m = n
           /\ \A j \in Bufs : Queued(j)' <=> (Queued(j) /\ j # Head(idequeue))
           /\ idequeue' # <<>> => Head(idequeue') \in Bufs /\ Queued(Head(idequeue))'
<1> USE DEF BcacheTypes
<1>1. /\ Head(idequeue) \in Bufs /\ idequeue' \in Seq(Bufs)
      /\ Len(idequeue') = Len(idequeue) - 1
      /\ \A n \in 1..Len(idequeue') : idequeue'[n] = idequeue[n + 1]
  BY HeadTailProperties
<1>2. Len(idequeue) \in Nat \ {0} /\ Head(idequeue) = idequeue[1]
  BY EmptySeq
<1>3. DOMAIN idequeue = 1..Len(idequeue) /\ DOMAIN idequeue' = 1..Len(idequeue) - 1
  BY <1>1
<1>4. Queued(Head(idequeue))
  <2>1. 1 \in DOMAIN idequeue /\ idequeue[1] = Head(idequeue)
    BY <1>2, <1>3
  <2> QED
    BY <2>1, Zenon DEF Queued
<1>5. \A m, n \in DOMAIN idequeue' : idequeue'[m] = idequeue'[n] => m = n
  BY <1>1, <1>2, <1>3, SMTT(20) DEF QueueInv
<1>6. ASSUME NEW j \in Bufs PROVE Queued(j)' <=> (Queued(j) /\ j # Head(idequeue))
  <2>1. ASSUME NEW n \in DOMAIN idequeue', idequeue'[n] = j
        PROVE  Queued(j) /\ j # Head(idequeue)
    <3>1. n + 1 \in DOMAIN idequeue /\ idequeue[n + 1] = j /\ n + 1 # 1 /\ 1 \in DOMAIN idequeue
      BY <1>1, <1>2, <1>3, <2>1
    <3> QED
      BY <1>2, <3>1 DEF QueueInv, Queued
  <2>2. ASSUME NEW n \in DOMAIN idequeue, idequeue[n] = j, j # Head(idequeue)
        PROVE  Queued(j)'
    <3>1. n # 1 /\ n - 1 \in DOMAIN idequeue' /\ idequeue'[n - 1] = j
      BY <1>1, <1>2, <1>3, <2>2
    <3> QED
      BY <3>1 DEF Queued
  <2> QED
    BY <2>1, <2>2 DEF Queued
<1>7. idequeue' # <<>> => Head(idequeue') \in Bufs /\ Queued(Head(idequeue))'
  <2> SUFFICES ASSUME idequeue' # <<>>
               PROVE  Head(idequeue') \in Bufs /\ Queued(Head(idequeue))'
    OBVIOUS
  <2>1. Head(idequeue') \in Bufs /\ Head(idequeue') = idequeue'[1] /\ 1 \in DOMAIN idequeue'
    BY <1>1, <1>2, <1>3, EmptySeq
  <2> QED
    BY <2>1, Zenon DEF Queued
<1> QED
  BY <1>1, <1>4, <1>5, <1>6, <1>7

-----------------------------------------------------------------------------
(* Consequences of the invariant.                                          *)

\* A thread inside a call has a buffer, and the buffer a block.
LEMMA HasBuffer ==
    ASSUME BcacheInv, NEW t \in Threads, at[t] # "user"
    PROVE  bp[t] \in Bufs /\ blockno[bp[t]] \in DiskBlocks
  BY DEF BcacheInv, BcacheTypes, UseInv

\* The sets that are counted are finite.
LEMMA FiniteParts ==
    /\ IsFiniteSet(Bufs) /\ Cardinality(Bufs) = NBUF
    /\ \A i : IsFiniteSet(UsersOf(i)) /\ IsFiniteSet(UsersOf(i)')
    /\ IsFiniteSet(Pinned) /\ IsFiniteSet(Pinned')
    /\ Unlocked \notin Threads
<1>1. IsFiniteSet(Bufs) /\ Cardinality(Bufs) = NBUF
  BY BcacheAssumption, FS_Interval DEF Bufs
<1> QED
  BY <1>1, BcacheAssumption, FS_Subset DEF UsersOf, Pinned, Unlocked

\* A buffer without references has no user, no holder and no request.
LEMMA UnusedBuffer ==
    ASSUME BcacheInv, NEW i \in Bufs, refcnt[i] = 0
    PROVE  /\ \A t \in Threads : bp[t] # i
           /\ lockedBy[i] = Unlocked /\ ~Queued(i) /\ UsersOf(i) = {}
<1>1. UsersOf(i) = {}
  BY FiniteParts, FS_EmptySet DEF BcacheInv, UseInv
<1>2. \A t \in Threads : bp[t] # i
  BY <1>1 DEF UsersOf
<1>3. lockedBy[i] = Unlocked
  BY <1>2 DEF BcacheInv, LockInv, BcacheTypes
<1>4. ~Queued(i)
  BY <1>2 DEF BcacheInv, QueueInv
<1> QED
  BY <1>1, <1>2, <1>3, <1>4

\* The holder of a lock, seen from the buffer.
LEMMA OneHolder ==
    ASSUME BcacheInv, NEW t \in Threads, NEW u \in Threads,
           at[t] \in {"hold", "iderw", "io"}, at[u] \in {"hold", "iderw", "io"},
           bp[t] = bp[u]
    PROVE  t = u
  BY HasBuffer DEF BcacheInv, LockInv

\* The bound on pinned buffers holds when none is added.
LEMMA PinnedShrinks ==
    ASSUME BcacheInv, Pinned' \subseteq Pinned
    PROVE  PinInv'
<1>1. Cardinality(Pinned') <= Cardinality(Pinned) /\ Cardinality(Pinned') \in Nat
      /\ Cardinality(Pinned) \in Nat
  BY FiniteParts, FS_Subset, FS_CardinalityType
<1> QED
  BY <1>1, BcacheAssumption DEF BcacheInv, PinInv

\* A thread that begins to use buffer i adds a user.
LEMMA UserAdded ==
    ASSUME BcacheInv, NEW t \in Threads, NEW i \in Bufs, bp[t] = 0,
           bp' = [bp EXCEPT ![t] = i], refcnt' = [refcnt EXCEPT ![i] = @ + 1]
    PROVE  /\ refcnt' \in [Bufs -> Nat]
           /\ \A j \in Bufs : refcnt'[j] = Cardinality(UsersOf(j)')
<1> USE DEF BcacheInv, BcacheTypes
<1>1. ASSUME NEW j \in Bufs PROVE refcnt'[j] = Cardinality(UsersOf(j)')
  <2>0. 0 \notin Bufs /\ refcnt[j] = Cardinality(UsersOf(j))
    BY BcacheAssumption DEF Bufs, UseInv
  <2>1. CASE j = i
    <3>1. UsersOf(j)' = UsersOf(j) \cup {t} /\ t \notin UsersOf(j)
      BY <2>0, <2>1 DEF UsersOf
    <3>2. Cardinality(UsersOf(j) \cup {t}) = Cardinality(UsersOf(j)) + 1
      BY <3>1, FiniteParts, FS_AddElement
    <3> QED
      BY <2>0, <2>1, <3>1, <3>2
  <2>2. CASE j # i
    <3>1. UsersOf(j)' = UsersOf(j)
      BY <2>0, <2>2 DEF UsersOf
    <3> QED
      BY <2>0, <2>2, <3>1
  <2> QED
    BY <2>1, <2>2
<1> QED
  BY <1>1

\* A thread that is done with buffer i takes its reference away.
LEMMA UserRemoved ==
    ASSUME BcacheInv, NEW t \in Threads, NEW i \in Bufs, bp[t] = i,
           bp' = [bp EXCEPT ![t] = 0], refcnt' = [refcnt EXCEPT ![i] = @ - 1]
    PROVE  /\ refcnt' \in [Bufs -> Nat]
           /\ \A j \in Bufs : refcnt'[j] = Cardinality(UsersOf(j)')
<1> USE DEF BcacheInv, BcacheTypes
<1>0. refcnt[i] > 0
  <2>1. t \in UsersOf(i)
    BY DEF UsersOf
  <2> QED
    BY <2>1, FiniteParts, FS_EmptySet DEF UseInv
<1>1. ASSUME NEW j \in Bufs PROVE refcnt'[j] = Cardinality(UsersOf(j)')
  <2>0. 0 \notin Bufs /\ refcnt[j] = Cardinality(UsersOf(j))
    BY BcacheAssumption DEF Bufs, UseInv
  <2>1. CASE j = i
    <3>1. UsersOf(j)' = UsersOf(j) \ {t} /\ t \in UsersOf(j)
      BY <2>0, <2>1 DEF UsersOf
    <3>2. Cardinality(UsersOf(j) \ {t}) = Cardinality(UsersOf(j)) - 1
      BY <3>1, FiniteParts, FS_RemoveElement
    <3> QED
      BY <2>0, <2>1, <3>1, <3>2
  <2>2. CASE j # i
    <3>1. UsersOf(j)' = UsersOf(j)
      BY <2>0, <2>2 DEF UsersOf
    <3> QED
      BY <2>0, <2>2, <3>1
  <2> QED
    BY <2>1, <2>2
<1> QED
  BY <1>0, <1>1

-----------------------------------------------------------------------------
(* The actions.                                                            *)

\* binit: all buffers are unused and nobody is inside a call.
LEMMA BcacheInitInv == BcacheInit => BcacheInv
<1> SUFFICES ASSUME BcacheInit PROVE BcacheInv
  OBVIOUS
<1> USE BcacheAssumption, NoDevIsNoBlock DEF BcacheInit
<1>1. BcacheTypes
  BY NoBytesIn DEF BcacheTypes, Bufs
<1>2. ListInv
  <2>1. \A i \in Bufs : NBUF + 1 - i \in Bufs /\ NBUF + 1 - (NBUF + 1 - i) = i
    BY DEF Bufs
  <2> QED
    BY <2>1 DEF ListInv
<1>3. UseInv
  <2>1. ASSUME NEW i \in Bufs PROVE Cardinality(UsersOf(i)) = 0
    <3>1. UsersOf(i) = {}
      BY DEF UsersOf, Bufs
    <3> QED
      BY <3>1, FS_EmptySet
  <2> QED
    BY <2>1 DEF UseInv
<1>4. LockInv
  BY FiniteParts DEF LockInv
<1>5. QueueInv /\ SleepInv /\ OneBuffer /\ DiskInv
  BY DEF QueueInv, Queued, SleepInv, OneBuffer, DiskInv
<1>6. PinInv
  <2>1. Pinned = {}
    BY DEF Pinned
  <2> QED
    BY <2>1, FS_EmptySet DEF PinInv
<1> QED
  BY <1>1, <1>2, <1>3, <1>4, <1>5, <1>6 DEF BcacheInv

\* bget finds the block cached and counts a user more.
LEMMA BgetHitKeeps ==
    ASSUME BcacheInv, NEW t \in Threads, NEW k \in DiskBlocks, BgetHit(t, k)
    PROVE  BcacheInv'
<1> USE DEF BcacheInv
<1> DEFINE i == CHOOSE i \in Cached(k) : TRUE
<1>1. i \in Bufs /\ blockno[i] = k /\ k # NoDev
  BY NoDevIsNoBlock DEF BgetHit, Cached, NoDev
<1>2. /\ at[t] = "user" /\ bp[t] = 0
      /\ refcnt' = [refcnt EXCEPT ![i] = @ + 1]
      /\ bp' = [bp EXCEPT ![t] = i]
      /\ at' = [at EXCEPT ![t] = "acquire"]
      /\ UNCHANGED <<blockno, bvalid, bdirty, bytes, lru, lockedBy, idequeue,
                     sectors, slept>>
  BY DEF BgetHit, UseInv
<1> HIDE DEF i
<1>3. refcnt' \in [Bufs -> Nat] /\ \A j \in Bufs : refcnt'[j] = Cardinality(UsersOf(j)')
  BY <1>1, <1>2, UserAdded
<1>4. BcacheTypes'
  BY <1>1, <1>2, <1>3 DEF BcacheTypes
<1>5. ListInv' /\ OneBuffer' /\ DiskInv'
  BY <1>2 DEF ListInv, OneBuffer, DiskInv
<1>6. UseInv'
  <2>1. 0 \notin Bufs
    BY BcacheAssumption DEF Bufs
  <2> QED
    BY <1>1, <1>2, <1>3, <2>1 DEF UseInv, BcacheTypes
<1>7. LockInv'
  BY <1>1, <1>2 DEF LockInv, BcacheTypes
<1>8. QueueInv' /\ SleepInv'
  <2>1. \A j : Queued(j)' <=> Queued(j)
    BY <1>2 DEF Queued
  <2>2. t \notin slept
    BY <1>2 DEF SleepInv
  <2> QED
    BY <1>1, <1>2, <2>1, <2>2 DEF QueueInv, SleepInv, BcacheTypes
<1>9. PinInv'
  <2>1. Pinned' \subseteq Pinned
    BY <1>1, <1>2 DEF Pinned, Writing, BcacheTypes
  <2> QED
    BY <2>1, PinnedShrinks
<1> QED
  BY <1>4, <1>5, <1>6, <1>7, <1>8, <1>9

\* bget recycles a buffer that nobody uses and that the disk has.
LEMMA BgetMissKeeps ==
    ASSUME BcacheInv, NEW t \in Threads, NEW k \in DiskBlocks, BgetMiss(t, k)
    PROVE  BcacheInv'
<1> USE DEF BcacheInv
<1> DEFINE i == LeastRecent(Recyclable)
<1>1. i \in Bufs /\ refcnt[i] = 0 /\ ~bdirty[i]
  BY LeastRecentIn DEF BgetMiss, Recyclable
<1>2. /\ at[t] = "user" /\ bp[t] = 0 /\ k # NoDev /\ Cached(k) = {}
      /\ blockno' = [blockno EXCEPT ![i] = k]
      /\ bvalid' = [bvalid EXCEPT ![i] = FALSE]
      /\ bdirty' = [bdirty EXCEPT ![i] = FALSE]
      /\ bytes' = [bytes EXCEPT ![i] = NoBytes]
      /\ refcnt' = [refcnt EXCEPT ![i] = 1]
      /\ bp' = [bp EXCEPT ![t] = i]
      /\ at' = [at EXCEPT ![t] = "acquire"]
      /\ UNCHANGED <<lru, lockedBy, idequeue, sectors, slept>>
  BY NoDevIsNoBlock DEF BgetMiss, UseInv, NoDev
<1> HIDE DEF i
<1>3. /\ \A u \in Threads : bp[u] # i
      /\ lockedBy[i] = Unlocked /\ ~Queued(i)
  BY <1>1, UnusedBuffer
<1>4. refcnt' \in [Bufs -> Nat] /\ \A j \in Bufs : refcnt'[j] = Cardinality(UsersOf(j)')
  <2>1. refcnt' = [refcnt EXCEPT ![i] = @ + 1]
    BY <1>1, <1>2 DEF BcacheTypes
  <2> QED
    BY <1>1, <1>2, <2>1, UserAdded
<1>5. BcacheTypes'
  BY <1>1, <1>2, <1>4, NoBytesIn DEF BcacheTypes
<1>6. ListInv'
  BY <1>2 DEF ListInv
<1>7. OneBuffer'
  BY <1>1, <1>2 DEF OneBuffer, Cached, BcacheTypes
<1>8. UseInv'
  BY <1>1, <1>2, <1>3, <1>4, BcacheAssumption DEF UseInv, BcacheTypes, Bufs
<1>9. LockInv'
  BY <1>1, <1>2, <1>3, FiniteParts DEF LockInv, BcacheTypes
<1>10. QueueInv' /\ SleepInv'
  <2>1. \A j : Queued(j)' <=> Queued(j)
    BY <1>2 DEF Queued
  <2>2. t \notin slept
    BY <1>2 DEF SleepInv
  <2>3. QueueInv'
    BY <1>1, <1>2, <1>3, <2>1 DEF QueueInv, BcacheTypes
  <2>4. SleepInv'
    BY <1>1, <1>2, <1>3, <2>1, <2>2 DEF SleepInv, BcacheTypes
  <2> QED
    BY <2>3, <2>4
<1>11. DiskInv'
  <2>1. idequeue # <<>> => Head(idequeue) \in Bufs /\ Head(idequeue) # i
    <3> SUFFICES ASSUME idequeue # <<>> PROVE Head(idequeue) \in Bufs /\ Head(idequeue) # i
      OBVIOUS
    <3>1. /\ Head(idequeue) \in Bufs /\ Head(idequeue) = idequeue[1]
          /\ 1 \in DOMAIN idequeue
      BY EmptySeq DEF BcacheTypes
    <3> QED
      BY <1>3, <3>1 DEF Queued
  <2> QED
    BY <1>1, <1>2, <2>1 DEF DiskInv, BcacheTypes
<1>12. PinInv'
  <2>1. Pinned' \subseteq Pinned
    BY <1>1, <1>2 DEF Pinned, Writing, BcacheTypes
  <2> QED
    BY <2>1, PinnedShrinks
<1> QED
  BY <1>5, <1>6, <1>7, <1>8, <1>9, <1>10, <1>11, <1>12

\* acquiresleep gets the lock, or the thread goes to sleep.
LEMMA AcquireSleepKeeps ==
    ASSUME BcacheInv, NEW t \in Threads, AcquireSleep(t)
    PROVE  BcacheInv'
<1> USE DEF BcacheInv
<1> DEFINE i == bp[t]
<1>1. /\ at[t] = "acquire" /\ t \notin slept /\ i \in Bufs
      /\ UNCHANGED <<blockno, refcnt, bvalid, bdirty, bytes, lru, idequeue, sectors, bp>>
  BY HasBuffer DEF AcquireSleep
<1>2. \A j : (Queued(j)' <=> Queued(j)) /\ UsersOf(j)' = UsersOf(j)
  BY <1>1 DEF Queued, UsersOf
<1>3. ListInv' /\ OneBuffer' /\ DiskInv'
  BY <1>1 DEF ListInv, OneBuffer, DiskInv
<1>4. CASE lockedBy[i] # Unlocked /\ slept' = slept \cup {t} /\ UNCHANGED <<lockedBy, at>>
  <2>1. BcacheTypes' /\ UseInv' /\ LockInv' /\ QueueInv' /\ SleepInv'
    BY <1>1, <1>2, <1>4 DEF BcacheTypes, UseInv, LockInv, QueueInv, SleepInv
  <2>2. Pinned' \subseteq Pinned
    BY <1>1, <1>4 DEF Pinned, Writing
  <2> QED
    BY <1>3, <2>1, <2>2, PinnedShrinks
<1>5. CASE /\ lockedBy[i] = Unlocked
           /\ lockedBy' = [lockedBy EXCEPT ![i] = t]
           /\ at' = [at EXCEPT ![t] = IF bvalid[i] THEN "hold" ELSE "iderw"]
           /\ UNCHANGED slept
  <2>1. BcacheTypes'
    BY <1>1, <1>5 DEF BcacheTypes
  <2>2. UseInv'
    BY <1>1, <1>2, <1>5 DEF UseInv, BcacheTypes
  <2>3. LockInv'
    BY <1>1, <1>5, FiniteParts DEF LockInv, BcacheTypes
  <2>4. QueueInv'
    BY <1>1, <1>2, <1>5 DEF QueueInv, BcacheTypes
  <2>5. SleepInv'
    BY <1>1, <1>2, <1>5, FiniteParts DEF SleepInv, BcacheTypes
  <2>6. Pinned' \subseteq Pinned
    BY <1>1, <1>5 DEF Pinned, Writing, BcacheTypes
  <2> QED
    BY <1>3, <2>1, <2>2, <2>3, <2>4, <2>5, <2>6, PinnedShrinks
<1> QED
  BY <1>4, <1>5 DEF AcquireSleep

\* A holder's buffer is not with the disk.
LEMMA HoldersBuffer ==
    ASSUME BcacheInv, NEW t \in Threads, at[t] = "hold"
    PROVE  /\ bp[t] \in Bufs /\ blockno[bp[t]] \in DiskBlocks
           /\ bvalid[bp[t]] /\ ~Queued(bp[t])
           /\ idequeue # <<>> => Head(idequeue) \in Bufs /\ Head(idequeue) # bp[t]
           /\ \A u \in Threads \ {t} : bp[u] = bp[t] => at[u] \notin {"hold", "iderw", "io"}
<1>1. bp[t] \in Bufs /\ blockno[bp[t]] \in DiskBlocks
  BY HasBuffer
<1>2. \A u \in Threads \ {t} : bp[u] = bp[t] => at[u] \notin {"hold", "iderw", "io"}
  BY OneHolder
<1>3. bvalid[bp[t]] /\ ~Queued(bp[t])
  BY <1>1, <1>2 DEF BcacheInv, QueueInv
<1>4. ASSUME idequeue # <<>> PROVE Head(idequeue) \in Bufs /\ Head(idequeue) # bp[t]
  <2>1. /\ Head(idequeue) \in Bufs /\ Head(idequeue) = idequeue[1]
        /\ 1 \in DOMAIN idequeue
    BY <1>4, EmptySeq DEF BcacheInv, BcacheTypes
  <2> QED
    BY <1>3, <2>1 DEF Queued
<1> QED
  BY <1>1, <1>2, <1>3, <1>4

\* log_write pins no more than MaxPinned blocks.
LEMMA LogPinKeeps ==
    ASSUME BcacheInv, NEW t \in Threads, NEW v \in Words, LogPin(t, v)
    PROVE  BcacheInv'
<1> USE DEF BcacheInv
<1> DEFINE i == bp[t]
<1>1. /\ at[t] = "hold"
      /\ bytes' = [bytes EXCEPT ![i] = v]
      /\ bdirty' = [bdirty EXCEPT ![i] = TRUE]
      /\ UNCHANGED <<blockno, refcnt, bvalid, lru, lockedBy, idequeue, sectors,
                     at, bp, slept>>
  BY DEF LogPin
<1>2. /\ i \in Bufs /\ blockno[i] \in DiskBlocks /\ bvalid[i] /\ ~Queued(i)
      /\ idequeue # <<>> => Head(idequeue) \in Bufs /\ Head(idequeue) # i
      /\ \A u \in Threads \ {t} : bp[u] = i => at[u] \notin {"hold", "iderw", "io"}
  BY <1>1, HoldersBuffer
<1>3. \A j : (Queued(j)' <=> Queued(j)) /\ UsersOf(j)' = UsersOf(j)
  BY <1>1 DEF Queued, UsersOf
<1>4. BcacheTypes' /\ ListInv' /\ OneBuffer'
  BY <1>1, <1>2 DEF BcacheTypes, ListInv, OneBuffer
<1>5. UseInv' /\ LockInv' /\ SleepInv'
  BY <1>1, <1>3 DEF UseInv, LockInv, SleepInv
<1>6. QueueInv'
  BY <1>1, <1>2, <1>3 DEF QueueInv, BcacheTypes
<1>7. DiskInv'
  BY <1>1, <1>2, NoDevIsNoBlock DEF DiskInv, BcacheTypes, NoDev
<1>8. PinInv'
  <2> DEFINE D == {j \in Bufs : bdirty[j]} \cup {i}
  <2>1. Pinned' \subseteq D
    BY <1>1, <1>2 DEF Pinned, BcacheTypes
  <2>2. IsFiniteSet(D)
    BY <1>2, FiniteParts, FS_Subset
  <2>3. Cardinality(D) <= MaxPinned
    BY DEF LogPin
  <2> HIDE DEF D
  <2>4. Cardinality(Pinned') <= Cardinality(D) /\ Cardinality(Pinned') \in Nat
        /\ Cardinality(D) \in Nat
    BY <2>1, <2>2, FS_Subset, FS_CardinalityType
  <2> QED
    BY <2>3, <2>4, BcacheAssumption DEF PinInv
<1> QED
  BY <1>4, <1>5, <1>6, <1>7, <1>8

\* bwrite queues the buffer; only its holder changes it.
LEMMA BwriteKeeps ==
    ASSUME BcacheInv, NEW t \in Threads, NEW v \in Words, Bwrite(t, v)
    PROVE  BcacheInv'
<1> USE DEF BcacheInv
<1> DEFINE i == bp[t]
<1>1. /\ at[t] = "hold"
      /\ bytes' = [bytes EXCEPT ![i] = v]
      /\ bdirty' = [bdirty EXCEPT ![i] = TRUE]
      /\ at' = [at EXCEPT ![t] = "iderw"]
      /\ UNCHANGED <<blockno, refcnt, bvalid, lru, lockedBy, idequeue, sectors,
                     bp, slept>>
  BY DEF Bwrite
<1>2. /\ i \in Bufs /\ blockno[i] \in DiskBlocks /\ bvalid[i] /\ ~Queued(i)
      /\ idequeue # <<>> => Head(idequeue) \in Bufs /\ Head(idequeue) # i
      /\ \A u \in Threads \ {t} : bp[u] = i => at[u] \notin {"hold", "iderw", "io"}
  BY <1>1, HoldersBuffer
<1>3. \A j : (Queued(j)' <=> Queued(j)) /\ UsersOf(j)' = UsersOf(j)
  BY <1>1 DEF Queued, UsersOf
<1>4. BcacheTypes' /\ ListInv' /\ OneBuffer'
  BY <1>1, <1>2 DEF BcacheTypes, ListInv, OneBuffer
<1>5. UseInv' /\ LockInv' /\ SleepInv'
  BY <1>1, <1>3 DEF UseInv, LockInv, SleepInv, BcacheTypes
<1>6. QueueInv'
  BY <1>1, <1>2, <1>3 DEF QueueInv, BcacheTypes
<1>7. DiskInv'
  BY <1>1, <1>2, NoDevIsNoBlock DEF DiskInv, BcacheTypes, NoDev
<1>8. Pinned' \subseteq Pinned
  BY <1>1, <1>2 DEF Pinned, Writing, BcacheTypes
<1> QED
  BY <1>4, <1>5, <1>6, <1>7, <1>8, PinnedShrinks

\* brelse gives up the lock and wakes those who sleep on it.
LEMMA BrelseKeeps ==
    ASSUME BcacheInv, NEW t \in Threads, Brelse(t)
    PROVE  BcacheInv'
<1> USE DEF BcacheInv
<1> DEFINE i == bp[t]
<1>1. /\ at[t] = "hold"
      /\ lockedBy' = [lockedBy EXCEPT ![i] = Unlocked]
      /\ slept' = slept \ Waiting(i, "acquire")
      /\ at' = [at EXCEPT ![t] = "brelse"]
      /\ UNCHANGED <<blockno, refcnt, bvalid, bdirty, bytes, lru, idequeue,
                     sectors, bp>>
  BY DEF Brelse
<1>2. /\ i \in Bufs /\ ~Queued(i)
      /\ \A u \in Threads \ {t} : bp[u] = i => at[u] \notin {"hold", "iderw", "io"}
  BY <1>1, HoldersBuffer
<1>3. \A j : (Queued(j)' <=> Queued(j)) /\ UsersOf(j)' = UsersOf(j)
  BY <1>1 DEF Queued, UsersOf
<1>4. BcacheTypes' /\ ListInv' /\ OneBuffer' /\ DiskInv'
  BY <1>1, <1>2 DEF BcacheTypes, ListInv, OneBuffer, DiskInv
<1>5. UseInv'
  BY <1>1, <1>3 DEF UseInv, BcacheTypes
<1>6. LockInv'
  BY <1>1, <1>2, FiniteParts DEF LockInv, BcacheTypes
<1>7. QueueInv'
  BY <1>1, <1>2, <1>3 DEF QueueInv, BcacheTypes
<1>8. SleepInv'
  BY <1>1, <1>2, <1>3 DEF SleepInv, BcacheTypes, Waiting
<1>9. Pinned' \subseteq Pinned
  BY <1>1, <1>2 DEF Pinned, Writing, BcacheTypes
<1> QED
  BY <1>4, <1>5, <1>6, <1>7, <1>8, <1>9, PinnedShrinks

\* brelse counts a user less, and moves an unused buffer to the front.
LEMMA UnrefKeeps ==
    ASSUME BcacheInv, NEW t \in Threads, Unref(t)
    PROVE  BcacheInv'
<1> USE DEF BcacheInv
<1> DEFINE i == bp[t]
<1>1. /\ at[t] = "brelse" /\ i \in Bufs
      /\ refcnt' = [refcnt EXCEPT ![i] = @ - 1]
      /\ lru' = lru \/ lru' = MoveToFront(i)
      /\ bp' = [bp EXCEPT ![t] = 0]
      /\ at' = [at EXCEPT ![t] = "user"]
      /\ UNCHANGED <<blockno, bvalid, bdirty, bytes, lockedBy, idequeue, sectors,
                     slept>>
  BY HasBuffer DEF Unref
<1> HIDE DEF i
<1>0. 0 \notin Bufs /\ bp[t] = i
  BY BcacheAssumption DEF Bufs, i
<1>2. refcnt' \in [Bufs -> Nat] /\ \A j \in Bufs : refcnt'[j] = Cardinality(UsersOf(j)')
  BY <1>0, <1>1, UserRemoved
<1>3. lru' \in [Bufs -> Bufs] /\ ListInv'
  <2>1. CASE lru' = lru
    BY <2>1 DEF ListInv, BcacheTypes
  <2>2. CASE lru' = MoveToFront(i)
    BY <1>1, <2>2, MoveToFrontKeeps
  <2> QED
    BY <1>1, <2>1, <2>2
<1>4. \A j : Queued(j)' <=> Queued(j)
  BY <1>1 DEF Queued
<1>5. BcacheTypes' /\ OneBuffer' /\ DiskInv'
  BY <1>1, <1>2, <1>3 DEF BcacheTypes, OneBuffer, DiskInv
<1>6. UseInv'
  BY <1>0, <1>1, <1>2 DEF UseInv, BcacheTypes
<1>7. LockInv'
  BY <1>0, <1>1 DEF LockInv, BcacheTypes
<1>8. QueueInv'
  BY <1>0, <1>1, <1>4 DEF QueueInv, BcacheTypes
<1>9. SleepInv'
  BY <1>1, <1>4 DEF SleepInv, BcacheTypes
<1>10. Pinned' \subseteq Pinned
  BY <1>0, <1>1 DEF Pinned, Writing, BcacheTypes
<1> QED
  BY <1>3, <1>5, <1>6, <1>7, <1>8, <1>9, <1>10, PinnedShrinks

\* The holder of the lock queues its request, once; the disk gets a dirty
\* buffer's contents at once if it was idle.
LEMMA IderwKeeps ==
    ASSUME BcacheInv, NEW t \in Threads, Iderw(t)
    PROVE  BcacheInv'
<1> USE DEF BcacheInv
<1> DEFINE i == bp[t]
<1>1. /\ at[t] = "iderw" /\ i \in Bufs /\ blockno[i] \in DiskBlocks
      /\ idequeue' = Append(idequeue, i)
      /\ sectors' = IF idequeue = <<>> THEN DiskAfterStart(i) ELSE sectors
      /\ at' = [at EXCEPT ![t] = "io"]
      /\ slept' = slept \cup {t}
      /\ UNCHANGED <<blockno, refcnt, bvalid, bdirty, bytes, lru, lockedBy, bp>>
  BY HasBuffer DEF Iderw
<1>2. \A u \in Threads \ {t} : bp[u] = i => at[u] \notin {"hold", "iderw", "io"}
  BY <1>1, OneHolder
<1>3. ~Queued(i)
  BY <1>1, <1>2 DEF QueueInv
<1>4. /\ idequeue' \in Seq(Bufs) /\ idequeue' # <<>>
      /\ \A m, n \in DOMAIN idequeue' : idequeue'[m] = idequeue'[n] => m = n
      /\ \A j \in Bufs : Queued(j)' <=> (Queued(j) \/ j = i)
      /\ Head(idequeue') = IF idequeue = <<>> THEN i ELSE Head(idequeue)
  <2>1. BcacheTypes /\ QueueInv
    OBVIOUS
  <2> QED
    BY <1>1, <1>3, <2>1, AppendQueued
<1>5. sectors' \in [DiskBlocks -> Words]
  BY <1>1 DEF BcacheTypes, DiskAfterStart
<1>6. BcacheTypes' /\ ListInv' /\ OneBuffer'
  BY <1>1, <1>4, <1>5 DEF BcacheTypes, ListInv, OneBuffer
<1>7. UseInv'
  <2>1. \A j : UsersOf(j)' = UsersOf(j)
    BY <1>1 DEF UsersOf
  <2> QED
    BY <1>1, <2>1 DEF UseInv, BcacheTypes
<1>8. LockInv'
  BY <1>1 DEF LockInv, BcacheTypes
<1>9. QueueInv'
  <2>1. \A m, n \in DOMAIN idequeue' : idequeue'[m] = idequeue'[n] => m = n
    BY <1>4
  <2>2. ASSUME NEW j \in Bufs, Queued(j)'
        PROVE  (\E u \in Threads : at'[u] = "io" /\ bp'[u] = j) /\ (~bvalid'[j] \/ bdirty'[j])
    <3>1. CASE j = i
      BY <1>1, <3>1 DEF QueueInv, BcacheTypes
    <3>2. CASE Queued(j)
      BY <1>1, <3>2 DEF QueueInv, BcacheTypes
    <3> QED
      BY <1>4, <2>2, <3>1, <3>2
  <2>3. ASSUME NEW u \in Threads
        PROVE  /\ at'[u] = "io" => Queued(bp[u])' \/ (bvalid'[bp'[u]] /\ ~bdirty'[bp'[u]])
               /\ at'[u] = "iderw" => ~bvalid'[bp'[u]] \/ bdirty'[bp'[u]]
               /\ at'[u] = "hold" => bvalid'[bp'[u]]
    <3>1. CASE u = t
      BY <1>1, <1>4, <3>1 DEF BcacheTypes, Queued
    <3>2. CASE u # t
      <4>1. at'[u] = at[u] /\ bp'[u] = bp[u] /\ (at[u] # "user" => bp[u] \in Bufs)
        BY <1>1, <3>2, HasBuffer DEF BcacheTypes
      <4>2. Queued(bp[u]) /\ bp[u] \in Bufs => Queued(bp[u])'
        BY <1>4, <4>1 DEF Queued
      <4> QED
        BY <1>1, <4>1, <4>2 DEF QueueInv
    <3> QED
      BY <3>1, <3>2
  <2> QED
    BY <2>1, <2>2, <2>3 DEF QueueInv
<1>10. SleepInv'
  <2> SUFFICES ASSUME NEW u \in slept'
               PROVE  \/ at'[u] = "acquire" /\ lockedBy'[bp'[u]] # Unlocked
                      \/ at'[u] = "io" /\ Queued(bp[u])'
    BY DEF SleepInv
  <2>1. CASE u = t
    BY <1>1, <1>4, <2>1 DEF BcacheTypes, Queued
  <2>2. CASE u # t
    <3>1. u \in slept /\ u \in Threads
      BY <1>1, <2>2 DEF BcacheTypes
    <3>2. at'[u] = at[u] /\ bp'[u] = bp[u] /\ (at[u] # "user" => bp[u] \in Bufs)
      BY <1>1, <2>2, <3>1, HasBuffer DEF BcacheTypes
    <3>3. Queued(bp[u]) /\ bp[u] \in Bufs => Queued(bp[u])'
      BY <1>4, <3>2 DEF Queued
    <3> QED
      BY <1>1, <3>1, <3>2, <3>3 DEF SleepInv
  <2> QED
    BY <2>1, <2>2
<1>11. DiskInv'
  <2>1. idequeue # <<>> => Head(idequeue) \in Bufs
    BY HeadTailProperties DEF BcacheTypes
  <2>2. \A j \in Bufs : bdirty'[j] => bvalid'[j] /\ blockno'[j] # NoDev
    BY <1>1 DEF DiskInv
  <2>3. ASSUME NEW j \in Bufs, bvalid'[j], ~bdirty'[j], blockno'[j] # NoDev
        PROVE  bytes'[j] = sectors'[blockno'[j]]
    <3>1. bytes[j] = sectors[blockno[j]]
      BY <1>1, <2>3 DEF DiskInv
    <3>2. CASE j = i \/ ~bdirty[i]
      BY <1>1, <2>3, <3>1, <3>2 DEF DiskAfterStart
    <3>3. CASE j # i
      <4>1. blockno[j] # blockno[i]
        BY <1>1, <2>3, <3>3 DEF OneBuffer
      <4> QED
        BY <1>1, <3>1, <4>1 DEF DiskAfterStart, BcacheTypes
    <3> QED
      BY <3>2, <3>3
  <2>4. ASSUME bdirty'[Head(idequeue')]
        PROVE  bytes'[Head(idequeue')] = sectors'[blockno'[Head(idequeue')]]
    <3>1. CASE idequeue = <<>>
      BY <1>1, <1>4, <2>4, <3>1 DEF DiskAfterStart, BcacheTypes
    <3>2. CASE idequeue # <<>>
      BY <1>1, <1>4, <2>4, <3>2 DEF DiskInv
    <3> QED
      BY <3>1, <3>2
  <2> QED
    BY <2>2, <2>3, <2>4 DEF DiskInv
<1>12. Pinned' \subseteq Pinned
  BY <1>1 DEF Pinned, Writing, BcacheTypes
<1> QED
  BY <1>6, <1>7, <1>8, <1>9, <1>10, <1>11, <1>12, PinnedShrinks

\* A thread that is woken early finds its request still queued and sleeps on.
LEMMA IderwTestKeeps ==
    ASSUME BcacheInv, NEW t \in Threads, IderwTest(t)
    PROVE  BcacheInv'
<1> USE DEF BcacheInv
<1> DEFINE i == bp[t]
<1>1. /\ at[t] = "io" /\ t \notin slept /\ i \in Bufs
      /\ UNCHANGED <<blockno, refcnt, bvalid, bdirty, bytes, lru, lockedBy, idequeue,
                     sectors, bp>>
      /\ \/ bvalid[i] /\ ~bdirty[i] /\ at' = [at EXCEPT ![t] = "hold"] /\ UNCHANGED slept
         \/ ~(bvalid[i] /\ ~bdirty[i]) /\ slept' = slept \cup {t} /\ UNCHANGED at
  BY HasBuffer DEF IderwTest, IoDone
<1>2. \A j : (Queued(j)' <=> Queued(j)) /\ UsersOf(j)' = UsersOf(j)
  BY <1>1 DEF Queued, UsersOf
<1>3. BcacheTypes' /\ ListInv' /\ OneBuffer' /\ DiskInv'
  BY <1>1, ZenonT(30) DEF BcacheTypes, ListInv, OneBuffer, DiskInv
<1>4. UseInv' /\ LockInv'
  BY <1>1, <1>2 DEF UseInv, LockInv, BcacheTypes
<1>5. \A u \in Threads \ {t} : bp[u] = i => at[u] \notin {"hold", "iderw", "io"}
  BY <1>1, OneHolder
<1>6. QueueInv'
  BY <1>1, <1>2, <1>5 DEF QueueInv, BcacheTypes
<1>7. SleepInv'
  BY <1>1, <1>2 DEF SleepInv, QueueInv, BcacheTypes
<1>8. Pinned' \subseteq Pinned
  BY <1>1 DEF Pinned, Writing, BcacheTypes
<1> QED
  BY <1>3, <1>4, <1>6, <1>7, <1>8, PinnedShrinks

\* A wakeup by kill() changes nothing that the cache relies on.
LEMMA KillWakesKeeps ==
    ASSUME BcacheInv, NEW t \in Threads, KillWakes(t)
    PROVE  BcacheInv'
<1> USE DEF BcacheInv
<1>1. /\ slept' = slept \ {t}
      /\ UNCHANGED <<blockno, refcnt, bvalid, bdirty, bytes, lru, lockedBy, idequeue,
                     sectors, at, bp>>
  BY DEF KillWakes
<1>2. \A j : (Queued(j)' <=> Queued(j)) /\ UsersOf(j)' = UsersOf(j)
  BY <1>1 DEF Queued, UsersOf
<1>3. BcacheTypes' /\ ListInv' /\ OneBuffer' /\ DiskInv' /\ UseInv' /\ LockInv'
  BY <1>1, <1>2, SMTT(20) DEF BcacheTypes, ListInv, OneBuffer, DiskInv, UseInv, LockInv
<1>4. QueueInv' /\ SleepInv'
  BY <1>1, <1>2 DEF QueueInv, SleepInv
<1>5. Pinned' \subseteq Pinned
  BY <1>1 DEF Pinned, Writing
<1> QED
  BY <1>3, <1>4, <1>5, PinnedShrinks

\* The end of a request makes its buffer clean and equal to the disk, and only
\* the block of the next request's dirty buffer changes.
LEMMA IdeIntrKeeps ==
    ASSUME BcacheInv, IdeIntr
    PROVE  BcacheInv'
<1> USE DEF BcacheInv
<1> DEFINE i == Head(idequeue)
<1>1. /\ idequeue # <<>> /\ idequeue' = Tail(idequeue)
      /\ bytes' = [bytes EXCEPT ![i] = IF bdirty[i] THEN @ ELSE sectors[blockno[i]]]
      /\ bvalid' = [bvalid EXCEPT ![i] = TRUE]
      /\ bdirty' = [bdirty EXCEPT ![i] = FALSE]
      /\ slept' = slept \ Waiting(i, "io")
      /\ sectors' = NextStarted(Tail(idequeue))
      /\ UNCHANGED <<blockno, refcnt, lru, lockedBy, at, bp>>
  BY DEF IdeIntr
<1>2. /\ i \in Bufs /\ Queued(i) /\ idequeue' \in Seq(Bufs)
      /\ \A m, n \in DOMAIN idequeue' : idequeue'[m] = idequeue'[n] => m = n
      /\ \A j \in Bufs : Queued(j)' <=> (Queued(j) /\ j # i)
      /\ idequeue' # <<>> => Head(idequeue') \in Bufs /\ Queued(Head(idequeue))'
  <2>1. BcacheTypes /\ QueueInv
    OBVIOUS
  <2> QED
    BY <1>1, <2>1, TailQueued
<1> HIDE DEF i
<1>3. PICK t \in Threads : at[t] = "io" /\ bp[t] = i
  BY <1>2 DEF QueueInv
<1>4. blockno[i] \in DiskBlocks
  BY <1>3, HasBuffer
<1>5. \A j \in Bufs : blockno[j] \in DiskBlocks \/ blockno[j] = NoDev
  BY DEF BcacheTypes
<1>6. idequeue' # <<>> => Head(idequeue') # i /\ blockno[Head(idequeue')] \in DiskBlocks
  <2> SUFFICES ASSUME idequeue' # <<>>
               PROVE  Head(idequeue') # i /\ blockno[Head(idequeue')] \in DiskBlocks
    OBVIOUS
  <2> DEFINE h == Head(idequeue')
  <2>1. h \in Bufs /\ Queued(Head(idequeue))'
    BY <1>2
  <2>2. Queued(h) /\ h # i
    <3>1. \E n \in DOMAIN idequeue' : idequeue'[n] = h
      BY <2>1 DEF Queued
    <3>2. ASSUME NEW j \in Bufs, \E n \in DOMAIN idequeue' : idequeue'[n] = j
          PROVE  Queued(j) /\ j # i
      <4>1. Queued(j)'
        BY <3>2 DEF Queued
      <4> QED
        BY <1>2, <4>1
    <3> QED
      BY <2>1, <3>1, <3>2
  <2>3. PICK u \in Threads : at[u] = "io" /\ bp[u] = h
    BY <2>1, <2>2 DEF QueueInv
  <2> QED
    BY <2>2, <2>3, HasBuffer
<1>7. /\ idequeue' = <<>> => sectors' = sectors
      /\ idequeue' # <<>> =>
            sectors' = IF bdirty[Head(idequeue')]
                       THEN [sectors EXCEPT ![blockno[Head(idequeue')]] = bytes[Head(idequeue')]]
                       ELSE sectors
  BY <1>1 DEF NextStarted, DiskAfterStart
<1>8. BcacheTypes' /\ ListInv' /\ OneBuffer'
  <2>1. sectors' \in [DiskBlocks -> Words]
    BY <1>2, <1>7 DEF BcacheTypes
  <2>2. bytes' \in [Bufs -> Words]
    BY <1>1, <1>4 DEF BcacheTypes
  <2> QED
    BY <1>1, <1>2, <2>1, <2>2 DEF BcacheTypes, ListInv, OneBuffer
<1>9. UseInv' /\ LockInv'
  <2>1. \A j : UsersOf(j)' = UsersOf(j)
    BY <1>1 DEF UsersOf
  <2> QED
    BY <1>1, <2>1 DEF UseInv, LockInv
<1>10. QueueInv'
  <2>1. ASSUME NEW j \in Bufs, Queued(j)'
        PROVE  (\E u \in Threads : at'[u] = "io" /\ bp'[u] = j) /\ (~bvalid'[j] \/ bdirty'[j])
    BY <1>1, <1>2, <2>1 DEF QueueInv, BcacheTypes
  <2>2. ASSUME NEW u \in Threads
        PROVE  /\ at'[u] = "io" => Queued(bp[u])' \/ (bvalid'[bp'[u]] /\ ~bdirty'[bp'[u]])
               /\ at'[u] = "iderw" => ~bvalid'[bp'[u]] \/ bdirty'[bp'[u]]
               /\ at'[u] = "hold" => bvalid'[bp'[u]]
    <3> SUFFICES ASSUME at[u] # "user"
                 PROVE  /\ at'[u] = "io" => Queued(bp[u])' \/ (bvalid'[bp'[u]] /\ ~bdirty'[bp'[u]])
                        /\ at'[u] = "iderw" => ~bvalid'[bp'[u]] \/ bdirty'[bp'[u]]
                        /\ at'[u] = "hold" => bvalid'[bp'[u]]
      BY <1>1
    <3>1. at'[u] = at[u] /\ bp'[u] = bp[u] /\ bp[u] \in Bufs
      BY <1>1, HasBuffer
    <3>2. CASE bp[u] = i
      <4>1. bvalid'[i] /\ ~bdirty'[i]
        BY <1>1, <1>2 DEF BcacheTypes
      <4>2. at[u] # "iderw"
        BY <1>3, <3>2, OneHolder
      <4> QED
        BY <3>1, <3>2, <4>1, <4>2
    <3>3. CASE bp[u] # i
      <4>1. bvalid'[bp[u]] = bvalid[bp[u]] /\ bdirty'[bp[u]] = bdirty[bp[u]]
        BY <1>1, <3>1, <3>3 DEF BcacheTypes
      <4>2. Queued(bp[u]) => Queued(bp[u])'
        BY <1>2, <3>1, <3>3 DEF Queued
      <4> QED
        BY <3>1, <4>1, <4>2 DEF QueueInv
    <3> QED
      BY <3>2, <3>3
  <2> QED
    BY <1>2, <2>1, <2>2 DEF QueueInv
<1>11. SleepInv'
  <2> SUFFICES ASSUME NEW u \in slept'
               PROVE  \/ at'[u] = "acquire" /\ lockedBy'[bp'[u]] # Unlocked
                      \/ at'[u] = "io" /\ Queued(bp[u])'
    BY DEF SleepInv
  <2>1. u \in slept /\ u \in Threads /\ ~(bp[u] = i /\ at[u] = "io")
    BY <1>1 DEF BcacheTypes, Waiting
  <2>2. at[u] = "io" /\ Queued(bp[u]) => Queued(bp[u])'
    <3> SUFFICES ASSUME at[u] = "io", Queued(bp[u]) PROVE Queued(bp[u])'
      OBVIOUS
    <3>1. bp[u] \in Bufs /\ bp'[u] = bp[u] /\ bp[u] # i
      BY <1>1, <2>1, HasBuffer
    <3> QED
      BY <1>2, <3>1 DEF Queued
  <2> QED
    BY <1>1, <2>1, <2>2 DEF SleepInv
<1>12. DiskInv'
  <2>1. \A j \in Bufs : bdirty'[j] => bvalid'[j] /\ blockno'[j] # NoDev
    BY <1>1, <1>2 DEF DiskInv, BcacheTypes
  <2>2. ASSUME NEW j \in Bufs, bvalid'[j], ~bdirty'[j], blockno'[j] # NoDev
        PROVE  bytes'[j] = sectors'[blockno'[j]]
    <3>1. bytes'[j] = sectors[blockno[j]]
      <4>1. CASE j = i
        <5>1. bytes'[i] = IF bdirty[i] THEN bytes[i] ELSE sectors[blockno[i]]
          BY <1>1, <1>2 DEF BcacheTypes
        <5> QED
          BY <1>1, <4>1, <5>1 DEF DiskInv, i
      <4>2. CASE j # i
        BY <1>1, <2>2, <4>2 DEF DiskInv, BcacheTypes
      <4> QED
        BY <4>1, <4>2
    <3>2. sectors'[blockno[j]] = sectors[blockno[j]]
      <4>1. CASE idequeue' = <<>> \/ ~bdirty[Head(idequeue')]
        BY <1>7, <4>1
      <4>2. CASE idequeue' # <<>> /\ bdirty[Head(idequeue')]
        <5>1. j # Head(idequeue')
          BY <1>1, <1>2, <1>6, <2>2, <4>2 DEF BcacheTypes
        <5>2. blockno[j] # blockno[Head(idequeue')]
          BY <1>1, <1>2, <2>2, <4>2, <5>1 DEF OneBuffer
        <5> QED
          BY <1>7, <4>2, <5>2, <1>1, <2>2, <1>5 DEF BcacheTypes
      <4> QED
        BY <4>1, <4>2
    <3> QED
      BY <1>1, <3>1, <3>2
  <2>3. ASSUME idequeue' # <<>>, bdirty'[Head(idequeue')]
        PROVE  bytes'[Head(idequeue')] = sectors'[blockno'[Head(idequeue')]]
    <3> DEFINE h == Head(idequeue')
    <3>1. h \in Bufs /\ h # i /\ blockno[h] \in DiskBlocks
      BY <1>2, <1>6, <2>3
    <3>2. bytes'[h] = bytes[h] /\ bdirty[h]
      BY <1>1, <2>3, <3>1 DEF BcacheTypes
    <3>3. sectors' = [sectors EXCEPT ![blockno[h]] = bytes[h]]
      BY <1>7, <2>3, <3>2
    <3> QED
      BY <1>1, <3>1, <3>2, <3>3 DEF BcacheTypes
  <2> QED
    BY <2>1, <2>2, <2>3 DEF DiskInv
<1>13. Pinned' \subseteq Pinned
  BY <1>1, <1>2 DEF Pinned, Writing, BcacheTypes
<1> QED
  BY <1>8, <1>9, <1>10, <1>11, <1>12, <1>13, PinnedShrinks

-----------------------------------------------------------------------------
(* Theorems.                                                               *)

\* Every step keeps the invariant.
LEMMA BcacheNextInv == BcacheInv /\ [BcacheNext]_bcacheVars => BcacheInv'
<1> SUFFICES ASSUME BcacheInv, [BcacheNext]_bcacheVars PROVE BcacheInv'
  OBVIOUS
<1>1. CASE UNCHANGED bcacheVars
  <2>1. \A j : (Queued(j)' <=> Queued(j)) /\ UsersOf(j)' = UsersOf(j)
    BY <1>1 DEF Queued, UsersOf, bcacheVars
  <2>2. BcacheTypes' /\ ListInv' /\ OneBuffer' /\ DiskInv'
    BY <1>1 DEF BcacheInv, BcacheTypes, ListInv, OneBuffer, DiskInv, bcacheVars
  <2>5. UseInv' /\ LockInv'
    BY <1>1, <2>1 DEF BcacheInv, UseInv, LockInv, bcacheVars
  <2>3. QueueInv' /\ SleepInv'
    BY <1>1, <2>1 DEF BcacheInv, QueueInv, SleepInv, bcacheVars
  <2>4. Pinned' \subseteq Pinned
    BY <1>1 DEF Pinned, Writing, bcacheVars
  <2> QED
    BY <2>2, <2>3, <2>4, <2>5, PinnedShrinks DEF BcacheInv
<1>2. CASE IdeIntr
  BY <1>2, IdeIntrKeeps
<1>3. ASSUME NEW t \in Threads, BcacheStep(t) \/ KillWakes(t) PROVE BcacheInv'
  BY <1>3, AcquireSleepKeeps, BrelseKeeps, UnrefKeeps, IderwKeeps, IderwTestKeeps,
     KillWakesKeeps DEF BcacheStep
<1>4. ASSUME NEW t \in Threads, NEW k \in DiskBlocks, BgetHit(t, k) \/ BgetMiss(t, k)
      PROVE  BcacheInv'
  BY <1>4, BgetHitKeeps, BgetMissKeeps
<1>5. ASSUME NEW t \in Threads, NEW v \in Words, LogPin(t, v) \/ Bwrite(t, v)
      PROVE  BcacheInv'
  BY <1>5, LogPinKeeps, BwriteKeeps
<1> QED
  BY <1>1, <1>2, <1>3, <1>4, <1>5 DEF BcacheNext

\* The inductive invariant of the cache and the disk queue.
THEOREM BcacheInvariant == BcacheSpec => []BcacheInv
  BY BcacheInitInv, BcacheNextInv, PTL DEF BcacheSpec

\* The buffers that bget may not take are pinned or have a user: when there are
\* more buffers than that, bget finds one.
LEMMA BufferFound == BuffersSuffice /\ BcacheInv => BuffersLeft
<1> SUFFICES ASSUME BuffersSuffice, BcacheInv,
                    NEW t \in Threads, at[t] = "user", Recyclable = {}
             PROVE  FALSE
  BY DEF BuffersLeft
<1> DEFINE Others == Threads \ {t}
           InUse == {bp[u] : u \in Others}
           user == [u \in Others |-> bp[u]]
<1>1. Bufs \subseteq Pinned \cup InUse
  <2> SUFFICES ASSUME NEW i \in Bufs, i \notin Pinned PROVE i \in InUse
    OBVIOUS
  <2>1. refcnt[i] # 0 \/ bdirty[i]
    BY DEF Recyclable
  <2>2. \E u \in Threads : bp[u] = i
    <3>1. CASE refcnt[i] # 0
      <4>1. UsersOf(i) # {}
        BY <3>1, FS_EmptySet DEF BcacheInv, UseInv
      <4> QED
        BY <4>1 DEF UsersOf
    <3>2. CASE bdirty[i]
      BY <3>2 DEF Pinned, Writing
    <3> QED
      BY <2>1, <3>1, <3>2
  <2>3. bp[t] # i
    BY BcacheAssumption DEF BcacheInv, UseInv, Bufs
  <2> QED
    BY <2>2, <2>3
<1>2. IsFiniteSet(Others) /\ Cardinality(Others) = Cardinality(Threads) - 1
  BY BcacheAssumption, FS_RemoveElement
<1>3. IsFiniteSet(InUse) /\ Cardinality(InUse) <= Cardinality(Others)
  <2>1. user \in Surjection(Others, InUse)
    BY DEF Surjection
  <2> QED
    BY <1>2, <2>1, FS_Surjection
<1> HIDE DEF Others, InUse
<1>4. /\ IsFiniteSet(Pinned \cup InUse)
      /\ Cardinality(Pinned \cup InUse)
            = Cardinality(Pinned) + Cardinality(InUse) - Cardinality(Pinned \cap InUse)
  BY <1>3, FiniteParts, FS_Union
<1>5. Cardinality(Bufs) <= Cardinality(Pinned \cup InUse)
  BY <1>1, <1>4, FS_Subset
<1>6. IsFiniteSet(Pinned \cap InUse)
  <2>1. Pinned \cap InUse \subseteq Pinned
    OBVIOUS
  <2> QED
    BY <2>1, FiniteParts, FS_Subset
<1>7. /\ Cardinality(Pinned) \in Nat /\ Cardinality(InUse) \in Nat
      /\ Cardinality(Pinned \cap InUse) \in Nat /\ Cardinality(Threads) \in Nat
  BY <1>3, <1>6, FiniteParts, BcacheAssumption, FS_CardinalityType
<1>8. Cardinality(Bufs) = NBUF /\ Cardinality(Pinned) <= MaxPinned
  BY FiniteParts DEF BcacheInv, PinInv
<1> HIDE DEF Others
<1> QED
  BY <1>2, <1>3, <1>4, <1>5, <1>7, <1>8, BcacheAssumption DEF BuffersSuffice

\* The list is a permutation of the buffers, the reference counts are right,
\* and no block is in two buffers (bget, brelse).
THEOREM CacheTyped == BcacheSpec => []BcacheTypeOK
<1>1. BcacheInv => BcacheTypeOK
  <2> SUFFICES ASSUME BcacheInv PROVE BcacheTypeOK
    OBVIOUS
  <2> USE DEF BcacheInv
  <2>1. {lru[n] : n \in Bufs} = Bufs
    BY DEF BcacheTypes, ListInv
  <2>2. \A i \in Bufs : refcnt[i] = Cardinality({t \in Threads : bp[t] = i})
    BY DEF UseInv, UsersOf
  <2>3. slept \subseteq {t \in Threads : at[t] \in {"acquire", "io"}}
    BY DEF BcacheTypes, SleepInv
  <2> QED
    BY <2>1, <2>2, <2>3 DEF BcacheTypeOK
<1> QED
  BY <1>1, BcacheInvariant, PTL

\* No lost wakeup in acquiresleep and iderw: whoever sleeps waits for a lock
\* that is held or for a request that is in the queue.
THEOREM SleepersAreServed == BcacheSpec => []SleepersServed
<1>1. BcacheInv => SleepersServed
  <2> SUFFICES ASSUME BcacheInv PROVE SleepersServed
    OBVIOUS
  <2> USE DEF BcacheInv
  <2>1. ASSUME NEW n \in DOMAIN idequeue
        PROVE  \E t \in Threads : /\ at[t] = "io" /\ bp[t] = idequeue[n]
                                  /\ lockedBy[bp[t]] = t
    <3>1. idequeue[n] \in Bufs /\ Queued(idequeue[n])
      BY DEF BcacheTypes, Queued
    <3>2. PICK t \in Threads : at[t] = "io" /\ bp[t] = idequeue[n]
      BY <3>1 DEF QueueInv
    <3> QED
      BY <3>1, <3>2 DEF LockInv
  <2>2. \A t \in slept :
          \/ at[t] = "acquire" /\ lockedBy[bp[t]] # Unlocked
          \/ at[t] = "io" /\ \E n \in DOMAIN idequeue : idequeue[n] = bp[t]
    BY DEF SleepInv, Queued
  <2>3. \A m, n \in DOMAIN idequeue : idequeue[m] = idequeue[n] => m = n
    BY DEF QueueInv
  <2> QED
    BY <2>1, <2>2, <2>3 DEF SleepersServed
<1> QED
  BY <1>1, BcacheInvariant, PTL

\* bread returns a locked, valid buffer that the disk is not working on, and
\* iderw never panics with "nothing to do".
THEOREM HoldersValid == BcacheSpec => []HoldsValid
<1>1. BcacheInv => HoldsValid
  <2> SUFFICES ASSUME BcacheInv PROVE HoldsValid
    OBVIOUS
  <2>1. ASSUME NEW t \in Threads
        PROVE  /\ at[t] \in {"hold", "iderw", "io"} => lockedBy[bp[t]] = t
               /\ at[t] = "hold" =>
                    bvalid[bp[t]] /\ \A n \in DOMAIN idequeue : idequeue[n] # bp[t]
               /\ at[t] = "iderw" => ~bvalid[bp[t]] \/ bdirty[bp[t]]
    <3>1. at[t] \in {"hold", "iderw", "io"} => lockedBy[bp[t]] = t
      BY HasBuffer DEF BcacheInv, LockInv
    <3>2. at[t] = "hold" => bvalid[bp[t]] /\ ~Queued(bp[t])
      BY HoldersBuffer
    <3>3. at[t] = "iderw" => ~bvalid[bp[t]] \/ bdirty[bp[t]]
      BY DEF BcacheInv, QueueInv
    <3> QED
      BY <3>1, <3>2, <3>3 DEF Queued
  <2> QED
    BY <2>1 DEF HoldsValid
<1> QED
  BY <1>1, BcacheInvariant, PTL

\* How many buffers keep bget from panicking (bio.c:146): one for each block that
\* the log may pin and one for each thread.  param.h gives fewer, NBUF = LOGSIZE,
\* and BuffersLeft is then false.
THEOREM BuffersSufficient == BuffersSuffice => (BcacheSpec => []BuffersLeft)
<1>1. CASE BuffersSuffice
  <2>1. BcacheInv => BuffersLeft
    BY <1>1, BufferFound
  <2>2. BcacheSpec => []BuffersLeft
    BY <2>1, BcacheInvariant, PTL
  <2> QED
    BY <2>2
<1>2. CASE ~BuffersSuffice
  BY <1>2
<1> QED
  BY <1>1, <1>2

-----------------------------------------------------------------------------
(* The cache implements the store of blocks.                               *)

\* What the refinement maps content and holder to.
ContentOf(k) ==
    IF \E i \in Cached(k) : bvalid[i]
    THEN bytes[CHOOSE i \in Cached(k) : bvalid[i]] ELSE sectors[k]
HolderOf(k) ==
    IF Cached(k) = {} THEN Unlocked ELSE lockedBy[CHOOSE i \in Cached(k) : TRUE]

\* A cached block's contents are its buffer's once that is valid, and its
\* holder is who has the buffer's lock; any other block is on the disk only.
Views ==
    \A k \in DiskBlocks :
        /\ \A i \in Bufs : blockno[i] = k =>
              /\ ContentOf(k) = IF bvalid[i] THEN bytes[i] ELSE sectors[k]
              /\ HolderOf(k) = lockedBy[i]
        /\ (\A i \in Bufs : blockno[i] # k) =>
              ContentOf(k) = sectors[k] /\ HolderOf(k) = Unlocked

\* One buffer at most for each block makes the choices unique.
LEMMA ViewsHold == BcacheInv => Views
<1> SUFFICES ASSUME BcacheInv, NEW k \in DiskBlocks
             PROVE  /\ \A i \in Bufs : blockno[i] = k =>
                          /\ ContentOf(k) = IF bvalid[i] THEN bytes[i] ELSE sectors[k]
                          /\ HolderOf(k) = lockedBy[i]
                    /\ (\A i \in Bufs : blockno[i] # k) =>
                          ContentOf(k) = sectors[k] /\ HolderOf(k) = Unlocked
  BY DEF Views
<1>1. ASSUME NEW i \in Bufs, blockno[i] = k
      PROVE  /\ ContentOf(k) = IF bvalid[i] THEN bytes[i] ELSE sectors[k]
             /\ HolderOf(k) = lockedBy[i]
  <2>1. Cached(k) = {i}
    BY <1>1, NoDevIsNoBlock DEF BcacheInv, OneBuffer, Cached, NoDev
  <2>2. (CHOOSE j \in Cached(k) : TRUE) = i
    BY <2>1
  <2>3. bvalid[i] => (CHOOSE j \in Cached(k) : bvalid[j]) = i
    BY <2>1
  <2> QED
    BY <2>1, <2>2, <2>3 DEF ContentOf, HolderOf
<1>2. ASSUME \A i \in Bufs : blockno[i] # k
      PROVE  ContentOf(k) = sectors[k] /\ HolderOf(k) = Unlocked
  BY <1>2 DEF Cached, ContentOf, HolderOf
<1> QED
  BY <1>1, <1>2

\* The same of the next state.
LEMMA ViewsNext == BcacheInv' => Views'
  BY ViewsHold, PTL

\* Steps that neither move a block nor touch its buffer or its lock are not seen.
LEMMA Unseen ==
    ASSUME UNCHANGED <<blockno, bvalid, bytes, sectors, lockedBy>>, NEW k \in DiskBlocks
    PROVE  ContentOf(k)' = ContentOf(k) /\ HolderOf(k)' = HolderOf(k)
  BY DEF ContentOf, HolderOf, Cached

\* Recycling is not seen: the old block's contents are on the disk, the new
\* block's are not in the cache yet.
LEMMA RecyclingUnseen ==
    ASSUME BcacheInv, BcacheInv', NEW t \in Threads, NEW k \in DiskBlocks, BgetMiss(t, k),
           NEW m \in DiskBlocks
    PROVE  ContentOf(m)' = ContentOf(m) /\ HolderOf(m)' = HolderOf(m)
<1> DEFINE i == LeastRecent(Recyclable)
<1>1. /\ \A j \in Bufs : blockno[j] # k
      /\ Recyclable # {}
      /\ blockno' = [blockno EXCEPT ![i] = k]
      /\ bvalid' = [bvalid EXCEPT ![i] = FALSE]
      /\ bytes' = [bytes EXCEPT ![i] = NoBytes]
      /\ UNCHANGED <<lockedBy, sectors>>
  BY DEF BgetMiss, Cached
<1>2. i \in Bufs /\ refcnt[i] = 0 /\ ~bdirty[i]
  <2>1. Recyclable \subseteq Bufs
    BY DEF Recyclable
  <2>2. i \in Recyclable
    BY <1>1, <2>1, LeastRecentIn DEF BcacheInv
  <2> QED
    BY <2>2 DEF Recyclable
<1>3. lockedBy[i] = Unlocked
  BY <1>2, UnusedBuffer
<1> HIDE DEF i
<1>4. Views /\ Views'
  BY ViewsHold, ViewsNext
<1>5. /\ \A j \in Bufs \ {i} : /\ blockno'[j] = blockno[j] /\ bvalid'[j] = bvalid[j]
                               /\ bytes'[j] = bytes[j] /\ lockedBy'[j] = lockedBy[j]
      /\ blockno'[i] = k /\ ~bvalid'[i] /\ lockedBy'[i] = Unlocked
  BY <1>1, <1>2, <1>3 DEF BcacheInv, BcacheTypes
<1>6. CASE m = k
  <2>1. ContentOf(m) = sectors[m] /\ HolderOf(m) = Unlocked
    BY <1>1, <1>4, <1>6 DEF Views
  <2>2. ContentOf(m)' = sectors'[m] /\ HolderOf(m)' = Unlocked
    BY <1>2, <1>4, <1>5, <1>6 DEF Views
  <2> QED
    BY <1>1, <2>1, <2>2
<1>7. CASE m # k /\ blockno[i] = m
  <2>1. ContentOf(m) = sectors[m] /\ HolderOf(m) = Unlocked
    BY <1>2, <1>3, <1>4, <1>7, NoDevIsNoBlock DEF Views, BcacheInv, DiskInv, NoDev
  <2>2. \A j \in Bufs : blockno'[j] # m
    BY <1>2, <1>5, <1>7, NoDevIsNoBlock DEF BcacheInv, OneBuffer, NoDev
  <2>3. ContentOf(m)' = sectors'[m] /\ HolderOf(m)' = Unlocked
    BY <1>4, <2>2 DEF Views
  <2> QED
    BY <1>1, <2>1, <2>3
<1>8. CASE m # k /\ blockno[i] # m /\ \A j \in Bufs : blockno[j] # m
  <2>1. \A j \in Bufs : blockno'[j] # m
    BY <1>5, <1>8
  <2>2. ContentOf(m)' = sectors'[m] /\ HolderOf(m)' = Unlocked
    BY <1>4, <2>1 DEF Views
  <2> QED
    BY <1>1, <1>4, <1>8, <2>2 DEF Views
<1>9. ASSUME m # k, blockno[i] # m, NEW j \in Bufs, blockno[j] = m
      PROVE  ContentOf(m)' = ContentOf(m) /\ HolderOf(m)' = HolderOf(m)
  <2>1. j # i /\ blockno'[j] = m
    BY <1>5, <1>9
  <2>2. /\ ContentOf(m) = IF bvalid[j] THEN bytes[j] ELSE sectors[m]
        /\ HolderOf(m) = lockedBy[j]
    BY <1>4, <1>9 DEF Views
  <2>3. /\ ContentOf(m)' = IF bvalid'[j] THEN bytes'[j] ELSE sectors'[m]
        /\ HolderOf(m)' = lockedBy'[j]
    BY <1>4, <2>1 DEF Views
  <2> QED
    BY <1>1, <1>5, <2>1, <2>2, <2>3
<1> QED
  BY <1>6, <1>7, <1>8, <1>9

\* A step of the disk is not seen: it writes a dirty buffer's contents to that
\* buffer's block, or fills a buffer that is not valid with what is on the disk.
LEMMA DiskUnseen ==
    ASSUME BcacheInv, BcacheInv', UNCHANGED <<blockno, lockedBy>>,
           \A j \in Bufs : \/ bvalid'[j] = bvalid[j] /\ bytes'[j] = bytes[j]
                           \/ bvalid'[j] /\ bytes'[j] = IF bdirty[j] THEN bytes[j]
                                                        ELSE sectors[blockno[j]],
           \A k \in DiskBlocks :
              sectors'[k] = sectors[k] \/ \E j \in Bufs : bdirty[j] /\ blockno[j] = k,
           NEW m \in DiskBlocks
    PROVE  ContentOf(m)' = ContentOf(m) /\ HolderOf(m)' = HolderOf(m)
<1>1. Views /\ Views'
  BY ViewsHold, ViewsNext
<1>2. CASE \A j \in Bufs : blockno[j] # m
  <2>1. \A j \in Bufs : blockno'[j] # m
    BY <1>2
  <2>2. ContentOf(m)' = sectors'[m] /\ HolderOf(m)' = Unlocked
    BY <1>1, <2>1 DEF Views
  <2> QED
    BY <1>1, <1>2, <2>2 DEF Views
<1>3. ASSUME NEW j \in Bufs, blockno[j] = m
      PROVE  ContentOf(m)' = ContentOf(m) /\ HolderOf(m)' = HolderOf(m)
  <2>1. /\ ContentOf(m) = IF bvalid[j] THEN bytes[j] ELSE sectors[m]
        /\ HolderOf(m) = lockedBy[j]
    BY <1>1, <1>3 DEF Views
  <2>2. blockno'[j] = m
    BY <1>3
  <2>3. /\ ContentOf(m)' = IF bvalid'[j] THEN bytes'[j] ELSE sectors'[m]
        /\ HolderOf(m)' = lockedBy'[j]
    BY <1>1, <2>2 DEF Views
  <2>4. (bdirty[j] => bvalid[j]) /\ (bvalid[j] /\ ~bdirty[j] => bytes[j] = sectors[m])
    BY <1>3, NoDevIsNoBlock DEF BcacheInv, DiskInv, NoDev
  <2>5. ~bdirty[j] => sectors'[m] = sectors[m]
    BY <1>3, NoDevIsNoBlock DEF BcacheInv, OneBuffer, NoDev
  <2> QED
    BY <1>3, <2>1, <2>3, <2>4, <2>5
<1> QED
  BY <1>2, <1>3

\* What is done to one buffer is seen in its block only.
LEMMA OthersUnseen ==
    ASSUME BcacheInv, BcacheInv', NEW i \in Bufs, UNCHANGED <<blockno, bvalid, sectors>>,
           \A j \in Bufs \ {i} : bytes'[j] = bytes[j] /\ lockedBy'[j] = lockedBy[j],
           NEW m \in DiskBlocks, m # blockno[i]
    PROVE  ContentOf(m)' = ContentOf(m) /\ HolderOf(m)' = HolderOf(m)
<1>1. Views /\ Views'
  BY ViewsHold, ViewsNext
<1>2. CASE \A j \in Bufs : blockno[j] # m
  <2>1. \A j \in Bufs : blockno'[j] # m
    BY <1>2
  <2>2. ContentOf(m)' = sectors'[m] /\ HolderOf(m)' = Unlocked
    BY <1>1, <2>1 DEF Views
  <2> QED
    BY <1>1, <1>2, <2>2 DEF Views
<1>3. ASSUME NEW j \in Bufs, blockno[j] = m
      PROVE  ContentOf(m)' = ContentOf(m) /\ HolderOf(m)' = HolderOf(m)
  <2>1. /\ ContentOf(m) = IF bvalid[j] THEN bytes[j] ELSE sectors[m]
        /\ HolderOf(m) = lockedBy[j]
    BY <1>1, <1>3 DEF Views
  <2>2. blockno'[j] = m /\ j # i
    BY <1>3
  <2>3. /\ ContentOf(m)' = IF bvalid'[j] THEN bytes'[j] ELSE sectors'[m]
        /\ HolderOf(m)' = lockedBy'[j]
    BY <1>1, <2>2 DEF Views
  <2> QED
    BY <2>1, <2>2, <2>3
<1> QED
  BY <1>2, <1>3

\* The cache implements the store of blocks: hits, recycling, queueing and
\* the disk's own steps are invisible, acquiresleep takes a block, log_write
\* and bwrite store into it, releasesleep gives it back.
THEOREM CacheImplementsStore == BcacheSpec => CacheIsStore
<1> DEFINE C == [k \in DiskBlocks |-> ContentOf(k)]
           H == [k \in DiskBlocks |-> HolderOf(k)]
<1>0. /\ \A t \in Threads, k \in DiskBlocks :
            H[k] = Unlocked /\ H' = [H EXCEPT ![k] = t] /\ C' = C => S!Take(t, k)
      /\ \A t \in Threads, k \in DiskBlocks :
            H[k] = t /\ H' = [H EXCEPT ![k] = Unlocked] /\ C' = C => S!Give(t, k)
      /\ \A t \in Threads, k \in DiskBlocks, v \in Words :
            H[k] = t /\ C' = [C EXCEPT ![k] = v] /\ H' = H => S!Store(t, k, v)
      /\ H' = H /\ C' = C => UNCHANGED S!storeVars
  BY DEF S!Take, S!Give, S!Store, S!storeVars, ContentOf, HolderOf
<1>1. BcacheInit => S!StoreInit
  <2> SUFFICES ASSUME BcacheInit PROVE S!StoreInit
    OBVIOUS
  <2>1. Views
    BY BcacheInitInv, ViewsHold
  <2>2. \A i \in Bufs : blockno[i] \notin DiskBlocks
    BY NoDevIsNoBlock DEF BcacheInit, NoDev
  <2>3. ASSUME NEW k \in DiskBlocks PROVE ContentOf(k) \in Words /\ HolderOf(k) = Unlocked
    BY <2>1, <2>2, NoBytesIn DEF Views, BcacheInit
  <2> QED
    BY <2>3 DEF S!StoreInit, ContentOf, HolderOf
<1> HIDE DEF C, H
<1>2. ASSUME BcacheInv, BcacheInv', [BcacheNext]_bcacheVars
      PROVE  [S!StoreNext]_S!storeVars
  <2>1. Views /\ Views'
    BY <1>2, ViewsHold, ViewsNext
  <2>2. ASSUME \A k \in DiskBlocks : ContentOf(k)' = ContentOf(k) /\ HolderOf(k)' = HolderOf(k)
        PROVE  UNCHANGED S!storeVars
    BY <1>0, <2>2 DEF C, H
  <2>3. ASSUME UNCHANGED <<blockno, bvalid, bytes, sectors, lockedBy>>
        PROVE  UNCHANGED S!storeVars
    BY <2>2, <2>3, Unseen
  <2>4. ASSUME NEW t \in Threads, NEW k \in DiskBlocks, BgetMiss(t, k)
        PROVE  UNCHANGED S!storeVars
    BY <1>2, <2>2, <2>4, RecyclingUnseen
  <2>5. ASSUME NEW t \in Threads, Iderw(t) PROVE UNCHANGED S!storeVars
    <3>1. bp[t] \in Bufs
      BY <1>2, <2>5, HasBuffer DEF Iderw
    <3>2. UNCHANGED <<blockno, lockedBy, bvalid, bytes>>
      BY <2>5 DEF Iderw
    <3>3. \A k \in DiskBlocks :
              sectors'[k] = sectors[k] \/ \E j \in Bufs : bdirty[j] /\ blockno[j] = k
      BY <1>2, <2>5, <3>1 DEF Iderw, DiskAfterStart, BcacheInv, BcacheTypes
    <3> QED
      BY <1>2, <2>2, <3>2, <3>3, DiskUnseen
  <2>6. CASE IdeIntr
    <3> DEFINE i == Head(idequeue)
    <3>1. /\ idequeue # <<>> /\ idequeue' = Tail(idequeue)
          /\ bytes' = [bytes EXCEPT ![i] = IF bdirty[i] THEN @ ELSE sectors[blockno[i]]]
          /\ bvalid' = [bvalid EXCEPT ![i] = TRUE]
          /\ sectors' = NextStarted(idequeue')
          /\ UNCHANGED <<blockno, lockedBy>>
      BY <2>6 DEF IdeIntr
    <3>2. i \in Bufs /\ (idequeue' # <<>> => Head(idequeue') \in Bufs)
      BY <1>2, <3>1, TailQueued DEF BcacheInv
    <3>3. \A j \in Bufs : \/ bvalid'[j] = bvalid[j] /\ bytes'[j] = bytes[j]
                          \/ bvalid'[j] /\ bytes'[j] = IF bdirty[j] THEN bytes[j]
                                                       ELSE sectors[blockno[j]]
      BY <1>2, <3>1, <3>2, ZenonT(30) DEF BcacheInv, BcacheTypes
    <3>4. \A k \in DiskBlocks :
              sectors'[k] = sectors[k] \/ \E j \in Bufs : bdirty[j] /\ blockno[j] = k
      BY <1>2, <3>1, <3>2 DEF NextStarted, DiskAfterStart, BcacheInv, BcacheTypes
    <3> QED
      BY <1>2, <2>2, <3>1, <3>3, <3>4, DiskUnseen
  <2>7. ASSUME NEW t \in Threads, AcquireSleep(t)
        PROVE  UNCHANGED S!storeVars \/ \E k \in DiskBlocks : S!Take(t, k)
    <3>0. PICK i, k : i = bp[t] /\ k = blockno[i]
      OBVIOUS
    <3>1. i \in Bufs /\ k \in DiskBlocks
      BY <1>2, <2>7, <3>0, HasBuffer DEF AcquireSleep
    <3>2. UNCHANGED <<blockno, bvalid, bytes, sectors>>
      BY <2>7 DEF AcquireSleep
    <3>3. CASE UNCHANGED lockedBy
      BY <2>3, <3>2, <3>3
    <3>4. CASE lockedBy[i] = Unlocked /\ lockedBy' = [lockedBy EXCEPT ![i] = t]
      <4>1. \A m \in DiskBlocks : ContentOf(m)' = ContentOf(m)
        BY <3>2 DEF ContentOf, Cached
      <4>2. HolderOf(k) = Unlocked /\ HolderOf(k)' = t
        BY <1>2, <2>1, <3>0, <3>1, <3>2, <3>4 DEF Views, BcacheInv, BcacheTypes
      <4>3. \A m \in DiskBlocks \ {k} : HolderOf(m)' = HolderOf(m)
        <5>1. \A j \in Bufs \ {i} : bytes'[j] = bytes[j] /\ lockedBy'[j] = lockedBy[j]
          BY <1>2, <3>1, <3>2, <3>4 DEF BcacheInv, BcacheTypes
        <5> QED
          BY <1>2, <3>0, <3>1, <3>2, <5>1, OthersUnseen
      <4>4. H[k] = Unlocked /\ H' = [H EXCEPT ![k] = t] /\ C' = C
        BY <3>1, <4>1, <4>2, <4>3 DEF C, H
      <4> QED
        BY <1>0, <3>1, <4>4
    <3> QED
      BY <2>7, <3>0, <3>3, <3>4 DEF AcquireSleep
  <2>8. ASSUME NEW t \in Threads, Brelse(t) PROVE \E k \in DiskBlocks : S!Give(t, k)
    <3>0. PICK i, k : i = bp[t] /\ k = blockno[i]
      OBVIOUS
    <3>1. i \in Bufs /\ k \in DiskBlocks /\ lockedBy[i] = t
      BY <1>2, <2>8, <3>0, HasBuffer DEF Brelse, BcacheInv, LockInv
    <3>2. UNCHANGED <<blockno, bvalid, bytes, sectors>>
          /\ lockedBy' = [lockedBy EXCEPT ![i] = Unlocked]
      BY <2>8, <3>0 DEF Brelse
    <3>3. \A m \in DiskBlocks : ContentOf(m)' = ContentOf(m)
      BY <3>2 DEF ContentOf, Cached
    <3>4. HolderOf(k) = t /\ HolderOf(k)' = Unlocked
      BY <1>2, <2>1, <3>0, <3>1, <3>2 DEF Views, BcacheInv, BcacheTypes
    <3>5. \A m \in DiskBlocks \ {k} : HolderOf(m)' = HolderOf(m)
      <4>1. \A j \in Bufs \ {i} : bytes'[j] = bytes[j] /\ lockedBy'[j] = lockedBy[j]
        BY <1>2, <3>1, <3>2 DEF BcacheInv, BcacheTypes
      <4> QED
        BY <1>2, <3>0, <3>1, <3>2, <4>1, OthersUnseen
    <3>6. H[k] = t /\ H' = [H EXCEPT ![k] = Unlocked] /\ C' = C
      BY <3>1, <3>3, <3>4, <3>5 DEF C, H
    <3> QED
      BY <1>0, <3>1, <3>6
  <2>9. ASSUME NEW t \in Threads, NEW v \in Words, LogPin(t, v) \/ Bwrite(t, v)
        PROVE  \E k \in DiskBlocks : S!Store(t, k, v)
    <3>0. PICK i, k : i = bp[t] /\ k = blockno[i]
      OBVIOUS
    <3>1. i \in Bufs /\ k \in DiskBlocks /\ lockedBy[i] = t /\ bvalid[i]
      BY <1>2, <2>9, <3>0, HasBuffer DEF LogPin, Bwrite, BcacheInv, LockInv, QueueInv
    <3>2. UNCHANGED <<blockno, bvalid, lockedBy, sectors>>
          /\ bytes' = [bytes EXCEPT ![i] = v]
      BY <2>9, <3>0 DEF LogPin, Bwrite
    <3>3. \A m \in DiskBlocks : HolderOf(m)' = HolderOf(m)
      BY <3>2 DEF HolderOf, Cached
    <3>4. HolderOf(k) = t /\ ContentOf(k)' = v
      BY <1>2, <2>1, <3>0, <3>1, <3>2 DEF Views, BcacheInv, BcacheTypes
    <3>5. \A m \in DiskBlocks \ {k} : ContentOf(m)' = ContentOf(m)
      <4>1. \A j \in Bufs \ {i} : bytes'[j] = bytes[j] /\ lockedBy'[j] = lockedBy[j]
        BY <1>2, <3>1, <3>2 DEF BcacheInv, BcacheTypes
      <4> QED
        BY <1>2, <3>0, <3>1, <3>2, <4>1, OthersUnseen
    <3>6. H[k] = t /\ C' = [C EXCEPT ![k] = v] /\ H' = H
      BY <3>1, <3>3, <3>4, <3>5 DEF C, H
    <3> QED
      BY <1>0, <3>1, <3>6
  <2>10. ASSUME NEW t \in Threads,
                (\E k \in DiskBlocks : BgetHit(t, k)) \/ Unref(t) \/ IderwTest(t) \/ KillWakes(t)
         PROVE  UNCHANGED <<blockno, bvalid, bytes, sectors, lockedBy>>
    BY <2>10 DEF BgetHit, Unref, IderwTest, KillWakes
  <2>11. CASE UNCHANGED bcacheVars
    BY <2>3, <2>11 DEF bcacheVars
  <2> QED
    BY <1>2, <2>3, <2>4, <2>5, <2>6, <2>7, <2>8, <2>9, <2>10, <2>11
       DEF BcacheNext, BcacheStep, S!StoreNext
<1> QED
  BY <1>1, <1>2, BcacheInvariant, PTL DEF BcacheSpec, CacheIsStore, S!StoreSpec
=============================================================================

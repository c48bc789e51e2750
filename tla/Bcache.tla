------------------------------- MODULE Bcache -------------------------------
(***************************************************************************)
(* The buffer cache and the IDE driver of project3/xv6-public: bio.c, ide.c *)
(* and the sleep locks of the buffers (sleeplock.c).  A section under       *)
(* bcache.lock, a sleep lock's spinlock or idelock is one action.  Threads  *)
(* are processes inside the kernel, each with at most one buffer.  The disk *)
(* makes no errors.                                                         *)
(***************************************************************************)
EXTENDS Integers, Sequences, FiniteSets

CONSTANTS
    NBUF,         \* param.h: the size of the cache
    DiskBlocks,   \* the blocks of the device
    Writable,     \* the blocks that anybody writes
    Words,        \* what a block may contain
    Threads,
    MaxPinned     \* the blocks that the log may have modified and not installed:
                  \* log.size - 1 in the code

ASSUME BcacheAssumption ==
    /\ NBUF \in Nat /\ MaxPinned \in Nat
    /\ Writable \subseteq DiskBlocks
    /\ IsFiniteSet(Threads) /\ "nobody" \notin Threads
    /\ Words # {}

ASSUME NoDevIsNoBlock == 0 \notin DiskBlocks

VARIABLES
    blockno,      \* b->blockno, NoDev before first use (another device)
    refcnt, bvalid, bdirty, bytes,
    lru,          \* the list of buffers from head.next: most recent first
    lockedBy,     \* b->lock
    idequeue,     \* the requests; the disk works on the first
    sectors,
    at,           \* where each thread is
    bp,           \* the buffer each thread uses, 0 for none
    slept         \* the threads that sleep, on bp's lock or on its request

bcacheVars == <<blockno, refcnt, bvalid, bdirty, bytes, lru, lockedBy, idequeue,
                sectors, at, bp, slept>>

Bufs == 1..NBUF
NoDev == 0
NoBytes == CHOOSE v \in Words : TRUE
Unlocked == "nobody"

\* binit puts each buffer at the front of the list.
BcacheInit ==
    /\ blockno = [i \in Bufs |-> NoDev]
    /\ refcnt = [i \in Bufs |-> 0]
    /\ bvalid = [i \in Bufs |-> FALSE]
    /\ bdirty = [i \in Bufs |-> FALSE]
    /\ bytes = [i \in Bufs |-> NoBytes]
    /\ lru = [n \in Bufs |-> NBUF + 1 - n]
    /\ lockedBy = [i \in Bufs |-> Unlocked]
    /\ idequeue = <<>>
    /\ sectors = [k \in DiskBlocks |-> NoBytes]
    /\ at = [t \in Threads |-> "user"]
    /\ bp = [t \in Threads |-> 0]
    /\ slept = {}

-----------------------------------------------------------------------------
(* bget.                                                                   *)

\* Mutant of Cached: an unused buffer is not looked at.
CachedInUse(k) == {i \in Bufs : blockno[i] = k /\ refcnt[i] > 0}

Cached(k) == {i \in Bufs : blockno[i] = k}

\* Mutant of Recyclable: a buffer that only the log still needs is given away.
RecyclableDirty == {i \in Bufs : refcnt[i] = 0}

\* "Even if refcnt==0, B_DIRTY indicates a buffer is in use".
Recyclable == {i \in Bufs : refcnt[i] = 0 /\ ~bdirty[i]}

\* The buffer of S that comes last in the list.
LeastRecent(S) ==
    lru[CHOOSE n \in Bufs :
            lru[n] \in S /\ \A m \in n + 1..NBUF : lru[m] \notin S]

BgetHit(t, k) ==
    /\ at[t] = "user"
    /\ Cached(k) # {}
    /\ LET i == CHOOSE i \in Cached(k) : TRUE
       IN  /\ refcnt' = [refcnt EXCEPT ![i] = @ + 1]
           /\ bp' = [bp EXCEPT ![t] = i]
    /\ at' = [at EXCEPT ![t] = "acquire"]
    /\ UNCHANGED <<blockno, bvalid, bdirty, bytes, lru, lockedBy, idequeue,
                   sectors, slept>>

\* Not cached: recycle the least recently used buffer.  (With none to recycle
\* bget panics: BuffersLeft.)  Its bytes are dead until the disk is read.
BgetMiss(t, k) ==
    /\ at[t] = "user"
    /\ Cached(k) = {}
    /\ Recyclable # {}
    /\ LET i == LeastRecent(Recyclable)
       IN  /\ blockno' = [blockno EXCEPT ![i] = k]
           /\ bvalid' = [bvalid EXCEPT ![i] = FALSE]
           /\ bdirty' = [bdirty EXCEPT ![i] = FALSE]
           /\ bytes' = [bytes EXCEPT ![i] = NoBytes]
           /\ refcnt' = [refcnt EXCEPT ![i] = 1]
           /\ bp' = [bp EXCEPT ![t] = i]
    /\ at' = [at EXCEPT ![t] = "acquire"]
    /\ UNCHANGED <<lru, lockedBy, idequeue, sectors, slept>>

\* One test of the loop in acquiresleep.  Then bread goes on to the disk if
\* the buffer is not valid.
AcquireSleep(t) ==
    /\ at[t] = "acquire" /\ t \notin slept
    /\ LET i == bp[t]
       IN  \/ /\ lockedBy[i] # Unlocked
              /\ slept' = slept \cup {t}
              /\ UNCHANGED <<lockedBy, at>>
           \/ /\ lockedBy[i] = Unlocked
              /\ lockedBy' = [lockedBy EXCEPT ![i] = t]
              /\ at' = [at EXCEPT ![t] = IF bvalid[i] THEN "hold" ELSE "iderw"]
              /\ UNCHANGED slept
    /\ UNCHANGED <<blockno, refcnt, bvalid, bdirty, bytes, lru, idequeue,
                   sectors, bp>>

-----------------------------------------------------------------------------
(* What a holder does with its buffer.                                     *)

\* log_write: the new contents stay in the cache, pinned by B_DIRTY.
LogPin(t, v) ==
    /\ at[t] = "hold" /\ blockno[bp[t]] \in Writable
    /\ Cardinality({i \in Bufs : bdirty[i]} \cup {bp[t]}) <= MaxPinned
    /\ bytes' = [bytes EXCEPT ![bp[t]] = v]
    /\ bdirty' = [bdirty EXCEPT ![bp[t]] = TRUE]
    /\ UNCHANGED <<blockno, refcnt, bvalid, lru, lockedBy, idequeue, sectors,
                   at, bp, slept>>

\* bwrite, of contents just copied in.
Bwrite(t, v) ==
    /\ at[t] = "hold" /\ blockno[bp[t]] \in Writable
    /\ bytes' = [bytes EXCEPT ![bp[t]] = v]
    /\ bdirty' = [bdirty EXCEPT ![bp[t]] = TRUE]
    /\ at' = [at EXCEPT ![t] = "iderw"]
    /\ UNCHANGED <<blockno, refcnt, bvalid, lru, lockedBy, idequeue, sectors,
                   bp, slept>>

Waiting(i, where) == {t \in slept : bp[t] = i /\ at[t] = where}

\* brelse, first half: releasesleep wakes every sleeper of the lock.
Brelse(t) ==
    /\ at[t] = "hold"
    /\ lockedBy' = [lockedBy EXCEPT ![bp[t]] = Unlocked]
    /\ slept' = slept \ Waiting(bp[t], "acquire")
    /\ at' = [at EXCEPT ![t] = "brelse"]
    /\ UNCHANGED <<blockno, refcnt, bvalid, bdirty, bytes, lru, idequeue,
                   sectors, bp>>

\* "Move to head of the list": the buffers before i move one place back.
MoveToFront(i) ==
    LET place == CHOOSE n \in Bufs : lru[n] = i
    IN  [n \in Bufs |-> IF n = 1 THEN i ELSE IF n <= place THEN lru[n - 1] ELSE lru[n]]

\* brelse, second half, under bcache.lock: the last user moves the buffer to
\* the front of the list.
Unref(t) ==
    /\ at[t] = "brelse"
    /\ LET i == bp[t]
       IN  /\ refcnt' = [refcnt EXCEPT ![i] = @ - 1]
           /\ lru' = IF refcnt[i] > 1 THEN lru ELSE MoveToFront(i)
    /\ bp' = [bp EXCEPT ![t] = 0]
    /\ at' = [at EXCEPT ![t] = "user"]
    /\ UNCHANGED <<blockno, bvalid, bdirty, bytes, lockedBy, idequeue, sectors,
                   slept>>

-----------------------------------------------------------------------------
(* The disk.                                                               *)

\* idestart: a dirty buffer's contents go to the disk, else a read begins.
DiskAfterStart(i) ==
    IF bdirty[i] THEN [sectors EXCEPT ![blockno[i]] = bytes[i]] ELSE sectors

\* iderw: append the request, start the disk if it was idle, and sleep until
\* the buffer is clean and valid.
Iderw(t) ==
    /\ at[t] = "iderw"
    /\ idequeue' = Append(idequeue, bp[t])
    /\ sectors' = IF idequeue = <<>> THEN DiskAfterStart(bp[t]) ELSE sectors
    /\ at' = [at EXCEPT ![t] = "io"]
    /\ slept' = slept \cup {t}
    /\ UNCHANGED <<blockno, refcnt, bvalid, bdirty, bytes, lru, lockedBy, bp>>

\* Mutant of IoDone: a process that is woken for another reason goes on.
IoDoneUntested(i) == TRUE

IoDone(i) == bvalid[i] /\ ~bdirty[i]

\* iderw after a wakeup.
IderwTest(t) ==
    /\ at[t] = "io" /\ t \notin slept
    /\ \/ IoDone(bp[t]) /\ at' = [at EXCEPT ![t] = "hold"] /\ UNCHANGED slept
       \/ ~IoDone(bp[t]) /\ slept' = slept \cup {t} /\ UNCHANGED at
    /\ UNCHANGED <<blockno, refcnt, bvalid, bdirty, bytes, lru, lockedBy, idequeue,
                   sectors, bp>>

\* "Start disk on next buf in queue."
NextStarted(q) == IF q = <<>> THEN sectors ELSE DiskAfterStart(Head(q))

\* Mutant of IdeIntr: nobody is woken.
IdeIntrSilent ==
    /\ idequeue # <<>>
    /\ LET i == Head(idequeue)
       IN  /\ bytes' = [bytes EXCEPT ![i] = IF bdirty[i] THEN @ ELSE sectors[blockno[i]]]
           /\ bvalid' = [bvalid EXCEPT ![i] = TRUE]
           /\ bdirty' = [bdirty EXCEPT ![i] = FALSE]
    /\ idequeue' = Tail(idequeue)
    /\ sectors' = NextStarted(Tail(idequeue))
    /\ UNCHANGED <<blockno, refcnt, lru, lockedBy, at, bp, slept>>

\* ideintr: the first request is done.
IdeIntr ==
    /\ idequeue # <<>>
    /\ LET i == Head(idequeue)
       IN  /\ bytes' = [bytes EXCEPT ![i] = IF bdirty[i] THEN @ ELSE sectors[blockno[i]]]
           /\ bvalid' = [bvalid EXCEPT ![i] = TRUE]
           /\ bdirty' = [bdirty EXCEPT ![i] = FALSE]
           /\ slept' = slept \ Waiting(i, "io")
    /\ idequeue' = Tail(idequeue)
    /\ sectors' = NextStarted(Tail(idequeue))
    /\ UNCHANGED <<blockno, refcnt, lru, lockedBy, at, bp>>

\* kill() wakes a process out of any sleep; both loops test again.
KillWakes(t) ==
    /\ t \in slept
    /\ slept' = slept \ {t}
    /\ UNCHANGED <<blockno, refcnt, bvalid, bdirty, bytes, lru, lockedBy, idequeue,
                   sectors, at, bp>>

-----------------------------------------------------------------------------
BcacheStep(t) ==
    AcquireSleep(t) \/ Brelse(t) \/ Unref(t) \/ Iderw(t) \/ IderwTest(t)

BcacheNext ==
    \/ IdeIntr
    \/ \E t \in Threads :
          \/ BcacheStep(t) \/ KillWakes(t)
          \/ \E k \in DiskBlocks : BgetHit(t, k) \/ BgetMiss(t, k)
          \/ \E v \in Words : LogPin(t, v) \/ Bwrite(t, v)

BcacheSpec == BcacheInit /\ [][BcacheNext]_bcacheVars

-----------------------------------------------------------------------------
(* Properties.                                                             *)

\* A block is in one buffer at most, although bget gives bcache.lock up before
\* it has the buffer's lock.
OneBuffer ==
    \A i, j \in Bufs : blockno[i] = blockno[j] /\ blockno[i] # NoDev => i = j

\* Types; the list is a permutation of the buffers, a reference count is
\* the number of threads on their way to or from the buffer, and no block is in
\* two buffers.
BcacheTypeOK ==
    /\ {lru[n] : n \in Bufs} = Bufs
    /\ \A i \in Bufs : refcnt[i] = Cardinality({t \in Threads : bp[t] = i})
    /\ slept \subseteq {t \in Threads : at[t] \in {"acquire", "io"}}
    /\ OneBuffer

\* Whoever sleeps will be woken: the lock it wants is held, or its request is
\* queued; and a request is queued once, by the thread that holds the lock.
SleepersServed ==
    /\ \A t \in slept :
          \/ at[t] = "acquire" /\ lockedBy[bp[t]] # Unlocked
          \/ at[t] = "io" /\ \E n \in DOMAIN idequeue : idequeue[n] = bp[t]
    /\ \A m, n \in DOMAIN idequeue : idequeue[m] = idequeue[n] => m = n
    /\ \A n \in DOMAIN idequeue :
          \E t \in Threads : /\ at[t] = "io" /\ bp[t] = idequeue[n]
                             /\ lockedBy[bp[t]] = t

\* bread and bwrite return what they promise: the lock is its holder's alone, a
\* thread that bread or bwrite has returned to holds a valid buffer that the disk
\* is not working on, and iderw always has something to do ("iderw: nothing to do").
HoldsValid ==
    \A t \in Threads :
        /\ at[t] \in {"hold", "iderw", "io"} => lockedBy[bp[t]] = t
        /\ at[t] = "hold" =>
              bvalid[bp[t]] /\ \A n \in DOMAIN idequeue : idequeue[n] # bp[t]
        /\ at[t] = "iderw" => ~bvalid[bp[t]] \/ bdirty[bp[t]]

\* bio.c:143-146, where bget panics with "no buffers", doubts that there can be
\* none: a miss always finds a buffer to recycle.  True only of enough buffers.
BuffersLeft ==
    \A t \in Threads : at[t] = "user" => Recyclable # {}

\* Enough buffers for what the log pins and one for each thread, where a thread
\* uses one at a time (itrunc uses up to three).  param.h makes NBUF = LOGSIZE,
\* which is less.
BuffersSuffice == MaxPinned + Cardinality(Threads) <= NBUF

S == INSTANCE BlockStore WITH
        BlockSet <- DiskBlocks, Users <- Threads, Contents <- Words,
        Nobody <- Unlocked,
        content <- [k \in DiskBlocks |->
            IF \E i \in Cached(k) : bvalid[i]
            THEN bytes[CHOOSE i \in Cached(k) : bvalid[i]] ELSE sectors[k]],
        holder <- [k \in DiskBlocks |->
            IF Cached(k) = {} THEN Unlocked
            ELSE lockedBy[CHOOSE i \in Cached(k) : TRUE]]

\* The cache is a store of blocks: through hits, recycling, pinning and queued
\* requests the contents of a block change only by its holder's hand, and it
\* has one holder.
CacheIsStore == S!StoreSpec
=============================================================================

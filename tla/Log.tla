---------------------------------- MODULE Log ----------------------------------
(***************************************************************************)
(* The write-ahead redo log of the project 3 kernel (log.c): group commit  *)
(* of concurrent file-system operations and recovery after a crash.        *)
(*                                                                         *)
(* A home block is a member of Blocks and its contents a member of Vals.   *)
(* The on-disk log is a header (a sequence of block numbers, one sector)   *)
(* and an array of data blocks.  A sector write is atomic: BSIZE equals    *)
(* the sector size, and initlog panics if the header outgrows one block.   *)
(*                                                                         *)
(* Buffers are seen through cache, what bread returns for a home block,    *)
(* and dirty, the blocks whose buffer carries B_DIRTY and is pinned.  A    *)
(* clean, unlocked buffer may be recycled at any time (Recycle).           *)
(***************************************************************************)
EXTENDS Naturals, Sequences, FiniteSets

CONSTANTS
    Procs,        \* kernel threads that run file-system system calls
    Blocks,       \* home block numbers
    Vals,         \* block contents
    LOGSIZE,      \* param.h: "max data blocks in on-disk log"
    MAXOPBLOCKS,  \* param.h: "max # of blocks any FS op writes"
    NLOG,         \* sb.nlog, the size of the on-disk log, header included
    OpQuota,      \* bound: distinct blocks that one operation really writes
    MayCrash,     \* whether the machine may lose power
    NoBlock       \* no block: the thread is not inside log_write

ASSUME LogSizes ==
    /\ LOGSIZE \in Nat \ {0}
    /\ MAXOPBLOCKS \in Nat \ {0}
    /\ NLOG \in Nat \ {0}
    /\ OpQuota \in 0..MAXOPBLOCKS

ASSUME FiniteSystem == IsFiniteSet(Procs) /\ IsFiniteSet(Blocks)

ASSUME NoBlockIsNoBlock == NoBlock \notin Blocks

ASSUME CrashChoice == MayCrash \in BOOLEAN

VARIABLES
    disk,         \* home blocks on the disk
    dlog,         \* data blocks of the on-disk log, at log.start + 1 ..
    dhead,        \* the on-disk header: block[0 .. n-1]
    cache,        \* contents of the home blocks as bread returns them
    dirty,        \* blocks whose buffer is pinned by B_DIRTY
    lh,           \* log.lh, the in-memory header
    outstanding,  \* log.outstanding
    committing,   \* log.committing
    phase,        \* where commit() or recover_from_log() is
    tail,         \* the loop counter of write_log and install_trans
    pc,           \* where each thread is
    pend,         \* block that a thread is inside log_write with
    wrote,        \* blocks logged by a thread's current operation
    panicked      \* panic() has stopped the machine

vars == <<disk, dlog, dhead, cache, dirty, lh, outstanding, committing, phase,
          tail, pc, pend, wrote, panicked>>

diskVars == <<disk, dlog, dhead>>
bufVars  == <<cache, dirty>>
opVars   == <<pc, pend, wrote>>

\* The slots of log.lh.block[].  Slot i is written to disk block log.start + i,
\* which lies inside the log area only for i < NLOG.
Slots == 1..LOGSIZE

PCs == {"idle", "begin", "asleep", "active", "logging", "commit"}

CommitPhases  == {"writelog", "writehead", "install", "clear", "done"}
RecoverPhases == {"rhead", "rinstall", "rclear"}
Phases == {"run"} \cup CommitPhases \cup RecoverPhases

Logged(h) == {h[i] : i \in 1..Len(h)}

Recovering == phase \in RecoverPhases

-----------------------------------------------------------------------------
(* mkfs writes an empty log; main() boots into initlog().                  *)

Init ==
    /\ disk \in [Blocks -> Vals]
    /\ \E v \in Vals : dlog = [i \in Slots |-> v]
    /\ dhead = <<>>
    /\ cache = disk
    /\ dirty = {}
    /\ lh = <<>>
    /\ outstanding = 0
    /\ committing = FALSE
    /\ phase = "rhead"
    /\ tail = 0
    /\ pc = [p \in Procs |-> "idle"]
    /\ pend = [p \in Procs |-> NoBlock]
    /\ wrote = [p \in Procs |-> {}]
    /\ panicked = FALSE

-----------------------------------------------------------------------------
(* Operations of the threads.  A panic stops every action but a reboot.    *)

\* Mutant of MustWait: a system call may join while commit() runs.
MustWaitSpaceOnly == Len(lh) + (outstanding + 1) * MAXOPBLOCKS > LOGSIZE

\* Mutant of MustWait: the caller's own reservation is not counted.
MustWaitOffByOne == committing \/ Len(lh) + outstanding * MAXOPBLOCKS > LOGSIZE

\* begin_op: sleep while a commit runs or this operation might exhaust the
\* log, else join the current transaction.  The test and the sleep are one
\* step because log.lock is held until sleep() has ptable.lock.
MustWait ==
    \/ committing
    \/ Len(lh) + (outstanding + 1) * MAXOPBLOCKS > LOGSIZE

BeginOp(p) ==
    /\ ~panicked
    /\ pc[p] \in {"idle", "begin"}
    /\ ~Recovering
    /\ IF MustWait
         THEN /\ pc' = [pc EXCEPT ![p] = "asleep"]
              /\ UNCHANGED <<outstanding, wrote>>
         ELSE /\ pc' = [pc EXCEPT ![p] = "active"]
              /\ outstanding' = outstanding + 1
              /\ wrote' = [wrote EXCEPT ![p] = {}]
    /\ UNCHANGED <<diskVars, bufVars, lh, committing, phase, tail, pend, panicked>>

\* The caller holds the lock of b's buffer, has changed its data, and enters
\* log_write, which checks the log's size before it takes log.lock.
LogWriteCheck(p, b, v) ==
    /\ ~panicked
    /\ pc[p] = "active"
    /\ \A q \in Procs : pend[q] # b
    /\ Cardinality(wrote[p] \cup {b}) <= OpQuota
    /\ cache' = [cache EXCEPT ![b] = v]
    /\ IF Len(lh) >= LOGSIZE \/ Len(lh) >= NLOG - 1 \/ outstanding < 1
         THEN /\ panicked' = TRUE
              /\ UNCHANGED opVars
         ELSE /\ pc' = [pc EXCEPT ![p] = "logging"]
              /\ pend' = [pend EXCEPT ![p] = b]
              /\ wrote' = [wrote EXCEPT ![p] = @ \cup {b}]
              /\ UNCHANGED panicked
    /\ UNCHANGED <<diskVars, dirty, lh, outstanding, committing, phase, tail>>

\* Mutant of LogWriteRecord: B_DIRTY is not set, the buffer is not pinned.
LogWriteRecordUnpinned(p) ==
    /\ ~panicked
    /\ pc[p] = "logging"
    /\ lh' = IF pend[p] \in Logged(lh) THEN lh ELSE Append(lh, pend[p])
    /\ pc' = [pc EXCEPT ![p] = "active"]
    /\ pend' = [pend EXCEPT ![p] = NoBlock]
    /\ UNCHANGED <<diskVars, bufVars, outstanding, committing, phase, tail, wrote,
                   panicked>>

\* The locked half of log_write: absorb a block that is already in the
\* header, else append it; pin the buffer.  The caller then releases it.
LogWriteRecord(p) ==
    /\ ~panicked
    /\ pc[p] = "logging"
    /\ lh' = IF pend[p] \in Logged(lh) THEN lh ELSE Append(lh, pend[p])
    /\ dirty' = dirty \cup {pend[p]}
    /\ pc' = [pc EXCEPT ![p] = "active"]
    /\ pend' = [pend EXCEPT ![p] = NoBlock]
    /\ UNCHANGED <<diskVars, cache, outstanding, committing, phase, tail, wrote,
                   panicked>>

\* wakeup(&log): every thread asleep in begin_op becomes runnable.
Wakeup(pcs) == [q \in Procs |-> IF pcs[q] = "asleep" THEN "begin" ELSE pcs[q]]

\* Mutant of EndOp: the operation count is dropped twice.
EndOpTwice(p) ==
    /\ ~panicked
    /\ pc[p] = "active"
    /\ outstanding' = outstanding - 2
    /\ pc' = Wakeup([pc EXCEPT ![p] = "idle"])
    /\ UNCHANGED <<diskVars, bufVars, lh, committing, phase, tail, pend, wrote,
                   panicked>>

\* end_op: the last operation of the transaction becomes the committer; any
\* other gives its reservation back and wakes the waiters.
EndOp(p) ==
    /\ ~panicked
    /\ pc[p] = "active"
    /\ outstanding' = outstanding - 1
    /\ IF committing
         THEN /\ panicked' = TRUE
              /\ UNCHANGED <<committing, phase, tail, pc>>
         ELSE /\ UNCHANGED panicked
              /\ IF outstanding' = 0
                   THEN /\ committing' = TRUE
                        /\ pc' = [pc EXCEPT ![p] = "commit"]
                        /\ phase' = IF Len(lh) > 0 THEN "writelog" ELSE "done"
                        /\ tail' = 0
                   ELSE /\ pc' = Wakeup([pc EXCEPT ![p] = "idle"])
                        /\ UNCHANGED <<committing, phase, tail>>
    /\ UNCHANGED <<diskVars, bufVars, lh, pend, wrote>>

-----------------------------------------------------------------------------
(* commit(): run by the committer without log.lock.                        *)

\* Mutant of WriteLog: the loop stops one block early.
WriteLogShort ==
    /\ ~panicked
    /\ phase = "writelog"
    /\ IF tail + 1 < Len(lh)
         THEN /\ dlog' = [dlog EXCEPT ![tail + 1] = cache[lh[tail + 1]]]
              /\ tail' = tail + 1
              /\ UNCHANGED phase
         ELSE /\ phase' = "writehead"
              /\ UNCHANGED <<dlog, tail>>
    /\ UNCHANGED <<disk, dhead, bufVars, lh, outstanding, committing, opVars,
                   panicked>>

\* One round of write_log: copy a cached block to its slot on the disk.
WriteLog ==
    /\ ~panicked
    /\ phase = "writelog"
    /\ IF tail < Len(lh)
         THEN /\ dlog' = [dlog EXCEPT ![tail + 1] = cache[lh[tail + 1]]]
              /\ tail' = tail + 1
              /\ UNCHANGED phase
         ELSE /\ phase' = "writehead"
              /\ UNCHANGED <<dlog, tail>>
    /\ UNCHANGED <<disk, dhead, bufVars, lh, outstanding, committing, opVars,
                   panicked>>

\* Mutant of WriteHead: the header is not written before installing.
WriteHeadSkipped ==
    /\ ~panicked
    /\ phase = "writehead"
    /\ phase' = "install"
    /\ tail' = 0
    /\ UNCHANGED <<diskVars, bufVars, lh, outstanding, committing, opVars, panicked>>

\* write_head: "the true point at which the current transaction commits".
WriteHead ==
    /\ ~panicked
    /\ phase = "writehead"
    /\ dhead' = lh
    /\ phase' = "install"
    /\ tail' = 0
    /\ UNCHANGED <<disk, dlog, bufVars, lh, outstanding, committing, opVars,
                   panicked>>

\* Mutant of InstallTrans: the last block of the log is not installed.
InstallTransShort ==
    /\ ~panicked
    /\ phase \in {"install", "rinstall"}
    /\ IF tail + 1 < Len(lh)
         THEN /\ disk' = [disk EXCEPT ![lh[tail + 1]] = dlog[tail + 1]]
              /\ cache' = [cache EXCEPT ![lh[tail + 1]] = dlog[tail + 1]]
              /\ dirty' = dirty \ {lh[tail + 1]}
              /\ tail' = tail + 1
              /\ UNCHANGED phase
         ELSE /\ phase' = IF phase = "install" THEN "clear" ELSE "rclear"
              /\ UNCHANGED <<disk, bufVars, tail>>
    /\ UNCHANGED <<dlog, dhead, lh, outstanding, committing, opVars, panicked>>

\* One round of install_trans, in a commit or in recovery: copy a log block
\* to the buffer of its home block and write it; bwrite clears B_DIRTY.
InstallTrans ==
    /\ ~panicked
    /\ phase \in {"install", "rinstall"}
    /\ IF tail < Len(lh)
         THEN /\ disk' = [disk EXCEPT ![lh[tail + 1]] = dlog[tail + 1]]
              /\ cache' = [cache EXCEPT ![lh[tail + 1]] = dlog[tail + 1]]
              /\ dirty' = dirty \ {lh[tail + 1]}
              /\ tail' = tail + 1
              /\ UNCHANGED phase
         ELSE /\ phase' = IF phase = "install" THEN "clear" ELSE "rclear"
              /\ UNCHANGED <<disk, bufVars, tail>>
    /\ UNCHANGED <<dlog, dhead, lh, outstanding, committing, opVars, panicked>>

\* log.lh.n = 0; write_head(): erase the transaction from the log.  A crash
\* before the sector is written finds the old header.
ClearHead ==
    /\ ~panicked
    /\ phase \in {"clear", "rclear"}
    /\ lh' = <<>>
    /\ dhead' = <<>>
    /\ phase' = IF phase = "clear" THEN "done" ELSE "run"
    /\ UNCHANGED <<disk, dlog, bufVars, outstanding, committing, tail, opVars,
                   panicked>>

\* Mutant of CommitDone: the waiters in begin_op are not woken.
CommitDoneNoWakeup(p) ==
    /\ ~panicked
    /\ pc[p] = "commit"
    /\ phase = "done"
    /\ committing' = FALSE
    /\ phase' = "run"
    /\ pc' = [pc EXCEPT ![p] = "idle"]
    /\ UNCHANGED <<diskVars, bufVars, lh, outstanding, tail, pend, wrote, panicked>>

\* Mutant of CommitDone: log.committing is left set.
CommitDoneStillSet(p) ==
    /\ ~panicked
    /\ pc[p] = "commit"
    /\ phase = "done"
    /\ phase' = "run"
    /\ pc' = Wakeup([pc EXCEPT ![p] = "idle"])
    /\ UNCHANGED <<diskVars, bufVars, lh, outstanding, committing, tail, pend,
                   wrote, panicked>>

\* The second locked section of end_op.
CommitDone(p) ==
    /\ ~panicked
    /\ pc[p] = "commit"
    /\ phase = "done"
    /\ committing' = FALSE
    /\ phase' = "run"
    /\ pc' = Wakeup([pc EXCEPT ![p] = "idle"])
    /\ UNCHANGED <<diskVars, bufVars, lh, outstanding, tail, pend, wrote, panicked>>

-----------------------------------------------------------------------------
(* Environment: eviction, power failure, and the recovery at boot.         *)

\* bget reuses a buffer that nobody holds and that is not B_DIRTY; the next
\* bread of the block goes to the disk.
Recycle(b) ==
    /\ ~panicked
    /\ b \notin dirty
    /\ \A p \in Procs : pend[p] # b
    /\ cache' = [cache EXCEPT ![b] = disk[b]]
    /\ UNCHANGED <<diskVars, dirty, lh, outstanding, committing, phase, tail,
                   opVars, panicked>>

\* Power failure, or a reboot after a panic: only the disk survives.
Crash ==
    /\ MayCrash
    /\ cache' = disk
    /\ dirty' = {}
    /\ lh' = <<>>
    /\ outstanding' = 0
    /\ committing' = FALSE
    /\ phase' = "rhead"
    /\ tail' = 0
    /\ pc' = [p \in Procs |-> "idle"]
    /\ pend' = [p \in Procs |-> NoBlock]
    /\ wrote' = [p \in Procs |-> {}]
    /\ panicked' = FALSE
    /\ UNCHANGED diskVars

\* initlog -> recover_from_log -> read_head.
ReadHead ==
    /\ ~panicked
    /\ phase = "rhead"
    /\ lh' = dhead
    /\ tail' = 0
    /\ phase' = "rinstall"
    /\ UNCHANGED <<diskVars, bufVars, outstanding, committing, opVars, panicked>>

-----------------------------------------------------------------------------

Thread(p) ==
    \/ BeginOp(p)
    \/ \E b \in Blocks, v \in Vals : LogWriteCheck(p, b, v)
    \/ LogWriteRecord(p)
    \/ EndOp(p)
    \/ CommitDone(p)

LogStep == WriteLog \/ WriteHead \/ InstallTrans \/ ClearHead \/ ReadHead

Next ==
    \/ \E p \in Procs : Thread(p)
    \/ LogStep
    \/ \E b \in Blocks : Recycle(b)
    \/ Crash

Spec == Init /\ [][Next]_vars

\* A system call performs finitely many log_writes before its end_op, and
\* the scheduler keeps running the committer and runnable threads.
Fairness ==
    /\ WF_vars(LogStep)
    /\ \A p \in Procs :
         /\ WF_vars(pc[p] = "begin" /\ BeginOp(p))
         /\ WF_vars(LogWriteRecord(p))
         /\ SF_vars(EndOp(p))
         /\ WF_vars(CommitDone(p))

FairSpec == Spec /\ Fairness

-----------------------------------------------------------------------------
(* Properties.                                                             *)

\* The types of the log's state; outstanding is never negative, that is, no
\* end_op without its begin_op.
TypeOK ==
    /\ disk \in [Blocks -> Vals]
    /\ dlog \in [Slots -> Vals]
    /\ dhead \in Seq(Blocks)
    /\ cache \in [Blocks -> Vals]
    /\ dirty \in SUBSET Blocks
    /\ lh \in Seq(Blocks)
    /\ outstanding \in Nat
    /\ committing \in BOOLEAN
    /\ phase \in Phases
    /\ tail \in Nat
    /\ pc \in [Procs -> PCs]
    /\ pend \in [Procs -> Blocks \cup {NoBlock}]
    /\ wrote \in [Procs -> SUBSET Blocks]
    /\ panicked \in BOOLEAN

\* The threads between a begin_op that has returned and their end_op.
InOp == {p \in Procs : pc[p] \in {"active", "logging"}}

\* What the disk will hold once the log has been recovered.
Replay ==
    [b \in Blocks |->
        IF \E i \in 1..Len(dhead) : dhead[i] = b
          THEN dlog[CHOOSE i \in 1..Len(dhead) : dhead[i] = b]
          ELSE disk[b]]

\* A commit never meets a system call in progress, so it can never write a
\* half-done update (log.c, "The logging system only commits when there are
\* no FS system calls active").
CommitAlone == committing \/ Recovering => InOp = {} /\ outstanding = 0

\* No update is lost to buffer recycling: a block whose cached contents
\* differ from the disk is pinned, and is in the header that commit() will
\* write, or its buffer is still locked by the caller of log_write.
UpdatesPinned ==
    \A b \in Blocks :
        \/ panicked
        \/ cache[b] = disk[b]
        \/ b \in dirty /\ b \in Logged(lh)
        \/ \E p \in Procs : pend[p] = b

\* When the last end_op has returned, everything the system calls wrote is at
\* home on the disk and the log is empty: sync() may return 0 at once.
EndedIsDurable ==
    phase = "run" /\ InOp = {} /\ ~panicked => disk = cache /\ dhead = <<>>

\* Room that begin_op's reservation must leave over the blocks an operation
\* really writes for the log never to refuse one: with LOGSIZE = sb.nlog = 120
\* and MAXOPBLOCKS = 40 as in param.h, an operation may write 38 blocks.
QuotaSlack ==
    OpQuota < MAXOPBLOCKS /\ LOGSIZE + OpQuota + 2 <= NLOG + MAXOPBLOCKS

\* log_write's "too big a transaction" and end_op's "log.committing" are
\* never reached, and no slot outside the log area is ever written, although
\* log_write tests the size before it takes log.lock and several threads may
\* pass the same test: begin_op's reservation keeps the header inside the log.
NoPanic == ~panicked /\ Len(lh) <= NLOG - 1

\* param.h says of LOGSIZE "max data blocks in on-disk log": the log refuses a
\* block as "too big a transaction" only when it holds LOGSIZE blocks.
LogHoldsLOGSIZE == panicked => Len(lh) >= LOGSIZE

\* Write-ahead: a home block changes on the disk only when the header that
\* covers it is already on the disk.
WriteAhead ==
    [][\A b \in Blocks : disk'[b] # disk[b] => b \in Logged(dhead)]_vars

\* No wakeup is lost: a thread asleep in begin_op is made runnable again,
\* because every end_op that frees space or ends a commit calls wakeup(&log).
SleepersWoken == \A p \in Procs : pc[p] = "asleep" ~> pc[p] # "asleep"

\* A commit that has begun ends, and lets new system calls in.
CommitEnds == committing ~> ~committing

\* The log implements a disk that changes by whole transactions only.
Txn == INSTANCE TxnDisk WITH
    durable <- Replay,
    current <- IF Recovering THEN Replay ELSE cache,
    ops     <- InOp

CrashAtomic == Txn!Spec

-----------------------------------------------------------------------------
(* The inductive invariant behind the safety properties.                   *)

\* No block is in the header twice: log absorption.
Absorbed(h) == \A i, j \in 1..Len(h) : h[i] = h[j] => i = j

\* Where the threads can be in each phase.
ThreadInv ==
    /\ outstanding = Cardinality(InOp)
    /\ committing <=> phase \in CommitPhases
    /\ committing \/ Recovering => InOp = {}
    /\ \A p \in Procs :
         /\ pc[p] = "commit" => committing
         /\ pc[p] = "logging" <=> pend[p] # NoBlock
         /\ pend[p] # NoBlock => pend[p] \in wrote[p]
         /\ Cardinality(wrote[p]) <= OpQuota
    /\ \A p, q \in Procs : pc[p] = "commit" /\ pc[q] = "commit" => p = q

\* What each phase of a commit or a recovery has already put on the disk.
DiskInv ==
    /\ Absorbed(lh)
    /\ Absorbed(dhead)
    /\ phase \in {"run", "writelog", "writehead", "done"} => dhead = <<>>
    /\ phase \in {"install", "clear", "rinstall", "rclear"} => dhead = lh
    /\ phase \in {"rhead", "done"} => lh = <<>>
    /\ phase = "run" /\ InOp = {} => lh = <<>>
    /\ phase = "writelog" => \A i \in 1..Len(lh) : i <= tail => dlog[i] = cache[lh[i]]
    /\ phase \in {"writehead", "install", "clear"} =>
         \A i \in 1..Len(lh) : dlog[i] = cache[lh[i]]
    /\ phase \in {"install", "rinstall"} =>
         \A i \in 1..Len(lh) : i <= tail => disk[lh[i]] = dlog[i]
    /\ phase \in {"clear", "rclear"} => \A i \in 1..Len(lh) : disk[lh[i]] = dlog[i]
    /\ Recovering => cache = disk

\* Blocks that the operations in progress may still add to the header: one
\* pair for every block of a thread's quota that is not in the header yet.
Reserved ==
    {r \in InOp \X (1..OpQuota) :
        r[2] <= OpQuota - Cardinality(wrote[r[1]] \cap Logged(lh))}

\* What begin_op tests when it lets an operation in stays true while the
\* operations use their reservations up.
SpaceInv ==
    /\ lh # <<>> \/ InOp # {} =>
         Len(lh) + Cardinality(Reserved) + (MAXOPBLOCKS - OpQuota) <= LOGSIZE
    /\ dhead # <<>> => Len(dhead) + (MAXOPBLOCKS - OpQuota) <= LOGSIZE

IInv == TypeOK /\ ThreadInv /\ DiskInv /\ UpdatesPinned /\ SpaceInv

=============================================================================

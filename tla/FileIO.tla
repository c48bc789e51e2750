--------------------------------- MODULE FileIO --------------------------------
(***************************************************************************)
(* read, write, pread and pwrite of project 3 (file.c) on one regular file *)
(* that several processes have open through the same struct file, as after *)
(* fork or dup: the shared offset f->off, the inode's sleep lock, and the  *)
(* transaction around each chunk of a write.                               *)
(*                                                                         *)
(* The contents of the file matter only through its size and through taken,*)
(* a history variable that counts, for every position, how often a read or *)
(* a write through f->off has transferred the byte there.                  *)
(***************************************************************************)
EXTENDS Integers, FiniteSets

CONSTANTS
    Procs,       \* processes that share the open file
    Nobody,      \* not a process
    Requests,    \* system calls: records with op, n (length) and at (offset)
    Calls,       \* bound: system calls that each process makes
    Chunk,       \* max in filewrite: bytes written in one transaction
    MaxFile,     \* MAXFILE * BSIZE
    Word,        \* 2^32: offsets and sizes are compared as unsigned
    InitSize,    \* size of the file at the start
    LogRoom      \* operations that begin_op admits at a time

ASSUME ChunkIsPositive == Chunk \in Nat \ {0} /\ LogRoom \in Nat \ {0}
ASSUME FileFits ==
    Word \in Nat \ {0} /\ MaxFile \in 0..(Word - 1) /\ InitSize \in 0..MaxFile
ASSUME CallsAreFinite == Calls \in Nat
ASSUME RequestForm ==
    /\ Requests # {}
    /\ Requests \subseteq [op : {"read", "write", "pread", "pwrite"},
                           n : 0..(Word - 1), at : Int]
ASSUME NobodyIsNoProcess == Nobody \notin Procs

VARIABLES
    size,      \* ip->size
    off,       \* f->off
    holder,    \* the process that holds ip->lock
    tx,        \* processes between begin_op and end_op
    pc,        \* where each process is
    req,       \* its system call; req.at is the variable offset
    done,      \* the variable i: bytes written by earlier chunks
    r,         \* the variable r: result of readi or writei
    left,      \* system calls still to make
    panicked,  \* panic() has stopped the machine
    taken      \* history: transfers of each position through f->off

vars == <<size, off, holder, tx, pc, req, done, r, left, panicked, taken>>

Positions == 0..(MaxFile - 1)

\* An int converted to uint.
Unsigned(x) == x % Word

AtMost(x, y) == IF x <= y THEN x ELSE y

Writes(p) == req[p].op \in {"write", "pwrite"}
Shared(p) == req[p].op \in {"read", "write"}

\* n1: the length of the present chunk of a write.
ChunkOf(p) == AtMost(req[p].n - done[p], Chunk)

Init ==
    /\ size = InitSize
    /\ off = 0
    /\ holder = Nobody
    /\ tx = {}
    /\ pc = [p \in Procs |-> "user"]
    /\ req \in [Procs -> {CHOOSE q \in Requests : TRUE}]
    /\ done = [p \in Procs |-> 0]
    /\ r = [p \in Procs |-> 0]
    /\ left = [p \in Procs |-> Calls]
    /\ panicked = FALSE
    /\ taken = [k \in Positions |-> 0]

-----------------------------------------------------------------------------
(* System calls and transactions.                                          *)

\* sys_read, sys_write, sys_pread, sys_pwrite.  A write of nothing does not
\* enter its loop.
Call(p, q) ==
    /\ ~panicked
    /\ pc[p] = "user"
    /\ left[p] > 0
    /\ left' = [left EXCEPT ![p] = @ - 1]
    /\ req' = [req EXCEPT ![p] = q]
    /\ done' = [done EXCEPT ![p] = 0]
    /\ pc' = [pc EXCEPT ![p] = IF q.op \in {"read", "pread"} THEN "lock"
                               ELSE IF q.n = 0 THEN "user" ELSE "begin"]
    /\ UNCHANGED <<size, off, holder, tx, r, panicked, taken>>

\* begin_op, seen from here: at most LogRoom operations at a time.
BeginOp(p) ==
    /\ ~panicked
    /\ pc[p] = "begin"
    /\ Cardinality(tx) < LogRoom
    /\ tx' = tx \cup {p}
    /\ pc' = [pc EXCEPT ![p] = "lock"]
    /\ UNCHANGED <<size, off, holder, req, done, r, left, panicked, taken>>

\* end_op and the end of the loop body: give up after an error, panic at a
\* short write, else go on to the next chunk.
EndOp(p) ==
    /\ ~panicked
    /\ pc[p] = "end"
    /\ tx' = tx \ {p}
    /\ IF r[p] < 0
         THEN pc' = [pc EXCEPT ![p] = "user"] /\ UNCHANGED <<done, panicked>>
         ELSE IF r[p] # ChunkOf(p)
           THEN panicked' = TRUE /\ UNCHANGED <<pc, done>>
           ELSE /\ done' = [done EXCEPT ![p] = @ + r[p]]
                /\ pc' = [pc EXCEPT ![p] = IF done'[p] < req[p].n THEN "begin"
                                                                  ELSE "user"]
                /\ UNCHANGED panicked
    /\ UNCHANGED <<size, off, holder, req, r, left, taken>>

-----------------------------------------------------------------------------
(* The sleep lock of the inode.                                            *)

\* Mutant of ILock: the lock is taken without a look at who has it.
ILockAlways(p) ==
    /\ ~panicked
    /\ pc[p] = "lock"
    /\ holder' = p
    /\ pc' = [pc EXCEPT ![p] = "copy"]
    /\ UNCHANGED <<size, off, tx, req, done, r, left, panicked, taken>>

\* ilock: one round of the loop in acquiresleep.  The test and the sleep are
\* one step, because sleep keeps lk->lk until it has ptable.lock.
ILock(p) ==
    /\ ~panicked
    /\ pc[p] = "lock"
    /\ IF holder = Nobody
         THEN holder' = p /\ pc' = [pc EXCEPT ![p] = "copy"]
         ELSE pc' = [pc EXCEPT ![p] = "asleep"] /\ UNCHANGED holder
    /\ UNCHANGED <<size, off, tx, req, done, r, left, panicked, taken>>

\* Mutant of WakeSleepers: releasesleep does not call wakeup.
WakeNobody(pcs) == pcs

\* wakeup(lk): every sleeper tries again.
WakeSleepers(pcs) ==
    [p \in Procs |-> IF pcs[p] = "asleep" THEN "lock" ELSE pcs[p]]

\* iunlock.  The panic is iunlock's own test of the holder.
IUnlock(p) ==
    /\ ~panicked
    /\ pc[p] = "unlock"
    /\ IF holder # p
         THEN panicked' = TRUE /\ UNCHANGED <<holder, pc>>
         ELSE /\ holder' = Nobody
              /\ pc' = WakeSleepers([pc EXCEPT ![p] = IF Writes(p) THEN "end" ELSE "user"])
              /\ UNCHANGED panicked
    /\ UNCHANGED <<size, off, tx, req, done, r, left, taken>>

-----------------------------------------------------------------------------
(* Under the lock.                                                         *)

\* Mutant of Readi: the length is not cut at the end of the file.
ReadiUncut(o, n) == IF o > size \/ Unsigned(o + n) < o THEN -1 ELSE n

\* readi on a regular file: how many bytes it transfers.
Readi(o, n) ==
    IF o > size \/ Unsigned(o + n) < o THEN -1 ELSE AtMost(n, size - o)

\* Mutant of Writei: it writes up to the limit instead of refusing.
WriteiShort(o, n) ==
    IF o > size \/ Unsigned(o + n) < o THEN -1 ELSE AtMost(n, MaxFile - o)

\* writei on a regular file.
Writei(o, n) ==
    IF o > size \/ Unsigned(o + n) < o \/ Unsigned(o + n) > MaxFile THEN -1 ELSE n

Transfer(o, k) ==
    [x \in Positions |-> IF o <= x /\ x < o + k THEN taken[x] + 1 ELSE taken[x]]

\* fileread: the call of readi.
Read(p) ==
    /\ ~panicked
    /\ pc[p] = "copy"
    /\ req[p].op = "read"
    /\ r' = [r EXCEPT ![p] = Readi(off, req[p].n)]
    /\ taken' = Transfer(off, r'[p])
    /\ pc' = [pc EXCEPT ![p] = "advance"]
    /\ UNCHANGED <<size, off, holder, tx, req, done, left, panicked>>

\* filewrite: the call of writei.
Write(p) ==
    /\ ~panicked
    /\ pc[p] = "copy"
    /\ req[p].op = "write"
    /\ r' = [r EXCEPT ![p] = Writei(off, ChunkOf(p))]
    /\ taken' = Transfer(off, r'[p])
    /\ size' = IF r'[p] > 0 /\ off + r'[p] > size THEN off + r'[p] ELSE size
    /\ pc' = [pc EXCEPT ![p] = "advance"]
    /\ UNCHANGED <<off, holder, tx, req, done, left, panicked>>

\* f->off += r, in fileread and filewrite.
Advance(p) ==
    /\ ~panicked
    /\ pc[p] = "advance"
    /\ off' = IF r[p] > 0 THEN off + r[p] ELSE off
    /\ pc' = [pc EXCEPT ![p] = "unlock"]
    /\ UNCHANGED <<size, holder, tx, req, done, r, left, panicked, taken>>

\* pread.  Two of its returns, at the end of the file and for a range that
\* is not inside it, come before iunlock.  Requests are small: the test for
\* signed overflow, offset + n < offset, is never true.
PRead(p) ==
    /\ ~panicked
    /\ pc[p] = "copy"
    /\ req[p].op = "pread"
    /\ LET o == Unsigned(req[p].at)
       IN  IF o = size \/ Unsigned(req[p].at + req[p].n) > size
             THEN pc' = [pc EXCEPT ![p] = "user"] /\ UNCHANGED r
             ELSE /\ r' = [r EXCEPT ![p] = Readi(o, req[p].n)]
                  /\ pc' = [pc EXCEPT ![p] = "unlock"]
    /\ UNCHANGED <<size, off, holder, tx, req, done, left, panicked, taken>>

\* pwrite: writei at the caller's own offset, which advances with the chunks.
PWrite(p) ==
    /\ ~panicked
    /\ pc[p] = "copy"
    /\ req[p].op = "pwrite"
    /\ LET o == Unsigned(req[p].at)
       IN  /\ r' = [r EXCEPT ![p] = Writei(o, ChunkOf(p))]
           /\ size' = IF r'[p] > 0 /\ o + r'[p] > size THEN o + r'[p] ELSE size
           /\ req' = [req EXCEPT ![p].at = IF r'[p] > 0 THEN @ + r'[p] ELSE @]
    /\ pc' = [pc EXCEPT ![p] = "unlock"]
    /\ UNCHANGED <<off, holder, tx, done, left, panicked, taken>>

-----------------------------------------------------------------------------

\* A step of a process that is inside a system call.
Step(p) ==
    \/ BeginOp(p)
    \/ ILock(p)
    \/ Read(p)
    \/ Write(p)
    \/ Advance(p)
    \/ PRead(p)
    \/ PWrite(p)
    \/ IUnlock(p)
    \/ EndOp(p)

Next == \E p \in Procs : Step(p) \/ \E q \in Requests : Call(p, q)

Spec == Init /\ [][Next]_vars

\* The scheduler keeps running every process that is ready.
FairSpec == Spec /\ \A p \in Procs : WF_vars(Step(p))

-----------------------------------------------------------------------------
(* Properties.                                                             *)

\* The types; f->off never passes the end of the file, although it is moved
\* after the size was tested.
TypeOK ==
    /\ size \in 0..MaxFile
    /\ off \in 0..size
    /\ holder \in Procs \cup {Nobody}
    /\ tx \subseteq Procs
    /\ pc \in [Procs -> {"user", "begin", "lock", "asleep", "copy", "advance",
                         "unlock", "end"}]
    /\ req \in [Procs -> [op : {"read", "write", "pread", "pwrite"},
                          n : 0..(Word - 1), at : Int]]
    /\ done \in [Procs -> Nat]
    /\ r \in [Procs -> Int]
    /\ left \in [Procs -> 0..Calls]
    /\ panicked \in BOOLEAN
    /\ taken \in [Positions -> Nat]

\* What usertests asks of a shared descriptor: "is the offset shared? does
\* inode locking work?".  The reads and writes through one struct file take
\* consecutive positions: no byte is transferred twice or passed over, however
\* the chunks of different processes interleave.
ExactlyOnce ==
    LET inFlight == {p \in Procs : pc[p] = "advance" /\ r[p] > 0}
    IN  \A x \in Positions :
          taken[x] = IF x < off \/ \E p \in inFlight : x < off + r[p] THEN 1 ELSE 0

\* iunlock never finds another holder, and writei is never cut short ("short
\* filewrite").
NoPanic == ~panicked

\* Every system call returns, if processes make finitely many: nobody sleeps
\* for ever on the inode or for room in the log, which the others occupy while
\* they wait for the inode.
CallsReturn == \A p \in Procs : pc[p] # "user" ~> pc[p] = "user"

\* fs.c describes the inode lock as a lock that system calls "only lock ... for
\* short periods (e.g., in read())": no process is back in user mode with it.
LockReturned == \A p \in Procs : pc[p] = "user" => holder # p

-----------------------------------------------------------------------------
(* The inductive invariant behind the safety properties.                   *)

\* Only the holder of the inode lock is between ilock and iunlock.
LockInv ==
    \A p \in Procs : pc[p] \in {"copy", "advance", "unlock"} => holder = p

\* Which calls come where, and what r and i hold there.
FrameInv ==
    \A p \in Procs :
      /\ pc[p] = "advance" => Shared(p) /\ off + r[p] <= size
      /\ pc[p] \in {"begin", "end"} => Writes(p)
      /\ pc[p] # "user" /\ Writes(p) => done[p] < req[p].n
      /\ pc[p] \in {"advance", "unlock", "end"} /\ Writes(p) =>
           r[p] = -1 \/ r[p] = ChunkOf(p)

IInv == TypeOK /\ ExactlyOnce /\ NoPanic /\ LockInv /\ FrameInv

=============================================================================

------------------------------ MODULE FilesProofs ------------------------------
(***************************************************************************)
(* Proofs about reads and writes through a shared open file, for every     *)
(* number of processes, file size, chunk size and set of requests; and      *)
(* about the composition of calls, names and blocks (MCFiles).              *)
(***************************************************************************)
EXTENDS MCFiles, BlockMapProofs, InodeProofs, TLAPS

-----------------------------------------------------------------------------
(* Unsigned arithmetic.                                                    *)

\* What % does to the sum of two words.
LEMMA WrapAround ==
    ASSUME NEW x \in 0..(2 * Word - 1)
    PROVE  Unsigned(x) = IF x < Word THEN x ELSE x - Word
  BY FileFits DEF Unsigned

\* An int becomes a word.
LEMMA UnsignedRange ==
    ASSUME NEW x \in Int
    PROVE  Unsigned(x) \in 0..(Word - 1)
  BY FileFits DEF Unsigned

\* readi returns -1 or a count that stays inside the file.
LEMMA ReadiResult ==
    ASSUME TypeOK, NEW o \in 0..(Word - 1), NEW n \in 0..(Word - 1)
    PROVE  /\ Readi(o, n) \in Int
           /\ Readi(o, n) >= -1
           /\ Readi(o, n) # -1 => o + Readi(o, n) <= size
  BY FileFits, UnsignedRange DEF Readi, AtMost, TypeOK

\* writei returns -1 or the whole count, and then the range lies inside the
\* largest file and starts inside the present one.
LEMMA WriteiResult ==
    ASSUME TypeOK, NEW o \in 0..(Word - 1), NEW n \in 0..(Word - 1)
    PROVE  \/ Writei(o, n) = -1
           \/ Writei(o, n) = n /\ o <= size /\ o + n <= MaxFile
<1>1. o + n \in 0..(2 * Word - 1)
  BY FileFits
<1> QED
  BY <1>1, FileFits, WrapAround DEF Writei, TypeOK

\* The present chunk of a write inside its loop is positive and a word.
LEMMA ChunkRange ==
    ASSUME TypeOK, NEW p \in Procs, done[p] < req[p].n
    PROVE  /\ ChunkOf(p) \in 1..(Word - 1)
           /\ done[p] + ChunkOf(p) <= req[p].n
<1>1. req[p].n \in 0..(Word - 1) /\ done[p] \in Nat
  BY DEF TypeOK
<1> QED
  BY <1>1, FileFits, ChunkIsPositive DEF ChunkOf, AtMost

-----------------------------------------------------------------------------
(* The invariant is inductive.                                             *)

\* It holds before the first system call.
LEMMA InitInv == Init => IInv
<1> SUFFICES ASSUME Init PROVE IInv
  OBVIOUS
<1>1. (CHOOSE q \in Requests : TRUE) \in Requests
  BY RequestForm, Zenon
<1>2. req \in [Procs -> [op : {"read", "write", "pread", "pwrite"},
                          n : 0..(Word - 1), at : Int]]
  BY <1>1, RequestForm DEF Init
<1>3. TypeOK
  <2>1. size \in 0..MaxFile /\ off \in 0..size
    BY FileFits DEF Init
  <2>2. left \in [Procs -> 0..Calls]
    BY CallsAreFinite DEF Init
  <2>3. done \in [Procs -> Nat] /\ r \in [Procs -> Int] /\ taken \in [Positions -> Nat]
    BY DEF Init
  <2>4. /\ holder \in Procs \cup {Nobody}
        /\ tx \subseteq Procs
        /\ panicked \in BOOLEAN
        /\ pc \in [Procs -> {"user", "begin", "lock", "asleep", "copy", "advance",
                             "unlock", "end"}]
    BY DEF Init
  <2> QED
    BY <1>2, <2>1, <2>2, <2>3, <2>4, Zenon DEF TypeOK
<1>4. ExactlyOnce
  BY DEF Init, ExactlyOnce, Positions
<1>5. NoPanic /\ LockInv /\ FrameInv
  BY DEF Init, NoPanic, LockInv, FrameInv
<1> QED
  BY <1>3, <1>4, <1>5 DEF IInv

\* ExactlyOnce speaks of off, taken, and the frames of the processes that are
\* between readi or writei and f->off += r.
LEMMA OnceUnchanged ==
    ASSUME ExactlyOnce, UNCHANGED <<off, taken>>,
           \A q \in Procs : pc[q] = "advance" <=> pc'[q] = "advance",
           \A q \in Procs : pc[q] = "advance" => r'[q] = r[q]
    PROVE  ExactlyOnce'
  BY DEF ExactlyOnce

\* A system call begins.
LEMMA CallInv ==
    ASSUME IInv, NEW p \in Procs, NEW q \in Requests, Call(p, q)
    PROVE  IInv'
<1> USE DEF IInv
<1>1. q \in [op : {"read", "write", "pread", "pwrite"}, n : 0..(Word - 1), at : Int]
  BY RequestForm
<1>2. TypeOK'
  BY <1>1, CallsAreFinite DEF Call, TypeOK
<1>3. ExactlyOnce'
  BY OnceUnchanged DEF Call, TypeOK
<1>4. NoPanic' /\ LockInv'
  BY DEF Call, TypeOK, NoPanic, LockInv
<1>5. FrameInv'
  BY <1>1, FileFits DEF Call, TypeOK, FrameInv, Shared, Writes, ChunkOf
<1> QED
  BY <1>2, <1>3, <1>4, <1>5

\* begin_op lets the writer in.
LEMMA BeginOpInv ==
    ASSUME IInv, NEW p \in Procs, BeginOp(p)
    PROVE  IInv'
<1> USE DEF IInv
<1>1. TypeOK'
  BY DEF BeginOp, TypeOK
<1>2. ExactlyOnce'
  BY OnceUnchanged DEF BeginOp, TypeOK
<1>3. NoPanic' /\ LockInv'
  BY DEF BeginOp, TypeOK, NoPanic, LockInv
<1>4. FrameInv'
  BY DEF BeginOp, TypeOK, FrameInv, Shared, Writes, ChunkOf
<1> QED
  BY <1>1, <1>2, <1>3, <1>4

\* ilock takes a free lock or goes to sleep.
LEMMA ILockInv ==
    ASSUME IInv, NEW p \in Procs, ILock(p)
    PROVE  IInv'
<1> USE DEF IInv
<1>1. TypeOK'
  BY DEF ILock, TypeOK
<1>2. ExactlyOnce'
  BY OnceUnchanged DEF ILock, TypeOK
<1>3. NoPanic'
  BY DEF ILock, NoPanic
<1>4. LockInv'
  BY NobodyIsNoProcess DEF ILock, TypeOK, LockInv
<1>5. FrameInv'
  BY DEF ILock, TypeOK, FrameInv, Shared, Writes, ChunkOf
<1> QED
  BY <1>1, <1>2, <1>3, <1>4, <1>5

\* iunlock: the caller is the holder, so it does not panic.
LEMMA IUnlockInv ==
    ASSUME IInv, NEW p \in Procs, IUnlock(p)
    PROVE  IInv'
<1> USE DEF IInv
<1>1. holder = p
  BY DEF IUnlock, LockInv
<1>2. /\ holder' = Nobody
      /\ pc' = WakeSleepers([pc EXCEPT ![p] = IF Writes(p) THEN "end" ELSE "user"])
      /\ UNCHANGED <<size, off, tx, req, done, r, left, taken, panicked>>
  BY <1>1 DEF IUnlock
<1>3. /\ pc' \in [Procs -> {"user", "begin", "lock", "asleep", "copy", "advance",
                            "unlock", "end"}]
      /\ \A q \in Procs : pc'[q] = IF q = p THEN IF Writes(p) THEN "end" ELSE "user"
                                   ELSE IF pc[q] = "asleep" THEN "lock" ELSE pc[q]
  BY <1>2 DEF WakeSleepers, TypeOK
<1>4. pc[p] = "unlock"
  BY DEF IUnlock
<1>5. TypeOK'
  BY <1>2, <1>3 DEF TypeOK
<1>6. ExactlyOnce'
  BY <1>2, <1>3, <1>4, OnceUnchanged
<1>7. NoPanic' /\ LockInv'
  BY <1>1, <1>2, <1>3, <1>4 DEF NoPanic, LockInv
<1>8. FrameInv'
  BY <1>2, <1>3, <1>4, ZenonT(30) DEF FrameInv, Shared, Writes, ChunkOf
<1> QED
  BY <1>5, <1>6, <1>7, <1>8

\* end_op: writei has written the whole chunk or nothing.
LEMMA EndOpInv ==
    ASSUME IInv, NEW p \in Procs, EndOp(p)
    PROVE  IInv'
<1> USE DEF IInv
<1>1. pc[p] = "end" /\ Writes(p) /\ (r[p] = -1 \/ r[p] = ChunkOf(p)) /\ done[p] < req[p].n
  BY DEF EndOp, FrameInv
<1>2. ChunkOf(p) \in 1..(Word - 1) /\ done[p] + ChunkOf(p) <= req[p].n
  BY <1>1, ChunkRange
<1>3. /\ UNCHANGED <<size, off, holder, req, r, left, taken, panicked>>
      /\ tx' = tx \ {p}
      /\ \/ pc' = [pc EXCEPT ![p] = "user"] /\ done' = done
         \/ /\ done' = [done EXCEPT ![p] = @ + r[p]]
            /\ r[p] = ChunkOf(p)
            /\ pc' = [pc EXCEPT ![p] = IF done'[p] < req[p].n THEN "begin" ELSE "user"]
  BY <1>1, <1>2 DEF EndOp
<1>4. TypeOK'
  <2>1. done' \in [Procs -> Nat]
    BY <1>2, <1>3 DEF TypeOK
  <2>2. tx' \subseteq Procs
    BY <1>3 DEF TypeOK
  <2>3. pc' \in [Procs -> {"user", "begin", "lock", "asleep", "copy", "advance",
                            "unlock", "end"}]
    BY <1>3 DEF TypeOK
  <2> QED
    BY <1>3, <2>1, <2>2, <2>3 DEF TypeOK
<1>5. ExactlyOnce'
  BY <1>1, <1>3, OnceUnchanged DEF TypeOK
<1>6. NoPanic' /\ LockInv'
  BY <1>1, <1>3 DEF NoPanic, LockInv, TypeOK
<1>7. FrameInv'
  BY <1>1, <1>3 DEF FrameInv, TypeOK, Shared, Writes, ChunkOf
<1> QED
  BY <1>4, <1>5, <1>6, <1>7

\* A transfer of k bytes at f->off by the holder of the lock.
LEMMA TransferOnce ==
    ASSUME IInv, NEW p \in Procs, pc[p] = "copy", NEW k \in Int, k >= -1,
           off + k <= MaxFile, off' = off,
           taken' = Transfer(off, k),
           pc' = [pc EXCEPT ![p] = "advance"],
           r' = [r EXCEPT ![p] = k]
    PROVE  ExactlyOnce' /\ taken' \in [Positions -> Nat]
<1> USE DEF IInv
<1>1. \A q \in Procs : pc[q] # "advance"
  BY DEF LockInv
<1>2. \A x \in Positions : taken[x] = IF x < off THEN 1 ELSE 0
  BY <1>1 DEF ExactlyOnce
<1>3. \A q \in Procs : pc'[q] = "advance" <=> q = p
  BY <1>1 DEF TypeOK
<1>4. r'[p] = k
  BY DEF TypeOK
<1>5. off \in Nat
  BY FileFits DEF TypeOK
<1>6. \A x \in Positions : x \in Int
  BY FileFits DEF Positions
<1>7. \A x \in Positions : taken'[x] = IF x < off \/ x < off + k THEN 1 ELSE 0
  BY <1>2, <1>5, <1>6 DEF Transfer
<1>8. ExactlyOnce'
  BY <1>3, <1>4, <1>5, <1>6, <1>7 DEF ExactlyOnce, Positions
<1> QED
  BY <1>8 DEF Transfer, TypeOK

\* fileread under the lock.
LEMMA ReadInv ==
    ASSUME IInv, NEW p \in Procs, Read(p)
    PROVE  IInv'
<1> USE DEF IInv
<1> DEFINE k == Readi(off, req[p].n)
<1>1. off \in 0..(Word - 1) /\ req[p].n \in 0..(Word - 1) /\ size \in Nat
  BY FileFits DEF TypeOK
<1>2. k \in Int /\ k >= -1 /\ off + k <= size
  BY <1>1, ReadiResult DEF TypeOK
<1> HIDE DEF k
<1>3. /\ r' = [r EXCEPT ![p] = k]
      /\ r'[p] = k
      /\ taken' = Transfer(off, k)
      /\ pc[p] = "copy"
      /\ pc' = [pc EXCEPT ![p] = "advance"]
      /\ req[p].op = "read"
      /\ UNCHANGED <<size, off, holder, tx, req, done, left, panicked>>
  BY DEF Read, k, TypeOK
<1>4. ExactlyOnce' /\ taken' \in [Positions -> Nat]
  <2>1. off + k <= MaxFile
    BY <1>1, <1>2, FileFits DEF TypeOK
  <2> QED
    BY <1>2, <1>3, <2>1, TransferOnce
<1>5. TypeOK'
  BY <1>2, <1>3, <1>4 DEF TypeOK
<1>6. NoPanic' /\ LockInv'
  BY <1>3 DEF NoPanic, LockInv, TypeOK
<1>7. FrameInv'
  BY <1>2, <1>3 DEF FrameInv, TypeOK, Shared, Writes, ChunkOf
<1> QED
  BY <1>4, <1>5, <1>6, <1>7

\* filewrite under the lock.
LEMMA WriteInv ==
    ASSUME IInv, NEW p \in Procs, Write(p)
    PROVE  IInv'
<1> USE DEF IInv
<1> DEFINE k == Writei(off, ChunkOf(p))
<1>1. off \in 0..(Word - 1) /\ size \in Nat /\ off <= size /\ size <= MaxFile
  BY FileFits DEF TypeOK
<1>2. done[p] < req[p].n
  BY DEF FrameInv, Write, Writes
<1>3. ChunkOf(p) \in 1..(Word - 1)
  BY <1>2, ChunkRange
<1>4. k = -1 \/ (k = ChunkOf(p) /\ off + k <= MaxFile)
  <2>1. ChunkOf(p) \in 0..(Word - 1)
    BY <1>3, FileFits
  <2>2. \A n \in 0..(Word - 1) :
          \/ Writei(off, n) = -1
          \/ Writei(off, n) = n /\ off <= size /\ off + n <= MaxFile
    BY <1>1, WriteiResult
  <2> QED
    BY <2>1, <2>2, Zenon
<1>5. k \in Int /\ k >= -1 /\ off + k <= MaxFile
  BY <1>1, <1>3, <1>4, FileFits
<1> HIDE DEF k
<1>6. /\ r' = [r EXCEPT ![p] = k]
      /\ r'[p] = k
      /\ taken' = Transfer(off, k)
      /\ size' = IF k > 0 /\ off + k > size THEN off + k ELSE size
      /\ pc[p] = "copy"
      /\ pc' = [pc EXCEPT ![p] = "advance"]
      /\ req[p].op = "write"
      /\ UNCHANGED <<off, holder, tx, req, done, left, panicked>>
  BY DEF Write, k, TypeOK
<1>7. size' \in Nat /\ size <= size' /\ size' <= MaxFile /\ off + k <= size'
  BY <1>1, <1>5, <1>6
<1>8. ExactlyOnce' /\ taken' \in [Positions -> Nat]
  BY <1>5, <1>6, TransferOnce
<1>9. TypeOK'
  BY <1>1, <1>5, <1>6, <1>7, <1>8, FileFits DEF TypeOK
<1>10. NoPanic' /\ LockInv'
  BY <1>6 DEF NoPanic, LockInv, TypeOK
<1>11. \A q \in Procs : q # p => pc[q] # "advance"
  BY <1>6 DEF LockInv
<1>12. FrameInv'
  BY <1>2, <1>4, <1>6, <1>7, <1>11 DEF FrameInv, TypeOK, Shared, Writes, ChunkOf
<1> QED
  BY <1>8, <1>9, <1>10, <1>12

\* f->off += r.
LEMMA AdvanceInv ==
    ASSUME IInv, NEW p \in Procs, Advance(p)
    PROVE  IInv'
<1> USE DEF IInv
<1>1. /\ pc[p] = "advance"
      /\ \A q \in Procs : pc[q] = "advance" => q = p
      /\ pc' = [pc EXCEPT ![p] = "unlock"]
      /\ off' = IF r[p] > 0 THEN off + r[p] ELSE off
      /\ UNCHANGED <<size, holder, tx, req, done, r, left, panicked, taken>>
  BY DEF Advance, LockInv
<1>2. off \in Nat /\ r[p] \in Int /\ size \in Nat /\ off + r[p] <= size /\ off <= size
  BY <1>1, FileFits DEF TypeOK, FrameInv
<1>3. TypeOK'
  BY <1>1, <1>2 DEF TypeOK
<1>4. \A q \in Procs : pc'[q] # "advance"
  BY <1>1 DEF TypeOK
<1>5. \A x \in Positions : x \in Int
  BY FileFits DEF Positions
<1>6. \A x \in Positions : taken[x] = IF x < off \/ (r[p] > 0 /\ x < off + r[p]) THEN 1 ELSE 0
  BY <1>1 DEF ExactlyOnce
<1>7. \A x \in Positions : taken'[x] = IF x < off' THEN 1 ELSE 0
  BY <1>1, <1>2, <1>5, <1>6
<1>8. ExactlyOnce'
  BY <1>4, <1>7 DEF ExactlyOnce, Positions
<1>9. NoPanic' /\ LockInv'
  BY <1>1 DEF NoPanic, LockInv, TypeOK
<1>10. FrameInv'
  BY <1>1, <1>4 DEF FrameInv, TypeOK, Shared, Writes, ChunkOf
<1> QED
  BY <1>3, <1>8, <1>9, <1>10

\* pread, with its early returns.
LEMMA PReadInv ==
    ASSUME IInv, NEW p \in Procs, PRead(p)
    PROVE  IInv'
<1> USE DEF IInv
<1> DEFINE k == Readi(Unsigned(req[p].at), req[p].n)
<1>1. req[p].n \in 0..(Word - 1) /\ req[p].at \in Int
  BY DEF TypeOK
<1>2. k \in Int
  BY <1>1, UnsignedRange, ReadiResult
<1> HIDE DEF k
<1>3. /\ pc[p] = "copy"
      /\ req[p].op = "pread"
      /\ \/ pc' = [pc EXCEPT ![p] = "user"] /\ r' = r
         \/ pc' = [pc EXCEPT ![p] = "unlock"] /\ r' = [r EXCEPT ![p] = k]
      /\ UNCHANGED <<size, off, holder, tx, req, done, left, panicked, taken>>
  BY DEF PRead, k
<1>4. TypeOK'
  BY <1>2, <1>3, ZenonT(30) DEF TypeOK
<1>5. ExactlyOnce'
  BY <1>3, OnceUnchanged DEF TypeOK
<1>6. NoPanic' /\ LockInv'
  BY <1>3 DEF NoPanic, LockInv, TypeOK
<1>7. FrameInv'
  BY <1>3 DEF FrameInv, TypeOK, Shared, Writes, ChunkOf
<1> QED
  BY <1>4, <1>5, <1>6, <1>7

\* pwrite leaves f->off alone and may let the file grow.
LEMMA PWriteInv ==
    ASSUME IInv, NEW p \in Procs, PWrite(p)
    PROVE  IInv'
<1> USE DEF IInv
<1> DEFINE o == Unsigned(req[p].at)
           k == Writei(o, ChunkOf(p))
<1>1. req[p].at \in Int /\ size \in Nat /\ size <= MaxFile
  BY FileFits DEF TypeOK
<1>2. done[p] < req[p].n
  BY DEF FrameInv, PWrite, Writes
<1>3. ChunkOf(p) \in 1..(Word - 1)
  BY <1>2, ChunkRange
<1>4. o \in 0..(Word - 1)
  BY <1>1, UnsignedRange
<1>5. k = -1 \/ (k = ChunkOf(p) /\ o + k <= MaxFile)
  <2>1. ChunkOf(p) \in 0..(Word - 1)
    BY <1>3, FileFits
  <2>2. \A n \in 0..(Word - 1) :
          \/ Writei(o, n) = -1
          \/ Writei(o, n) = n /\ o <= size /\ o + n <= MaxFile
    BY <1>4, WriteiResult
  <2> QED
    BY <2>1, <2>2, Zenon
<1>6. /\ r' = [r EXCEPT ![p] = k]
      /\ size' = IF k > 0 /\ o + k > size THEN o + k ELSE size
      /\ req' = [req EXCEPT ![p].at = IF k > 0 THEN @ + k ELSE @]
      /\ pc[p] = "copy"
      /\ pc' = [pc EXCEPT ![p] = "unlock"]
      /\ req[p].op = "pwrite"
      /\ UNCHANGED <<off, holder, tx, done, left, panicked, taken>>
  BY DEF PWrite, TypeOK
<1> HIDE DEF k, o
<1>7. k \in Int
  BY <1>3, <1>5
<1>8. size' \in Nat /\ size <= size' /\ size' <= MaxFile
  BY <1>1, <1>4, <1>5, <1>6, <1>7
<1>9. /\ req' \in [Procs -> [op : {"read", "write", "pread", "pwrite"},
                             n : 0..(Word - 1), at : Int]]
      /\ \A q \in Procs : req'[q].op = req[q].op /\ req'[q].n = req[q].n
  BY <1>1, <1>6, <1>7 DEF TypeOK
<1>10. TypeOK'
  BY <1>1, <1>6, <1>7, <1>8, <1>9, FileFits DEF TypeOK
<1>11. ExactlyOnce'
  BY <1>6, OnceUnchanged DEF TypeOK
<1>12. NoPanic' /\ LockInv'
  BY <1>6 DEF NoPanic, LockInv, TypeOK
<1>13. \A q \in Procs : pc[q] # "advance"
  BY <1>6 DEF LockInv
<1>14. ChunkOf(p)' = ChunkOf(p)
  BY <1>6, <1>9 DEF ChunkOf
<1>15. r'[p] = -1 \/ r'[p] = ChunkOf(p)'
  BY <1>5, <1>6, <1>14 DEF TypeOK
<1>16. FrameInv'
  <2> SUFFICES ASSUME NEW q \in Procs
               PROVE  /\ pc'[q] # "advance"
                      /\ pc'[q] \in {"begin", "end"} => Writes(q)'
                      /\ pc'[q] # "user" /\ Writes(q)' => done'[q] < req'[q].n
                      /\ pc'[q] \in {"advance", "unlock", "end"} /\ Writes(q)' =>
                           r'[q] = -1 \/ r'[q] = ChunkOf(q)'
    BY DEF FrameInv
  <2>1. CASE q = p
    BY <2>1, <1>2, <1>6, <1>9, <1>15 DEF TypeOK
  <2>2. CASE q # p
    BY <2>2, <1>6, <1>9, <1>13 DEF FrameInv, TypeOK, Writes, ChunkOf
  <2> QED
    BY <2>1, <2>2
<1> QED
  BY <1>10, <1>11, <1>12, <1>16

\* Every step preserves the invariant.
LEMMA NextInv == IInv /\ [Next]_vars => IInv'
<1> SUFFICES ASSUME IInv, [Next]_vars PROVE IInv'
  OBVIOUS
<1>1. CASE UNCHANGED vars
  BY <1>1 DEF vars, IInv, TypeOK, ExactlyOnce, Positions, NoPanic, LockInv, FrameInv,
              Shared, Writes, ChunkOf
<1>2. ASSUME NEW p \in Procs, NEW q \in Requests, Call(p, q) PROVE IInv'
  BY <1>2, CallInv
<1>3. ASSUME NEW p \in Procs, Step(p) PROVE IInv'
  BY <1>3, BeginOpInv, ILockInv, ReadInv, WriteInv, AdvanceInv, PReadInv, PWriteInv,
     IUnlockInv, EndOpInv DEF Step
<1> QED
  BY <1>1, <1>2, <1>3 DEF Next

-----------------------------------------------------------------------------
(* Theorems.                                                               *)

\* The inductive invariant of file.c's reads and writes.
THEOREM Invariance == Spec => []IInv
  BY InitInv, NextInv, PTL DEF Spec

\* Type correctness: f->off never passes the end of the file.
THEOREM TypeCorrect == Spec => []TypeOK
<1>1. IInv => TypeOK
  BY DEF IInv
<1> QED
  BY <1>1, Invariance, PTL

\* fileread and filewrite transfer each position exactly once through a
\* shared offset.
THEOREM SharedOffset == Spec => []ExactlyOnce
<1>1. IInv => ExactlyOnce
  BY DEF IInv
<1> QED
  BY <1>1, Invariance, PTL

\* iunlock and filewrite do not panic.
THEOREM NeverPanics == Spec => []NoPanic
<1>1. IInv => NoPanic
  BY DEF IInv
<1> QED
  BY <1>1, Invariance, PTL

-----------------------------------------------------------------------------
(* The composition.                                                        *)

FilesInv == IInv /\ BlockMapInv /\ InodeInv

\* The invariants of the parts hold together: whatever one of them does, the
\* state of the others stays as it is.
LEMMA FilesNextInv == FilesInv /\ [FilesNext]_filesVars => FilesInv'
<1> SUFFICES ASSUME FilesInv, [FilesNext]_filesVars PROVE FilesInv'
  OBVIOUS
<1>1. IInv /\ BlockMapInv /\ InodeInv
  BY DEF FilesInv
<1>2. /\ [Next]_vars
      /\ [BlockMapNext]_blockVars
      /\ [InodeNext]_inodeVars
  <2>1. CASE UNCHANGED filesVars
    BY <2>1 DEF filesVars
  <2>2. CASE OnIO /\ Next
    BY <2>2 DEF OnIO
  <2>3. CASE OnBlocks /\ BlockMapNext
    BY <2>3 DEF OnBlocks
  <2>4. CASE OnNames /\ InodeNext
    BY <2>4 DEF OnNames
  <2> QED
    BY <2>1, <2>2, <2>3, <2>4 DEF FilesNext
<1>3. IInv'
  BY <1>1, <1>2, NextInv
<1>4. BlockMapInv'
  BY <1>1, <1>2, StepKeeps
<1>5. InodeInv'
  BY <1>1, <1>2, InodeNextInv
<1> QED
  BY <1>3, <1>4, <1>5 DEF FilesInv

\* In the composition of read and write calls, names and blocks, each part
\* keeps its invariant.
THEOREM FilesInvariant == FilesSpec => []FilesInv
<1>1. FilesInit => FilesInv
  BY InitInv, InitKeeps, InodeInitInv DEF FilesInit, FilesInv
<1> QED
  BY <1>1, FilesNextInv, PTL DEF FilesSpec

\* A file that itrunc is not emptying has no holes, the reference count of a
\* cached inode is the number of pointers to it and that of a file the number
\* of its descriptors, also when calls, names and blocks are at work in one
\* system (bmap, iget, iput, filedup, fileclose).
THEOREM FilesTyped == FilesSpec => []FilesTypeOK
<1>1. FilesInv => FilesTypeOK
  <2> SUFFICES ASSUME FilesInv PROVE FilesTypeOK
    OBVIOUS
  <2>1. BlockMapTypeOK
    BY InvTypeOK DEF FilesInv
  <2>2. InodeTypeOK
    BY DEF FilesInv, InodeInv, InodeTypes, RefInv, FileInv, InodeTypeOK, Holders, FileUsers,
           IpUsers, PutUsers, Descriptors
  <2> QED
    BY <2>1, <2>2 DEF FilesTypeOK
<1> QED
  BY <1>1, FilesInvariant, PTL
=============================================================================

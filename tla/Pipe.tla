-------------------------------- MODULE Pipe --------------------------------
(***************************************************************************)
(* pipe.c of project3/xv6-public, with the reference counts of file.c that  *)
(* decide when an end is closed, under processes that fork, exit, wait and  *)
(* are killed (Process).  There is one pipe at a time; its two struct files *)
(* are "r" and "w".  A section under p->lock is one action.  nread and      *)
(* nwrite are uints that wrap around at Word.                               *)
(***************************************************************************)
EXTENDS Process, Sequences

CONSTANTS
    PIPESIZE,     \* pipe.c: the size of data
    Word,         \* 2^32, the number of values of a uint
    Writes,       \* the byte strings that processes write
    Reads         \* the lengths that processes ask for

ASSUME PipeAssumption ==
    /\ PIPESIZE \in Nat \ {0}
    /\ Word \in Nat /\ Word > PIPESIZE /\ Word % PIPESIZE = 0
    /\ Writes \subseteq Seq(Nat) \ {<<>>}
    /\ Reads \subseteq Nat \ {0}

VARIABLES
    ofile,        \* the ends that each process has open
    ref,          \* f->ref of the two struct files
    opened,       \* the ends whose readopen or writeopen is set
    data, nread, nwrite,
    todo,         \* pipewrite: the bytes still to be written, addr[i..n-1]
    want          \* piperead: n

pipeVars == <<ofile, ref, opened, data, nread, nwrite, todo, want>>

Ends == {"r", "w"}

\* The addresses of the two counters, on which readers and writers sleep.
NReadChan == -1
NWriteChan == -2

PipeInit ==
    /\ ofile = [p \in Procs |-> {}]
    /\ ref = [f \in Ends |-> 0]
    /\ opened = {}
    /\ data = [i \in 0..PIPESIZE - 1 |-> 0]
    /\ nread = 0
    /\ nwrite = 0
    /\ todo = [p \in Procs |-> <<>>]
    /\ want = [p \in Procs |-> 0]

-----------------------------------------------------------------------------
(* Descriptors.                                                            *)

\* sys_pipe, pipealloc: both ends in the caller's table.
SysPipe(p) ==
    /\ InUser(p)
    /\ opened = {}
    /\ ofile' = [ofile EXCEPT ![p] = Ends]
    /\ ref' = [f \in Ends |-> 1]
    /\ opened' = Ends
    /\ nread' = 0
    /\ nwrite' = 0
    /\ data' = [i \in 0..PIPESIZE - 1 |-> 0]
    /\ UNCHANGED <<procVars, todo, want>>

\* Mutant of DupFiles: the child uses the parent's files without a reference.
DupFilesUncounted(p) ==
    /\ ofile' = [ofile EXCEPT ![np[p]] = ofile[p]]
    /\ UNCHANGED ref

\* fork: filedup on every open file of the parent.
DupFiles(p) ==
    /\ ofile' = [ofile EXCEPT ![np[p]] = ofile[p]]
    /\ ref' = [f \in Ends |-> IF f \in ofile[p] THEN ref[f] + 1 ELSE ref[f]]

PipeFork(p) ==
    /\ ForkReturn(p)
    /\ DupFiles(p)
    /\ UNCHANGED <<opened, data, nread, nwrite, todo, want>>

\* Mutant of PipeClose: the sleepers at the other end are not told.
PipeCloseSilent(f) ==
    /\ opened' = opened \ {f}
    /\ UNCHANGED <<state, chan>>

\* pipeclose: the end is closed and the other end's sleepers are woken.  When
\* both are closed the page is freed.
PipeClose(f) ==
    /\ opened' = opened \ {f}
    /\ Wakeup(IF f = "w" THEN NReadChan ELSE NWriteChan)

\* fileclose: drop a reference, and close the end with the last one.  (The
\* section on ftable and pipeclose are one step: in between nobody else has
\* the end, and the pipe looks as before.)
FileClose(p, f) ==
    /\ f \in ofile[p]
    /\ ofile' = [ofile EXCEPT ![p] = @ \ {f}]
    /\ ref' = [ref EXCEPT ![f] = @ - 1]
    /\ IF ref[f] > 1 THEN UNCHANGED <<opened, state, chan>> ELSE PipeClose(f)
    /\ UNCHANGED <<parent, pid, killed, pc, np, data, nread, nwrite, todo,
                   want>>

\* sys_close, and the loop over the open files in exit().
Close(p) ==
    /\ InUser(p) \/ Running(p, "exit")
    /\ \E f \in ofile[p] : FileClose(p, f)

\* exit() goes on when its files are closed.
PipeExit(p) == ofile[p] = {} /\ ExitZombie(p) /\ UNCHANGED pipeVars

-----------------------------------------------------------------------------
(* Transfer.                                                               *)

Count == (nwrite - nread) % Word
Least(m, n) == IF m < n THEN m ELSE n

\* The bytes in the pipe, the oldest first.
Contents == [i \in 1..Count |-> data[(nread + i - 1) % PIPESIZE]]

\* Mutant of Full: one byte more is written.
FullLate == (nread + PIPESIZE + 1) % Word

\* The value of nwrite at which the pipe is full (DOC: pipewrite-full).
Full == (nread + PIPESIZE) % Word

\* The bytes that pipewrite can copy before nwrite == nread + PIPESIZE.
Room == (Full - nwrite) % Word

\* sys_write: a kill may still arrive before pipewrite has p->lock.
WriteCall(p) ==
    /\ InUser(p)
    /\ "w" \in ofile[p]
    /\ \E s \in Writes : todo' = [todo EXCEPT ![p] = s]
    /\ pc' = [pc EXCEPT ![p] = "write"]
    /\ UNCHANGED <<state, parent, pid, killed, chan, np, ofile, ref, opened,
                   data, nread, nwrite, want>>

CopyIn(s) ==
    /\ data' = [i \in DOMAIN data |->
          LET js == {j \in 1..Len(s) : (nwrite + j - 1) % PIPESIZE = i}
          IN  IF js = {} THEN data[i] ELSE s[CHOOSE j \in js : \A l \in js : j >= l]]
    /\ nwrite' = (nwrite + Len(s)) % Word

\* One section of pipewrite: copy until done or full.  When full, give up if
\* nobody can read or the caller is killed (without a wakeup), else wake the
\* readers and sleep.
PipeWrite(p) ==
    /\ Running(p, "write")
    /\ LET k == Least(Room, Len(todo[p]))
           rest == SubSeq(todo[p], k + 1, Len(todo[p]))
       IN  /\ CopyIn(SubSeq(todo[p], 1, k))
           /\ \/ /\ rest = <<>>
                 /\ Wakeup(NReadChan)
                 /\ pc' = [pc EXCEPT ![p] = "user"]
                 /\ todo' = [todo EXCEPT ![p] = <<>>]
              \/ /\ rest # <<>>
                 /\ "r" \notin opened \/ killed[p]
                 /\ pc' = [pc EXCEPT ![p] = "user"]
                 /\ todo' = [todo EXCEPT ![p] = <<>>]
                 /\ UNCHANGED <<state, chan>>
              \/ /\ rest # <<>>
                 /\ "r" \in opened
                 /\ ~killed[p]
                 /\ SleepFrom(Woken(state, NReadChan), p, NWriteChan)
                 /\ todo' = [todo EXCEPT ![p] = rest]
                 /\ UNCHANGED pc
    /\ UNCHANGED <<parent, pid, killed, np, ofile, ref, opened, nread, want>>

\* One section of piperead: sleep while the pipe is empty and somebody may
\* write, else copy what is there and wake the writers.
PipeRead(p, n) ==
    /\ \/ InUser(p) /\ "r" \in ofile[p]
       \/ Running(p, "read") /\ want[p] = n
    /\ \/ /\ Count = 0 /\ "w" \in opened /\ killed[p]
          /\ pc' = [pc EXCEPT ![p] = "user"]
          /\ want' = [want EXCEPT ![p] = 0]
          /\ UNCHANGED <<state, chan, nread>>
       \/ /\ Count = 0 /\ "w" \in opened /\ ~killed[p]
          /\ Sleep(p, NReadChan)
          /\ pc' = [pc EXCEPT ![p] = "read"]
          /\ want' = [want EXCEPT ![p] = n]
          /\ UNCHANGED nread
       \/ /\ Count > 0 \/ "w" \notin opened
          /\ nread' = (nread + Least(n, Count)) % Word
          /\ Wakeup(NWriteChan)
          /\ pc' = [pc EXCEPT ![p] = "user"]
          /\ want' = [want EXCEPT ![p] = 0]
    /\ UNCHANGED <<parent, pid, killed, np, ofile, ref, opened, data, nwrite, todo>>

-----------------------------------------------------------------------------
(* The process calls that leave the pipe alone.                            *)

PipeQuiet(p) ==
    /\ ForkAlloc(p) \/ ForkFail(p) \/ ExitCall(p) \/ Wait(p)
    /\ UNCHANGED pipeVars
PipeKill == (\E q \in Killable : Kill(q)) /\ UNCHANGED pipeVars

\* init (init.c) forks and waits; it neither opens a pipe nor exits.
UserCalls(p) ==
    /\ p # initproc
    /\ \/ SysPipe(p) \/ Close(p) \/ WriteCall(p) \/ PipeWrite(p) \/ PipeExit(p)
       \/ \E n \in Reads : PipeRead(p, n)

PipeNext ==
    \/ \E p \in Procs : PipeQuiet(p) \/ PipeFork(p) \/ UserCalls(p)
    \/ PipeKill

\* What a process does without being asked by its user program: the rest of
\* a call it has begun, and exit() once it is killed.
KernelStep(p) ==
    \/ (ForkFail(p) /\ UNCHANGED pipeVars) \/ PipeFork(p)
    \/ (ExitCall(p) /\ killed[p] /\ UNCHANGED pipeVars)
    \/ (Running(p, "wait") /\ Wait(p) /\ UNCHANGED pipeVars)
    \/ (Running(p, "exit") /\ Close(p)) \/ PipeExit(p)
    \/ PipeWrite(p)
    \/ (Running(p, "read") /\ \E n \in Reads : PipeRead(p, n))

PipeSpec == ProcInit /\ PipeInit /\ [][PipeNext]_<<procVars, pipeVars>>

-----------------------------------------------------------------------------
(* Properties.                                                             *)

\* Types; the wrapping counters are never more than PIPESIZE apart.
PipeTypeOK ==
    /\ ofile \in [Procs -> SUBSET Ends]
    /\ ref \in [Ends -> Nat]
    /\ opened \subseteq Ends
    /\ nread \in 0..Word - 1 /\ nwrite \in 0..Word - 1
    /\ Count <= PIPESIZE

\* The page of a pipe is in use exactly as long as somebody can reach it: the
\* reference counts are the number of holders, and an end is open as long as
\* somebody holds it, so no call runs on a freed pipe.
PipeHeld ==
    \A f \in Ends :
        /\ ref[f] = Cardinality({p \in Procs : f \in ofile[p]})
        /\ (f \in opened) <=> (ref[f] > 0)

\* A writer sleeps only while the pipe is full and somebody may read: no read
\* and no close of the other end is missed, and no kill.
WritersSleepFull ==
    \A p \in Procs : state[p] = "SLEEPING" /\ chan[p] = NWriteChan =>
        Count = PIPESIZE /\ "r" \in opened /\ ~killed[p]

\* A reader that sleeps on an empty pipe is woken by the write that fills it,
\* with one exception in the code: a writer that is killed on the way into
\* pipewrite, and finds the pipe full in the middle, returns without a wakeup.
ReadersWoken ==
    [][\A p \in Procs :
          /\ state[p] = "SLEEPING" /\ chan[p] = NReadChan
          /\ Count' # 0 \/ "w" \notin opened'
          /\ state'[p] = "SLEEPING"
          => \/ Count # 0
             \/ \E q \in Procs : /\ pc[q] = "write" /\ killed[q]
                                 /\ pc'[q] = "user" /\ Count' = PIPESIZE
      ]_<<procVars, pipeVars>>

F == INSTANCE Fifo WITH Writers <- Procs, Inputs <- Writes, Cap <- PIPESIZE,
                        queue <- Contents

\* The ring buffer with its wrapping counters is a bounded queue: each byte
\* comes out once, unchanged and in order.
PipeIsFifo == F!FifoSpec
=============================================================================

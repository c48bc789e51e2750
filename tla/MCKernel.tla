------------------------------- MODULE MCKernel -------------------------------
(***************************************************************************)
(* Processes that talk through a pipe, read the console, or compete for     *)
(* memory.  A behaviour has one workload, chosen in its initial state; the  *)
(* other parts stay as they are after boot.                                 *)
(***************************************************************************)
EXTENDS Pipe, Console, Memory

VARIABLE workload

kernelVars == <<procVars, pipeVars, consoleVars, memVars, workload>>

KernelInit ==
    /\ workload \in {"pipe", "console", "memory"}
    /\ ProcInit /\ PipeInit /\ ConsoleInit /\ MemInit

OnPipe == workload = "pipe" /\ UNCHANGED <<consoleVars, memVars, workload>>
OnConsole == workload = "console" /\ UNCHANGED <<pipeVars, memVars, workload>>
OnMemory == workload = "memory" /\ UNCHANGED <<pipeVars, consoleVars, workload>>

KernelNext ==
    \/ OnPipe /\ PipeNext
    \/ OnConsole /\ ConsoleNext
    \/ OnMemory /\ MemNext

\* Every process that can go on in the kernel gets a turn of the scheduler.
InKernel(p) ==
    \/ OnPipe /\ KernelStep(p)
    \/ OnConsole /\ ConsoleStep(p)
    \/ OnMemory /\ MemStep(p)

\* init.c calls wait() between any two forks, so that however often it is
\* found elsewhere it comes back to wait (strong fairness).
InitWaits ==
    \/ OnPipe /\ Wait(initproc) /\ UNCHANGED pipeVars
    \/ OnConsole /\ Wait(initproc) /\ UNCHANGED consoleVars
    \/ OnMemory /\ MemWait(initproc)

KernelSpec ==
    /\ KernelInit /\ [][KernelNext]_kernelVars
    /\ \A p \in Procs : WF_kernelVars(InKernel(p))
    /\ SF_kernelVars(InitWaits)

\* Memory follows the processes under its own workload only.
MemoryTyped == workload = "memory" => MemTypeOK

\* The type invariants of the four components.
KernelTypeOK == ProcTypeOK /\ PipeTypeOK /\ ConsoleTypeOK /\ MemoryTyped

\* No wakeup is lost: nobody sleeps in wait(), in pipewrite() or in
\* consoleread() although what it waits for has happened, or with a kill
\* pending, whoever else was woken by the same wakeup and came first.
SleepersWait == NoLostExit /\ WritersSleepFull /\ ReadersSleepEmpty

\* Whichever sbrk, fork or exec fails for want of memory, at whichever page, no
\* page is lost or given back twice, and the pages of a process are those that
\* its size covers.
MemorySound == PagesConserved /\ (workload = "memory" => SizeMapped)

\* The instance of the run.
MCWrites == {<<1>>, <<1, 2, 1>>}
===============================================================================

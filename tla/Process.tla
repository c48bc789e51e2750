------------------------------- MODULE Process -------------------------------
(***************************************************************************)
(* The life cycle of processes in proc.c (project3/xv6-public): fork, exit, *)
(* wait, kill, and the sleep/wakeup protocol that every blocking call uses. *)
(* The module is a component: it describes the process table only, and its  *)
(* actions are conjoined with what the same calls do to files (Pipe) and to *)
(* the console (Console).                                                   *)
(*                                                                         *)
(* A section under ptable.lock is one action.  RUNNING is not told apart    *)
(* from RUNNABLE: every interleaving of the runnable processes is allowed.  *)
(* One processor: a spinlock keeps interrupts off, so that nothing happens  *)
(* between the test of killed and the sleep of the same section.            *)
(***************************************************************************)
EXTENDS Integers, FiniteSets

CONSTANTS
    NPROC,        \* param.h: "maximum number of processes"
    Killable      \* the processes that somebody may kill (init must not be)

initproc == 1
Procs == 1..NPROC

ASSUME ProcessAssumption ==
    /\ NPROC \in Nat \ {0}
    /\ Killable \subseteq Procs \ {initproc}

VARIABLES
    state,        \* p->state
    parent,       \* p->parent, 0 for none
    pid,          \* p->pid, as far as kill() tells them apart: 0 or not
    killed,       \* p->killed
    chan,         \* p->chan of a SLEEPING process, else NoChan
    pc,           \* where the process is: in user mode or inside a call
    np            \* fork()'s local: the slot of the child, 0 for none

procVars == <<state, parent, pid, killed, chan, pc, np>>

NoChan == 0
States == {"UNUSED", "EMBRYO", "SLEEPING", "RUNNABLE", "ZOMBIE"}
Live == {"SLEEPING", "RUNNABLE"}

\* userinit: the first process, running initcode and then init.
ProcInit ==
    /\ state = [p \in Procs |-> IF p = initproc THEN "RUNNABLE" ELSE "UNUSED"]
    /\ parent = [p \in Procs |-> 0]
    /\ pid = [p \in Procs |-> IF p = initproc THEN 1 ELSE 0]
    /\ killed = [p \in Procs |-> FALSE]
    /\ chan = [p \in Procs |-> NoChan]
    /\ pc = [p \in Procs |-> "user"]
    /\ np = [p \in Procs |-> 0]

Lowest(S) == CHOOSE p \in S : \A q \in S : p <= q

-----------------------------------------------------------------------------
(* sleep and wakeup.  The table of states is a parameter, since exit()     *)
(* wakes two channels and changes its own state in one section.            *)

\* Mutant of Woken: only the first sleeper is woken.
WokenFirst(st, c) ==
    LET asleep == {q \in Procs : st[q] = "SLEEPING" /\ chan[q] = c}
    IN  [q \in Procs |-> IF asleep # {} /\ q = Lowest(asleep)
                         THEN "RUNNABLE" ELSE st[q]]

\* wakeup1: every process asleep on channel c becomes RUNNABLE.
Woken(st, c) ==
    [q \in Procs |->
        IF st[q] = "SLEEPING" /\ chan[q] = c THEN "RUNNABLE" ELSE st[q]]

\* p->chan is read only of a SLEEPING process: clear it with the state.
Tidy(st) == [q \in Procs |-> IF st[q] = "SLEEPING" THEN chan[q] ELSE NoChan]

\* wakeup(c), called by a running process.
Wakeup(c) ==
    /\ state' = Woken(state, c)
    /\ chan' = Tidy(state')

\* sleep(c, lk): the lock lk is given up only under ptable.lock, so that no
\* wakeup can come between the caller's test and the change of state.
SleepFrom(st, p, c) ==
    /\ state' = [st EXCEPT ![p] = "SLEEPING"]
    /\ chan' = [Tidy(st) EXCEPT ![p] = c]
Sleep(p, c) == SleepFrom(state, p, c)

Running(p, where) == state[p] = "RUNNABLE" /\ pc[p] = where

\* trap() tests killed before and after a system call: a killed process
\* makes no further call.
InUser(p) == Running(p, "user") /\ ~killed[p]

-----------------------------------------------------------------------------
(* fork.                                                                   *)

Free == {p \in Procs : state[p] = "UNUSED"}

\* Mutant of ForkAlloc: the slot is not marked as taken.
ForkAllocUnmarked(p) ==
    /\ InUser(p)
    /\ Free # {}
    /\ np' = [np EXCEPT ![p] = Lowest(Free)]
    /\ pc' = [pc EXCEPT ![p] = "fork"]
    /\ UNCHANGED <<state, pid, parent, killed, chan>>

\* fork, first half: allocproc takes the first UNUSED slot.
ForkAlloc(p) ==
    /\ InUser(p)
    /\ Free # {}
    /\ LET c == Lowest(Free)
       IN  /\ state' = [state EXCEPT ![c] = "EMBRYO"]
           /\ pid' = [pid EXCEPT ![c] = 1]
           /\ np' = [np EXCEPT ![p] = c]
    /\ pc' = [pc EXCEPT ![p] = "fork"]
    /\ UNCHANGED <<parent, killed, chan>>

\* fork: copyuvm found no memory; the slot keeps its pid.
ForkFail(p) ==
    /\ Running(p, "fork")
    /\ state' = [state EXCEPT ![np[p]] = "UNUSED"]
    /\ np' = [np EXCEPT ![p] = 0]
    /\ pc' = [pc EXCEPT ![p] = "user"]
    /\ UNCHANGED <<parent, pid, killed, chan>>

\* fork, second half: the child gets its parent and becomes RUNNABLE.  Its
\* killed flag is what kill() has made of the slot.
ForkReturn(p) ==
    /\ Running(p, "fork")
    /\ parent' = [parent EXCEPT ![np[p]] = p]
    /\ state' = [state EXCEPT ![np[p]] = "RUNNABLE"]
    /\ pc' = [pc EXCEPT ![p] = "user", ![np[p]] = "user"]
    /\ np' = [np EXCEPT ![p] = 0]
    /\ UNCHANGED <<pid, killed, chan>>

-----------------------------------------------------------------------------
(* exit and wait.                                                          *)

Children(p) == {c \in Procs : parent[c] = p}
Zombies(p) == {c \in Children(p) : state[c] = "ZOMBIE"}

\* exit is entered by sys_exit, or by trap() for a killed process on its way
\* to user mode.
ExitCall(p) ==
    /\ Running(p, "user")
    /\ p # initproc
    /\ pc' = [pc EXCEPT ![p] = "exit"]
    /\ UNCHANGED <<state, parent, pid, killed, chan, np>>

\* Mutant of ExitZombie: the children keep the dead process as their parent.
ExitZombieOrphans(p) ==
    /\ Running(p, "exit")
    /\ state' = [Woken(state, parent[p]) EXCEPT ![p] = "ZOMBIE"]
    /\ chan' = Tidy(state')
    /\ UNCHANGED <<parent, pid, killed, pc, np>>

\* Mutant of ExitZombie: the parent is not woken.
ExitZombieSilent(p) ==
    /\ Running(p, "exit")
    /\ parent' = [c \in Procs |-> IF parent[c] = p THEN initproc ELSE parent[c]]
    /\ state' = [state EXCEPT ![p] = "ZOMBIE"]
    /\ UNCHANGED <<pid, killed, chan, pc, np>>

\* exit, after the files are closed: wake the parent, pass the children to
\* init, and become a ZOMBIE for ever.
ExitZombie(p) ==
    /\ Running(p, "exit")
    /\ parent' = [c \in Procs |-> IF parent[c] = p THEN initproc ELSE parent[c]]
    /\ LET woken == Woken(state, parent[p])
           both == IF Zombies(p) # {} THEN Woken(woken, initproc) ELSE woken
       IN  state' = [both EXCEPT ![p] = "ZOMBIE"]
    /\ chan' = Tidy(state')
    /\ UNCHANGED <<pid, killed, pc, np>>

\* One pass of wait() over the table.  It reaps the first zombie child, or
\* gives up, or sleeps on its own proc structure.
Wait(p) ==
    /\ InUser(p) \/ Running(p, "wait")
    /\ \/ /\ Zombies(p) # {}
          /\ LET z == Lowest(Zombies(p))
             IN  /\ state' = [state EXCEPT ![z] = "UNUSED"]
                 /\ parent' = [parent EXCEPT ![z] = 0]
                 /\ killed' = [killed EXCEPT ![z] = FALSE]
                 /\ pid' = [pid EXCEPT ![z] = 0]
                 /\ pc' = [pc EXCEPT ![p] = "user", ![z] = "user"]
          /\ UNCHANGED chan
       \/ /\ Zombies(p) = {}
          /\ Children(p) = {} \/ killed[p]
          /\ pc' = [pc EXCEPT ![p] = "user"]
          /\ UNCHANGED <<state, parent, pid, killed, chan>>
       \/ /\ Zombies(p) = {}
          /\ Children(p) # {}
          /\ ~killed[p]
          /\ Sleep(p, p)
          /\ pc' = [pc EXCEPT ![p] = "wait"]
          /\ UNCHANGED <<parent, pid, killed>>
    /\ UNCHANGED np

-----------------------------------------------------------------------------
(* kill.                                                                   *)

\* The slots that a pid can name: those of processes (and of failed forks),
\* and for kill(0) the first slot without one.
Named ==
    {q \in Procs : pid[q] = 0 => \A r \in Procs : pid[r] = 0 => q <= r}

\* Mutant of Kill: the flag is set and the victim left asleep.
KillAsleep(q) ==
    /\ q \in Killable
    /\ killed' = [killed EXCEPT ![q] = TRUE]
    /\ UNCHANGED <<state, parent, pid, chan, pc, np>>

\* kill(pid) marks the slot that carries the pid, whatever its state, and
\* wakes it.  kill(0) finds the first slot that has no process.
Kill(q) ==
    /\ q \in Killable \cap Named
    /\ killed' = [killed EXCEPT ![q] = TRUE]
    /\ state' = [state EXCEPT ![q] = IF @ = "SLEEPING" THEN "RUNNABLE" ELSE @]
    /\ chan' = Tidy(state')
    /\ UNCHANGED <<parent, pid, pc, np>>

-----------------------------------------------------------------------------
(* Properties.                                                             *)

\* Types; the slot that a fork() has taken is nobody else's.
ProcTypeOK ==
    /\ state \in [Procs -> States]
    /\ parent \in [Procs -> Procs \cup {0}]
    /\ pid \in [Procs -> {0, 1}]
    /\ killed \in [Procs -> BOOLEAN]
    /\ \A p \in Procs : (chan[p] = NoChan) <=> (state[p] # "SLEEPING")
    /\ np \in [Procs -> Procs \cup {0}]
    /\ \A p \in Procs : np[p] # 0 =>
          state[np[p]] = "EMBRYO" /\ \A q \in Procs \ {p} : np[q] # np[p]

\* No exit is missed: a process asleep in wait() has a child that may still
\* exit, and none that has; nobody sleeps there with a kill pending.  exit()
\* wakes before it becomes a ZOMBIE, and passes zombies on to init.
NoLostExit ==
    \A p \in Procs : state[p] = "SLEEPING" /\ chan[p] = p =>
        /\ Children(p) # {}
        /\ Zombies(p) = {}
        /\ ~killed[p]

\* Whoever is alive or a ZOMBIE has somebody who can wait for it: its parent
\* is alive, through any order of exits and reused slots.
ParentAlive ==
    \A p \in Procs \ {initproc} : state[p] \in Live \cup {"ZOMBIE"} =>
        parent[p] \in Procs /\ state[parent[p]] \in Live

\* A killed process exits, whatever it was blocked in.
KilledDies ==
    \A p \in Killable :
        killed[p] /\ state[p] \in Live ~> state[p] \in {"ZOMBIE", "UNUSED"}

\* Zombies do not clog the process table: as long as init has one to reap, be
\* it its own child or an orphan handed to it, a slot becomes free.
OrphansReaped == Zombies(initproc) # {} ~> Free # {}
=============================================================================

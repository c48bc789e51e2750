------------------------------- MODULE Scheduler -------------------------------
(***************************************************************************)
(* The combined MLFQ and stride scheduler of projects 1 and 3 (proc.c and  *)
(* the timer part of trap.c) on one processor, the configuration the       *)
(* comments of trap.c and ide.c assume.                                    *)
(*                                                                         *)
(* A process is its slot in ptable.proc.  Entity 0 is the record mlfq on   *)
(* the stack of scheduler(), which stands for all MLFQ processes in the    *)
(* stride table; as the value of cur, 0 says that scheduler() itself runs. *)
(* A system call can be preempted between its locked sections, so each     *)
(* section is an action of its own.                                        *)
(*                                                                         *)
(* Passes are only compared and copied, so the model keeps them relative   *)
(* to the smallest one; at the last level time_allotment only matters      *)
(* modulo the quantum, and is kept modulo the quantum.  MLFQ_ticks is kept *)
(* modulo PERIOD_BOOSTING.                                                 *)
(***************************************************************************)
EXTENDS Integers, Sequences, FiniteSets, SequencesExt

CONSTANTS
    Slots,              \* slots of ptable in use: bound on the live processes
    NPROC,              \* size of the arrays of the queues and of stable
    TotalShare,         \* 100
    MinMlfqShare,       \* 20: what set_cpu_share leaves to the MLFQ
    MULTSTRIDESHARE,    \* 1000
    time_quantom,       \* ticks between two yields at a level
    time_allotment,     \* ticks allowed at a level
    PERIOD_BOOSTING,    \* MLFQ ticks between two boosts
    Shares,             \* arguments that programs give to set_cpu_share
    CanYield,           \* whether processes call yield
    CanRepeat,          \* whether a process calls set_cpu_share twice
    Sleepers,           \* slots whose processes block
    CanFork,            \* whether processes fork
    CanExit,            \* whether processes other than init exit
    CanFail,            \* whether copyuvm may run out of memory in fork
    MaxPass             \* bound on the distance of two passes

Mlfq     == 0
Nobody   == 0
Entities == Slots \cup {Mlfq}

Levels     == 0..2
LastLevel  == 2
STRIDE_LEV == 9

ASSUME SlotsAreTableSlots == NPROC \in Nat /\ Slots \subseteq 1..NPROC /\ 1 \in Slots
ASSUME LevelTables ==
    /\ \A l \in Levels \cup {STRIDE_LEV} : time_quantom[l] \in Nat \ {0}
    /\ \A l \in {0, 1, STRIDE_LEV} : time_allotment[l] \in Nat \ {0}
    /\ time_allotment[LastLevel] \in Nat
    /\ PERIOD_BOOSTING \in Nat \ {0}
ASSUME SharesArePossible ==
    /\ TotalShare \in Nat \ {0} /\ MinMlfqShare \in Nat \ {0}
    /\ MULTSTRIDESHARE \in Nat
    /\ Shares \subseteq 0..TotalShare

VARIABLES
    state,      \* p->state
    lev,        \* p->lev
    allot,      \* p->time_allotment
    share,      \* p->share; share[Mlfq] is mlfq.share
    pass,       \* p->pass;  pass[Mlfq] is mlfq.pass
    min_pass,   \* the global of that name
    from_trap,  \* p->from_trap
    queue,      \* ptable.ARRAYQUEUE and q_size
    stable,     \* stable.proc[0 .. stable_size]
    ticks,      \* MLFQ_ticks % PERIOD_BOOSTING
    cur,        \* the process on the processor
    call,       \* the system call that each process is inside of
    broken      \* an array overrun or a division by zero has happened

vars == <<state, lev, allot, share, pass, min_pass, from_trap, queue, stable,
          ticks, cur, call, broken>>

strideVars == <<share, pass, min_pass, stable>>

InUser == <<"user", 0>>

Live(p) == state[p] \in {"RUNNABLE", "RUNNING", "SLEEPING"}

-----------------------------------------------------------------------------
(* userinit and the first lines of scheduler(): init is ready to run.      *)

Init ==
    /\ state = [p \in Slots |-> IF p = 1 THEN "RUNNABLE" ELSE "UNUSED"]
    /\ lev = [p \in Slots |-> 0]
    /\ allot = [p \in Slots |-> IF p = 1 THEN time_allotment[0] ELSE 0]
    /\ share = [e \in Entities |-> IF e = Mlfq THEN TotalShare ELSE 0]
    /\ pass = [e \in Entities |-> 0]
    /\ min_pass = 0
    /\ from_trap = [p \in Slots |-> FALSE]
    /\ queue = [l \in Levels |-> IF l = 0 THEN <<1>> ELSE <<>>]
    /\ stable = <<Mlfq>>
    /\ ticks = 0
    /\ cur = Nobody
    /\ call = [p \in Slots |-> InUser]
    /\ broken = FALSE

-----------------------------------------------------------------------------
(* scheduler()                                                             *)

\* Entries of the stride table that the search for the smallest pass admits:
\* entry 1 from the start, the others when RUNNABLE.
Eligible == {i \in DOMAIN stable : i = 1 \/ state[stable[i]] = "RUNNABLE"}

\* Mutant of MinIndex: the comparison is turned round.
MinIndexReversed ==
    CHOOSE i \in Eligible : \A j \in Eligible :
        pass[stable[j]] < pass[stable[i]] \/ (pass[stable[j]] = pass[stable[i]] /\ i <= j)

\* The first entry with the smallest pass.
MinIndex ==
    CHOOSE i \in Eligible : \A j \in Eligible :
        pass[stable[i]] < pass[stable[j]] \/ (pass[stable[i]] = pass[stable[j]] /\ i <= j)

\* What p holds after the double loop over the queues: the first RUNNABLE
\* process without a share, else the last entry of the queues, whatever its
\* state, else &mlfq itself.
MlfqChoice ==
    LET all == queue[0] \o queue[1] \o queue[2]
        hit == SelectInSeq(all, LAMBDA p : state[p] = "RUNNABLE" /\ share[p] = 0)
    IN  IF hit # 0 THEN all[hit] ELSE IF all # <<>> THEN Last(all) ELSE Mlfq

\* Passes relative to the smallest one of the stride table and min_pass.
Base(ps, mp) == Min({ps[stable[i]] : i \in DOMAIN stable} \cup {mp})

\* MULTSTRIDESHARE / p->share, rounded towards zero: the race of two calls of
\* set_cpu_share can make the share of the MLFQ negative.
Stride(s) ==
    IF s > 0 THEN MULTSTRIDESHARE \div s ELSE -(MULTSTRIDESHARE \div (-s))

\* One round of the loop of scheduler(): pick an entity by pass, charge it,
\* and run its process.  The charge is paid even if nobody is ready.
Dispatch ==
    /\ ~broken
    /\ cur = Nobody
    /\ LET e == stable[MinIndex]
           p == IF MinIndex = 1 THEN MlfqChoice ELSE e
       IN  IF share[e] = 0 \/ p = Mlfq
             THEN /\ broken' = TRUE
                  /\ UNCHANGED <<pass, min_pass, state, cur>>
             ELSE LET ps == [pass EXCEPT ![e] = @ + Stride(share[e])]
                      b  == Base(ps, ps[e])
                  IN  /\ pass' = [x \in Entities |->
                                    IF x \in Range(stable) THEN ps[x] - b ELSE 0]
                      /\ min_pass' = ps[e] - b
                      /\ \A x \in Entities : pass'[x] <= MaxPass
                      /\ IF state[p] = "RUNNABLE"
                           THEN state' = [state EXCEPT ![p] = "RUNNING"] /\ cur' = p
                           ELSE UNCHANGED <<state, cur>>
                      /\ UNCHANGED broken
    /\ UNCHANGED <<lev, allot, share, from_trap, queue, stable, ticks, call>>

-----------------------------------------------------------------------------
(* yield()                                                                 *)

\* p->time_allotment--
Charged(l, a) ==
    IF l = LastLevel THEN (a + time_quantom[l] - 1) % time_quantom[l] ELSE a - 1

\* The dequeue loop of yield: it has no break, and after a removal it steps
\* over the entry that moved into the gap.  Of a run of equal entries it
\* removes every other one.
RunLength(q, p, k) ==
    Cardinality({j \in 1..k : \A i \in j..k : q[i] = p})

DequeueAll(q, p) ==
    LET keep == {k \in DOMAIN q : RunLength(q, p, k) % 2 = 0}
    IN  [n \in 1..Cardinality(keep) |->
            q[CHOOSE k \in keep : Cardinality({j \in keep : j <= k}) = n]]

\* Mutant of Demotes: the test misses an allotment that has just run out.
DemotesLate(a, l) == a < 0 /\ l # LastLevel

\* yield() demotes a process that has used its allotment up.
Demotes(a, l) == a = 0 /\ l # LastLevel

\* Mutant of Requeue: a process that changes its level is taken off only.
RequeueLosesProcess(p, from, to) ==
    LET out == [queue EXCEPT ![from] = DequeueAll(@, p)]
    IN  IF Len(out[to]) < NPROC
          THEN /\ queue' = IF from = to THEN [out EXCEPT ![to] = Append(@, p)] ELSE out
               /\ UNCHANGED broken
          ELSE broken' = TRUE /\ UNCHANGED queue

\* Take p off queue from and put it at the end of queue to.
Requeue(p, from, to) ==
    LET out == [queue EXCEPT ![from] = DequeueAll(@, p)]
    IN  IF Len(out[to]) < NPROC
          THEN queue' = [out EXCEPT ![to] = Append(@, p)] /\ UNCHANGED broken
          ELSE broken' = TRUE /\ UNCHANGED queue

\* yield() of the running process p, given the levels and allotments that
\* the caller has left: charge a voluntary yield, demote if need be, and move
\* to the end of the queue.
Yield(p, lv, al, trapped) ==
    /\ IF share[p] = 0
         THEN LET a   == IF trapped THEN al[p] ELSE Charged(lv[p], al[p])
                  now == IF Demotes(a, lv[p]) THEN lv[p] + 1 ELSE lv[p]
              IN  /\ lev' = [lv EXCEPT ![p] = now]
                  /\ allot' = [al EXCEPT ![p] = IF now # lv[p] THEN time_allotment[now]
                                                              ELSE a]
                  /\ Requeue(p, lv[p], now)
         ELSE /\ lev' = lv
              /\ allot' = [al EXCEPT ![p] = time_allotment[lv[p]]]
              /\ UNCHANGED <<queue, broken>>
    /\ state' = [state EXCEPT ![p] = "RUNNABLE"]
    /\ cur' = Nobody

\* sys_yield: mark the yield as voluntary ...
SysYield(p) ==
    /\ ~broken
    /\ CanYield
    /\ cur = p
    /\ call[p] = InUser
    /\ from_trap' = [from_trap EXCEPT ![p] = FALSE]
    /\ call' = [call EXCEPT ![p] = <<"yield", 0>>]
    /\ UNCHANGED <<state, lev, allot, strideVars, queue, ticks, cur, broken>>

\* ... and yield, unless the timer has come first.
YieldCall(p) ==
    /\ ~broken
    /\ cur = p
    /\ call[p][1] = "yield"
    /\ Yield(p, lev, allot, from_trap[p])
    /\ call' = [call EXCEPT ![p] = InUser]
    /\ UNCHANGED <<strideVars, from_trap, ticks>>

-----------------------------------------------------------------------------
(* The timer interrupt in trap(), and boost().                             *)

\* boost() resets every slot of ptable, used or not, and moves nobody.
BoostLevels(lv) == [p \in Slots |-> 0]
BoostAllots(al) == [p \in Slots |-> time_allotment[0]]

TimerTick(p) ==
    /\ ~broken
    /\ cur = p
    /\ ticks' = IF share[p] = 0 THEN (ticks + 1) % PERIOD_BOOSTING ELSE ticks
    /\ LET lv == IF ticks' = 0 THEN BoostLevels(lev) ELSE lev
           al == IF ticks' = 0 THEN BoostAllots(allot) ELSE allot
           a  == [al EXCEPT ![p] = Charged(lv[p], @)]
       IN  IF a[p] % time_quantom[lv[p]] # 0
             THEN /\ lev' = lv
                  /\ allot' = a
                  /\ UNCHANGED <<state, from_trap, queue, cur, broken>>
             ELSE /\ from_trap' = [from_trap EXCEPT ![p] = TRUE]
                  /\ Yield(p, lv, a, TRUE)
    /\ UNCHANGED <<strideVars, call>>

-----------------------------------------------------------------------------
(* set_cpu_share()                                                         *)

\* The test is made before ptable.lock is taken.  init (slot 1) never calls it.
SetCpuShareCheck(p, s) ==
    /\ ~broken
    /\ cur = p
    /\ p # 1
    /\ call[p] = InUser
    /\ share[p] = 0 \/ CanRepeat
    /\ share[Mlfq] - s >= MinMlfqShare
    /\ call' = [call EXCEPT ![p] = <<"share", s>>]
    /\ UNCHANGED <<state, lev, allot, strideVars, from_trap, queue, ticks, cur, broken>>

\* Enter the stride table at the pass charged last, and leave the queue of
\* the present level.
SetCpuShareApply(p) ==
    /\ ~broken
    /\ cur = p
    /\ call[p][1] = "share"
    /\ IF Len(stable) = NPROC \/ lev[p] = STRIDE_LEV
         THEN /\ broken' = TRUE
              /\ UNCHANGED <<stable, share, pass, queue, lev, allot>>
         ELSE /\ stable' = Append(stable, p)
              /\ share' = [share EXCEPT ![Mlfq] = @ - call[p][2], ![p] = call[p][2]]
              /\ pass' = [pass EXCEPT ![p] = min_pass]
              /\ queue' = [queue EXCEPT ![lev[p]] = RemoveFirst(@, p)]
              /\ lev' = [lev EXCEPT ![p] = STRIDE_LEV]
              /\ allot' = [allot EXCEPT ![p] = time_allotment[STRIDE_LEV]]
              /\ UNCHANGED broken
    /\ call' = [call EXCEPT ![p] = InUser]
    /\ UNCHANGED <<state, min_pass, from_trap, ticks, cur>>

-----------------------------------------------------------------------------
(* The rest of a process's life, as far as the scheduler's tables see it.  *)

\* The first locked section of allocproc: the first UNUSED slot becomes EMBRYO.
AllocProc(p) ==
    /\ ~broken
    /\ CanFork
    /\ cur = p
    /\ call[p] = InUser
    /\ \E np \in Slots :
         /\ state[np] = "UNUSED"
         /\ \A q \in Slots : state[q] = "UNUSED" => np <= q
         /\ state' = [state EXCEPT ![np] = "EMBRYO"]
         /\ call' = [call EXCEPT ![p] = <<"alloc", np>>, ![np] = InUser]
    /\ UNCHANGED <<lev, allot, strideVars, from_trap, queue, ticks, cur, broken>>

\* The rest of allocproc: reset the slot and put it at the end of queue 0,
\* before fork knows that it will succeed.
AllocEnqueue(p) ==
    /\ ~broken
    /\ cur = p
    /\ call[p][1] = "alloc"
    /\ LET np == call[p][2]
       IN  /\ lev' = [lev EXCEPT ![np] = 0]
           /\ allot' = [allot EXCEPT ![np] = time_allotment[0]]
           /\ share' = [share EXCEPT ![np] = 0]
           /\ pass' = [pass EXCEPT ![np] = 0]
           /\ IF Len(queue[0]) < NPROC
                THEN queue' = [queue EXCEPT ![0] = Append(@, np)] /\ UNCHANGED broken
                ELSE broken' = TRUE /\ UNCHANGED queue
           /\ call' = [call EXCEPT ![p] = <<"fork", np>>]
    /\ UNCHANGED <<state, min_pass, from_trap, stable, ticks, cur>>

\* allocproc without memory for the kernel stack: the slot is given back, and
\* has not been queued.
AllocFail(p) ==
    /\ ~broken
    /\ CanFail
    /\ cur = p
    /\ call[p][1] = "alloc"
    /\ state' = [state EXCEPT ![call[p][2]] = "UNUSED"]
    /\ call' = [call EXCEPT ![p] = InUser]
    /\ UNCHANGED <<lev, allot, strideVars, from_trap, queue, ticks, cur, broken>>

\* The rest of fork: the child becomes RUNNABLE, or copyuvm has failed and
\* the slot is given back.
ForkReturn(p) ==
    /\ ~broken
    /\ cur = p
    /\ call[p][1] = "fork"
    /\ \E st \in {"RUNNABLE"} \cup (IF CanFail THEN {"UNUSED"} ELSE {}) :
         state' = [state EXCEPT ![call[p][2]] = st]
    /\ call' = [call EXCEPT ![p] = InUser]
    /\ UNCHANGED <<lev, allot, strideVars, from_trap, queue, ticks, cur, broken>>

\* sleep: the process gives the processor up and stays where it is queued.
Sleep(p) ==
    /\ ~broken
    /\ cur = p
    /\ p \in Sleepers
    /\ call[p] = InUser
    /\ state' = [state EXCEPT ![p] = "SLEEPING"]
    /\ cur' = Nobody
    /\ UNCHANGED <<lev, allot, strideVars, from_trap, queue, ticks, call, broken>>

\* wakeup1 or kill, from another process or from an interrupt handler.
Wakeup(p) ==
    /\ ~broken
    /\ state[p] = "SLEEPING"
    /\ state' = [state EXCEPT ![p] = "RUNNABLE"]
    /\ UNCHANGED <<lev, allot, strideVars, from_trap, queue, ticks, cur, call, broken>>

\* Mutant of LeaveStride: the share is not given back.
LeaveStrideKeepsShare(p) ==
    /\ stable' = RemoveFirst(stable, p)
    /\ UNCHANGED share

\* Mutant of LeaveStride: the entry stays in the stride table.
LeaveStrideStays(p) ==
    /\ share' = [share EXCEPT ![Mlfq] = @ + share[p]]
    /\ UNCHANGED stable

\* A stride process exits: leave the stride table and give the share back.
LeaveStride(p) ==
    /\ stable' = RemoveFirst(stable, p)
    /\ share' = [share EXCEPT ![Mlfq] = @ + share[p]]

\* exit: leave the queue of the present level, or the stride table.  init
\* never exits.
Exit(p) ==
    /\ ~broken
    /\ CanExit
    /\ cur = p
    /\ p # 1
    /\ call[p] = InUser
    /\ IF share[p] = 0
         THEN /\ queue' = [queue EXCEPT ![lev[p]] = RemoveFirst(@, p)]
              /\ UNCHANGED <<stable, share>>
         ELSE LeaveStride(p) /\ UNCHANGED queue
    /\ state' = [state EXCEPT ![p] = "ZOMBIE"]
    /\ cur' = Nobody
    /\ UNCHANGED <<lev, allot, pass, min_pass, from_trap, ticks, call, broken>>

\* wait, in the parent of the zombie z; the model does not keep parents, so
\* any process may be it.
Wait(p, z) ==
    /\ ~broken
    /\ cur = p
    /\ call[p] = InUser
    /\ state[z] = "ZOMBIE"
    /\ state' = [state EXCEPT ![z] = "UNUSED"]
    /\ UNCHANGED <<lev, allot, strideVars, from_trap, queue, ticks, cur, call, broken>>

-----------------------------------------------------------------------------

SysCall(p) ==
    \/ SysYield(p)
    \/ YieldCall(p)
    \/ \E s \in Shares : SetCpuShareCheck(p, s)
    \/ SetCpuShareApply(p)
    \/ AllocProc(p)
    \/ AllocEnqueue(p)
    \/ AllocFail(p)
    \/ ForkReturn(p)
    \/ Sleep(p)
    \/ Exit(p)
    \/ \E z \in Slots : Wait(p, z)

Next ==
    \/ Dispatch
    \/ \E p \in Slots : TimerTick(p) \/ SysCall(p) \/ Wakeup(p)

Spec == Init /\ [][Next]_vars

\* The scheduler loop never stops and the timer interrupts whoever runs.
Fairness ==
    /\ WF_vars(Dispatch)
    /\ \A p \in Slots : WF_vars(TimerTick(p)) /\ WF_vars(Wakeup(p))

FairSpec == Spec /\ Fairness

-----------------------------------------------------------------------------
(* Properties.                                                             *)

States == {"UNUSED", "EMBRYO", "SLEEPING", "RUNNABLE", "RUNNING", "ZOMBIE"}

\* The types of the tables; no queue and no stride table outgrows its array.
TypeOK ==
    /\ state \in [Slots -> States]
    /\ lev \in [Slots -> Levels \cup {STRIDE_LEV}]
    /\ allot \in [Slots -> Nat]
    /\ share \in [Entities -> Int]
    /\ pass \in [Entities -> Nat]
    /\ min_pass \in Nat
    /\ from_trap \in [Slots -> BOOLEAN]
    /\ queue \in [Levels -> Seq(Slots)]
    /\ \A l \in Levels : Len(queue[l]) <= NPROC
    /\ stable \in Seq(Entities)
    /\ Len(stable) <= NPROC
    /\ ticks \in 0..(PERIOD_BOOSTING - 1)
    /\ cur \in Entities
    /\ broken \in BOOLEAN
    /\ \A p \in Slots : state[p] = "RUNNING" <=> cur = p

\* scheduler() can always find a process: one that is not in the stride table
\* is in some queue, whatever boost(), failed forks and recycled slots have
\* left behind in the queues.
NoLostProcess ==
    \A p \in Slots : Live(p) /\ share[p] = 0 =>
        \E l \in Levels : p \in Range(queue[l])

\* yield() demotes on time_allotment == 0: an MLFQ process above the last
\* level never gets past 0 by a timer tick, a voluntary yield or a boost.
AllotmentLeft ==
    \A p \in Slots : Live(p) /\ share[p] = 0 /\ lev[p] # LastLevel =>
        allot[p] \in 1..time_allotment[lev[p]]

\* The points of share that live processes hold, each with its holder.
SharePoints ==
    {x \in Slots \X (1..TotalShare) : Live(x[1]) /\ x[2] <= share[x[1]]}

\* What set_cpu_share takes from the MLFQ exit gives back: the shares of the
\* live stride processes and of the MLFQ always make up 100.
SharesConserved == share[Mlfq] + Cardinality(SharePoints) = TotalShare

\* The stride table holds the MLFQ first, then every live process that has a
\* share exactly once, and no dead one: a recycled slot never inherits the
\* place of its predecessor.
StrideTable ==
    /\ stable[1] = Mlfq
    /\ IsInjective(stable)
    /\ Range(stable) \ {Mlfq} = {p \in Slots : Live(p) /\ share[p] # 0}

\* Proportional share: while stride processes do not block, no entity is
\* ahead of another by more than one stride of the smallest share in play,
\* so none can lock another out after joining, leaving or being charged for
\* an idle round.
PassSpread ==
    \A i, j \in DOMAIN stable :
        pass[stable[i]] - pass[stable[j]]
            <= MULTSTRIDESHARE \div Min(Shares \cup {MinMlfqShare})

\* Nobody is locked out of the stride table: a stride process that is ready
\* runs, and so does some MLFQ process when one is ready, whatever joins,
\* exits and boosts happen meanwhile.
EntityTurn ==
    /\ \A p \in Slots :
         state[p] = "RUNNABLE" /\ share[p] # 0 ~> state[p] = "RUNNING" \/ share[p] = 0
    /\ (\E p \in Slots : state[p] = "RUNNABLE" /\ share[p] = 0)
         ~> (\E p \in Slots : state[p] = "RUNNING" /\ share[p] = 0)

\* set_cpu_share refuses a share that would leave less than 20 to the MLFQ.
MlfqKeepsShare == share[Mlfq] >= MinMlfqShare

\* param.h says of NPROC "maximum number of processes": the tables hold the
\* processes of a full ptable.
HoldsNPROC == ~broken

=============================================================================

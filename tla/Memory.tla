------------------------------- MODULE Memory -------------------------------
(***************************************************************************)
(* Physical pages of project3/xv6-public: the page allocator (kalloc.c),    *)
(* and the page tables (vm.c) that fork, exec, sbrk, exit and wait build    *)
(* and discard, under processes that compete for the last pages (Process).  *)
(* A section under kmem.lock that takes a page is one action; pages are     *)
(* given back in one step.  Pages are interchangeable: the model counts them *)
(* and keeps, for each pointer that leads to one, whether it is set.        *)
(***************************************************************************)
EXTENDS Process

CONSTANTS
    NPAGES,       \* the pages that kinit1 and kinit2 put on the free list
    PGSIZE,       \* the bytes in a page
    SPAN,         \* NPTENTRIES: the pages that one page table maps
    KTABS,        \* the page tables of the kernel part, made by setupkvm
    MAXPAGES,     \* KERNBASE / PGSIZE: the largest address space
    Sizes,        \* the sizes that sbrk is asked for
    ExecSizes     \* the sizes of programs, their stacks included

ASSUME MemoryAssumption ==
    /\ {NPAGES, PGSIZE, SPAN, MAXPAGES} \subseteq Nat \ {0} /\ KTABS \in Nat
    /\ NPAGES >= KTABS + 4         \* userinit panics without
    /\ Sizes \subseteq 1..MAXPAGES * PGSIZE
    /\ ExecSizes \subseteq 1..MAXPAGES * PGSIZE

Index == 0..MAXPAGES - 1
TableOf(i) == i \div SPAN

VARIABLES
    nfree,        \* the length of kmem.nfree
    kstack,       \* the slots that have a kernel stack
    space,        \* p->pgdir with what it leads to, and p->sz
    build,        \* the page table that fork or exec is making
    mem,          \* the processes with a page that is to be mapped next
    goal          \* the size that the call under way is to reach

memVars == <<nfree, kstack, space, build, mem, goal>>

\* A page table: whether there is a directory, the tables of the kernel part,
\* the tables and the pages of the user part, and the size.
NoSpace == [dir |-> FALSE, kern |-> 0, tabs |-> {}, user |-> {}, sz |-> 0]

One(b) == IF b THEN 1 ELSE 0

\* The pointers that freevm follows, and the pages that it gives back.
Pointers(sp) ==
    (IF sp.dir THEN {<<"dir", 0>>} ELSE {}) \cup {"kern"} \X (1..sp.kern)
    \cup {"tab"} \X sp.tabs \cup {"user"} \X sp.user
PagesOf(sp) == Cardinality(Pointers(sp))

\* userinit: a kernel stack, a page table and one page of memory.
InitSpace ==
    [dir |-> TRUE, kern |-> KTABS, tabs |-> {0}, user |-> {0}, sz |-> PGSIZE]
MemInit ==
    /\ kstack = {initproc}
    /\ space = [p \in Procs |-> IF p = initproc THEN InitSpace ELSE NoSpace]
    /\ nfree = NPAGES - PagesOf(InitSpace) - 1
    /\ build = [p \in Procs |-> NoSpace]
    /\ mem = {}
    /\ goal = [p \in Procs |-> 0]

\* PGROUNDUP, in pages.
PgRoundUp(n) == (n + PGSIZE - 1) \div PGSIZE

-----------------------------------------------------------------------------
(* The calls begin.                                                        *)

\* fork: allocproc has a slot; copyuvm will copy all of the parent.
ForkBegin(p) ==
    /\ ForkAlloc(p)
    /\ goal' = [goal EXCEPT ![p] = space[p].sz]
    /\ UNCHANGED <<nfree, kstack, space, build, mem>>

Enter(p, call, n) ==
    /\ InUser(p)
    /\ pc' = [pc EXCEPT ![p] = call]
    /\ goal' = [goal EXCEPT ![p] = n]
    /\ UNCHANGED <<state, parent, pid, killed, chan, np>>
    /\ UNCHANGED <<nfree, kstack, space, build, mem>>

ExecCall(p) == \E n \in ExecSizes : Enter(p, "exec", n)

\* growproc(n), n > 0
SbrkGrow(p) == \E n \in Sizes : n > space[p].sz /\ Enter(p, "sbrk", n)

\* Without the pages of sp from page i on (deallocuvm).
Cut(sp, i) == [sp EXCEPT !.user = {j \in @ : j < i}]

\* growproc(n), n < 0
SbrkShrink(p) ==
    /\ InUser(p)
    /\ \E n \in Sizes :
          LET less == Cut(space[p], PgRoundUp(n))
          IN  /\ n < space[p].sz
              /\ space' = [space EXCEPT ![p] = [less EXCEPT !.sz = n]]
              /\ nfree' = nfree + PagesOf(space[p]) - PagesOf(less)
    /\ UNCHANGED <<procVars, kstack, build, mem, goal>>

-----------------------------------------------------------------------------
(* Page by page.                                                           *)

Building(p) == \E call \in {"fork", "exec", "sbrk"} : Running(p, call)

\* The page table that p is working on.
Site(p) == IF pc[p] = "sbrk" THEN space[p] ELSE build[p]

\* allocuvm begins with the first page that the old size does not reach, and
\* copyuvm and exec with page 0.
Missing(p) == (0..PgRoundUp(goal[p]) - 1) \ Site(p).user

\* What the next page is needed for.
Wanted(p) ==
    IF pc[p] = "fork" /\ np[p] \notin kstack THEN "kstack"
    ELSE IF ~Site(p).dir THEN "dir"
    ELSE IF Site(p).kern < KTABS THEN "kern"
    ELSE IF Missing(p) = {} THEN "nothing"
    ELSE IF p \notin mem THEN "mem" ELSE "table"

\* walkpgdir finds the page table for the page that is next.
TableThere(p) == TableOf(Lowest(Missing(p))) \in Site(p).tabs

\* The page table of p with the page that was wanted.  A page of memory is
\* mapped at once if its table is there, else together with the table.
Extended(p) ==
    LET i == Lowest(Missing(p))
        sp == Site(p)
    IN  CASE Wanted(p) = "dir" -> [sp EXCEPT !.dir = TRUE]
          [] Wanted(p) = "kern" -> [sp EXCEPT !.kern = @ + 1]
          [] Wanted(p) = "mem" /\ TableThere(p) -> [sp EXCEPT !.user = @ \cup {i}]
          [] Wanted(p) = "table" -> [sp EXCEPT !.tabs = @ \cup {TableOf(i)},
                                               !.user = @ \cup {i}]
          [] OTHER -> sp

\* kalloc, for the call that p is in.
Kalloc(p) ==
    /\ Building(p)
    /\ Wanted(p) # "nothing"
    /\ nfree > 0
    /\ nfree' = nfree - 1
    /\ kstack' = IF Wanted(p) = "kstack" THEN kstack \cup {np[p]} ELSE kstack
    /\ mem' = IF Wanted(p) = "mem" /\ ~TableThere(p) THEN mem \cup {p} ELSE mem \ {p}
    /\ IF pc[p] = "sbrk"
       THEN space' = [space EXCEPT ![p] = Extended(p)] /\ UNCHANGED build
       ELSE build' = [build EXCEPT ![p] = Extended(p)] /\ UNCHANGED space
    /\ UNCHANGED <<procVars, goal>>

-----------------------------------------------------------------------------
(* The calls end.                                                          *)

Back(p) ==
    /\ pc' = [pc EXCEPT ![p] = "user"]
    /\ UNCHANGED <<state, parent, pid, killed, chan, np>>

Forget(p) ==
    /\ build' = [build EXCEPT ![p] = NoSpace]
    /\ mem' = mem \ {p}
    /\ goal' = [goal EXCEPT ![p] = 0]

\* Mutant of InHand: the page that could not be mapped is lost.
InHandLost(p) == 0

\* "kfree(mem)" where mappages fails.
InHand(p) == One(p \in mem)

\* No page is left: fork gives back the child's page table and stack.
ForkNoMemory(p) ==
    /\ ForkFail(p)
    /\ Wanted(p) # "nothing" /\ nfree = 0
    /\ nfree' = PagesOf(build[p]) + InHand(p) + One(np[p] \in kstack)
    /\ kstack' = kstack \ {np[p]}
    /\ Forget(p)
    /\ UNCHANGED space

\* exec: bad.  No page is left, the file turns out not to be a program, or the
\* arguments do not fit.
ExecBad(p) ==
    /\ Running(p, "exec")
    /\ nfree = 0 \/ p \notin mem
    /\ Back(p)
    /\ nfree' = nfree + PagesOf(build[p]) + InHand(p)
    /\ Forget(p)
    /\ UNCHANGED <<kstack, space>>

\* allocuvm gives back what it has added, not the page tables.
SbrkNoMemory(p) ==
    /\ Running(p, "sbrk")
    /\ Wanted(p) # "nothing" /\ nfree = 0
    /\ Back(p)
    /\ LET old == Cut(space[p], PgRoundUp(space[p].sz))
       IN  /\ space' = [space EXCEPT ![p] = old]
           /\ nfree' = PagesOf(space[p]) - PagesOf(old) + InHand(p)
    /\ Forget(p)
    /\ UNCHANGED kstack

ForkDone(p) ==
    /\ ForkReturn(p)
    /\ Wanted(p) = "nothing"
    /\ space' = [space EXCEPT ![np[p]] = [build[p] EXCEPT !.sz = goal[p]]]
    /\ Forget(p)
    /\ UNCHANGED <<nfree, kstack>>

\* Commit to the user image, and freevm(oldpgdir).
ExecDone(p) ==
    /\ Running(p, "exec")
    /\ Wanted(p) = "nothing"
    /\ Back(p)
    /\ space' = [space EXCEPT ![p] = [build[p] EXCEPT !.sz = goal[p]]]
    /\ nfree' = nfree + PagesOf(space[p])
    /\ Forget(p)
    /\ UNCHANGED kstack

SbrkDone(p) ==
    /\ Running(p, "sbrk")
    /\ Wanted(p) = "nothing"
    /\ Back(p)
    /\ space' = [space EXCEPT ![p].sz = goal[p]]
    /\ Forget(p)
    /\ UNCHANGED <<nfree, kstack>>

\* wait: kfree(p->kstack), freevm(p->pgdir).
Reap(z) ==
    /\ nfree' = nfree + PagesOf(space[z]) + 1
    /\ kstack' = kstack \ {z}
    /\ space' = [space EXCEPT ![z] = NoSpace]

MemWait(p) ==
    /\ Wait(p)
    /\ IF Zombies(p) # {} THEN Reap(Lowest(Zombies(p)))
       ELSE UNCHANGED <<nfree, kstack, space>>
    /\ UNCHANGED <<build, mem, goal>>

-----------------------------------------------------------------------------
\* What a process does inside a call.
MemStep(p) ==
    \/ Kalloc(p)
    \/ ForkNoMemory(p) \/ ForkDone(p)
    \/ ExecBad(p) \/ ExecDone(p)
    \/ SbrkNoMemory(p) \/ SbrkDone(p)
    \/ (ExitZombie(p) /\ UNCHANGED memVars)
    \/ (Running(p, "wait") /\ MemWait(p))

MemNext ==
    \E p \in Procs :
        \/ MemStep(p) \/ MemWait(p) \/ ForkBegin(p)
        \/ ExecCall(p) \/ SbrkGrow(p) \/ SbrkShrink(p)
        \/ (ExitCall(p) /\ UNCHANGED memVars)

MemSpec == ProcInit /\ MemInit /\ [][MemNext]_<<procVars, memVars>>

-----------------------------------------------------------------------------
(* Properties.                                                             *)

InUse == {p \in Procs : state[p] \in Live \cup {"ZOMBIE"}}

\* Types; a process has a stack and a page table as long as it exists
\* (switchuvm panics without), and an unused slot has neither.
MemTypeOK ==
    /\ nfree \in 0..NPAGES
    /\ \A p \in Procs :
          /\ p \in InUse => p \in kstack /\ space[p].dir
          /\ state[p] = "UNUSED" => p \notin kstack /\ space[p] = NoSpace

\* The pages that page tables lead to, each in its place.
Held(tables) == UNION {{p} \X Pointers(tables[p]) : p \in Procs}

\* Every page is on the free list or in one place: whichever call fails for
\* want of memory, at whichever page, and whoever else takes the last pages
\* meanwhile, nothing is lost and nothing is given back twice.
PagesConserved ==
    NPAGES = nfree + Cardinality(kstack) + Cardinality(mem)
             + Cardinality(Held(space)) + Cardinality(Held(build))

\* The memory of a process is what its size says: below it every page is
\* there (copyuvm panics otherwise), and above it none is, which argptr and
\* the next growth rely on.  A growth under way is the exception above.
SizeMapped ==
    \A p \in InUse : \A i \in Index :
        /\ i * PGSIZE < space[p].sz => i \in space[p].user
        /\ i * PGSIZE >= space[p].sz /\ pc[p] # "sbrk" => i \notin space[p].user
=============================================================================

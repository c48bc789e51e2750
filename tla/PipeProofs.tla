----------------------------- MODULE PipeProofs -----------------------------
(***************************************************************************)
(* Proofs about processes (Process) and about the pipes that they use       *)
(* (Pipe), for any number of processes, any PIPESIZE and any width of the   *)
(* counters.  Process is a component without a specification of its own:    *)
(* the lemmas of the first half say that one of its actions keeps ProcInv,  *)
(* and the second half applies them to a complete specification.            *)
(***************************************************************************)
EXTENDS Pipe, TLAPS, WellFoundedInduction, FiniteSetTheorems, SequenceTheorems

-----------------------------------------------------------------------------
(* The invariant.                                                          *)

\* Where a process is: in user mode, or inside one of the calls of Process,
\* Pipe, Console and Memory.
Places == {"user", "fork", "exit", "wait", "write", "read", "consoleread",
           "exec", "sbrk"}

\* The three parts of ProcTypeOK: types, with those it leaves open; a channel
\* is that of a sleeper; the slot of a fork() is nobody else's.
ProcTypes ==
    /\ state \in [Procs -> States]
    /\ parent \in [Procs -> Procs \cup {0}]
    /\ pid \in [Procs -> {0, 1}]
    /\ killed \in [Procs -> BOOLEAN]
    /\ chan \in [Procs -> Int]
    /\ pc \in [Procs -> Places]
    /\ np \in [Procs -> Procs \cup {0}]

ChanInv == \A p \in Procs : (chan[p] = NoChan) <=> (state[p] # "SLEEPING")

SlotInv ==
    \A p \in Procs : np[p] # 0 =>
        state[np[p]] = "EMBRYO" /\ \A q \in Procs \ {p} : np[q] # np[p]

\* A process has a slot for a child exactly as long as it is inside fork(),
\* where it does not sleep.
ForkInv ==
    \A p \in Procs : /\ (np[p] # 0) <=> (pc[p] = "fork")
                     /\ pc[p] = "fork" => state[p] = "RUNNABLE"

\* init never exits and has no parent; nobody is its own parent; a slot that
\* no process uses has none.
FamilyInv ==
    /\ state[initproc] \in Live
    /\ pc[initproc] # "exit"
    /\ parent[initproc] = 0
    /\ \A p \in Procs : /\ parent[p] # p
                        /\ state[p] \in {"UNUSED", "EMBRYO"} => parent[p] = 0

ProcInv ==
    /\ ProcTypes /\ ChanInv /\ SlotInv
    /\ ForkInv /\ FamilyInv /\ ParentAlive /\ NoLostExit

-----------------------------------------------------------------------------
(* The operators of Process.                                               *)

\* A set of natural numbers that is not empty has a least element.
LEMMA LeastNat ==
    ASSUME NEW T, T \subseteq Nat, T # {}
    PROVE  \E x \in T : \A y \in T : x <= y
<1>1. IsWellFoundedOn(OpToRel(<,Nat), Nat)
  BY NatLessThanWellFounded
<1>2. \E x \in T : \A y \in T : ~ (<<y, x>> \in OpToRel(<,Nat))
  BY <1>1, WFMin, Zenon
<1>3. PICK x \in T : \A y \in T : ~ (<<y, x>> \in OpToRel(<,Nat))
  BY <1>2
<1>4. \A y \in T : ~(y < x)
  BY <1>3 DEF OpToRel
<1>5. x \in Nat /\ \A y \in T : y \in Nat
  BY <1>3
<1>6. \A y \in T : x <= y
  BY <1>4, <1>5, SMT
<1> QED
  BY <1>3, <1>6, Zenon

\* The first slot with a property, as the loops over ptable find it, has it.
LEMMA LowestIn ==
    ASSUME NEW T, T \subseteq Procs, T # {}
    PROVE  Lowest(T) \in T
<1>1. T \subseteq Nat
  BY DEF Procs
<1> QED
  BY <1>1, LeastNat DEF Lowest

\* init's slot is one of the table.
LEMMA InitProcIsProc == initproc \in Procs /\ Procs \subseteq Nat \ {0}
  BY ProcessAssumption DEF initproc, Procs

\* userinit establishes the invariant.
LEMMA ProcInitInv == ProcInit => ProcInv
<1> SUFFICES ASSUME ProcInit PROVE ProcInv
  OBVIOUS
<1> USE InitProcIsProc
<1>1. \A p \in Procs : /\ state[p] = IF p = initproc THEN "RUNNABLE" ELSE "UNUSED"
                       /\ parent[p] = 0 /\ chan[p] = 0 /\ np[p] = 0
                       /\ pc[p] = "user" /\ ~killed[p]
  BY DEF ProcInit, NoChan
<1>2. ProcTypes /\ ChanInv /\ SlotInv
  BY <1>1 DEF ProcInit, ProcTypes, ChanInv, SlotInv, States, NoChan, Places
<1>3. ForkInv /\ FamilyInv
  BY <1>1 DEF ForkInv, FamilyInv, Live
<1>4. ParentAlive /\ NoLostExit
  BY <1>1 DEF ParentAlive, NoLostExit, Live
<1> QED
  BY <1>2, <1>3, <1>4 DEF ProcInv

-----------------------------------------------------------------------------
(* The actions.                                                            *)

\* A call of p that neither forks, exits nor waits may move p, wake sleepers
\* and put p to sleep on a channel that is no proc structure.  It leaves the
\* family alone.
CallOf(p) ==
    /\ UNCHANGED <<parent, pid, killed, np>>
    /\ state' \in [Procs -> States] /\ chan' \in [Procs -> Int]
    /\ pc' \in [Procs -> Places]
    /\ \A q \in Procs \ {p} : pc'[q] = pc[q]
    /\ pc'[p] # pc[p] => /\ pc[p] # "fork" /\ pc'[p] # "fork"
                         /\ pc'[p] = "exit" => p # initproc
    /\ \A q \in Procs :
          \/ state'[q] = state[q] /\ chan'[q] = chan[q]
          \/ state[q] = "SLEEPING" /\ state'[q] = "RUNNABLE" /\ chan'[q] = NoChan
          \/ /\ q = p /\ state[q] = "RUNNABLE" /\ pc[q] # "fork"
             /\ state'[q] = "SLEEPING"
             /\ chan'[q] \notin Procs \cup {NoChan}

\* A call like that keeps the process table in order.
LEMMA CallKeeps ==
    ASSUME NEW p \in Procs, ProcInv, CallOf(p)
    PROVE  ProcInv'
<1> USE InitProcIsProc
<1>1. /\ \A q \in Procs : state'[q] \in Live <=> state[q] \in Live
      /\ \A q \in Procs : state'[q] # state[q] => state[q] \in Live
      /\ \A q \in Procs : /\ state'[q] = "UNUSED" <=> state[q] = "UNUSED"
                          /\ state'[q] = "EMBRYO" <=> state[q] = "EMBRYO"
                          /\ state'[q] = "ZOMBIE" <=> state[q] = "ZOMBIE"
  BY DEF CallOf, Live
<1>2. ProcTypes' /\ ChanInv' /\ SlotInv'
  <2>1. ProcTypes'
    BY DEF CallOf, ProcInv, ProcTypes
  <2>2. ChanInv'
    BY DEF CallOf, ProcInv, ChanInv, NoChan
  <2>3. SlotInv'
    <3>1. np' = np
      BY DEF CallOf
    <3> QED
      BY <1>1, <3>1, ZenonT(30) DEF ProcInv, ProcTypes, SlotInv
  <2> QED
    BY <2>1, <2>2, <2>3
<1>3. ForkInv'
  BY DEF CallOf, ProcInv, ForkInv
<1>4. FamilyInv'
  BY <1>1 DEF CallOf, ProcInv, FamilyInv
<1>5. ParentAlive'
  BY <1>1 DEF CallOf, ProcInv, ParentAlive
<1>6. NoLostExit'
  <2>1. \A q \in Procs : Children(q)' = Children(q) /\ Zombies(q)' = Zombies(q)
    BY <1>1 DEF CallOf, Children, Zombies
  <2>2. \A q \in Procs : state'[q] = "SLEEPING" /\ chan'[q] = q =>
            state[q] = "SLEEPING" /\ chan[q] = q
    BY DEF CallOf
  <2> QED
    BY <2>1, <2>2 DEF CallOf, ProcInv, NoLostExit
<1> QED
  BY <1>2, <1>3, <1>4, <1>5, <1>6 DEF ProcInv

\* allocproc: the slot becomes an EMBRYO that only this fork() knows of.
LEMMA ForkAllocKeeps ==
    ASSUME NEW p \in Procs, ProcInv, ForkAlloc(p)
    PROVE  ProcInv'
<1> USE InitProcIsProc
<1> DEFINE c == Lowest(Free)
<1>1. c \in Procs /\ state[c] = "UNUSED"
  BY LowestIn DEF ForkAlloc, Free
<1>2. /\ state' = [state EXCEPT ![c] = "EMBRYO"]
      /\ pid' = [pid EXCEPT ![c] = 1]
      /\ np' = [np EXCEPT ![p] = c]
      /\ pc' = [pc EXCEPT ![p] = "fork"]
      /\ UNCHANGED <<parent, killed, chan>>
      /\ state[p] = "RUNNABLE" /\ pc[p] = "user"
  BY DEF ForkAlloc, InUser, Running
<1> HIDE DEF c
<1>3. ProcTypes' /\ ChanInv' /\ SlotInv'
  BY <1>1, <1>2 DEF ProcInv, ProcTypes, ChanInv, SlotInv, ForkInv, States, Places
<1>4. ForkInv' /\ FamilyInv'
  BY <1>1, <1>2 DEF ProcInv, ProcTypes, ForkInv, FamilyInv, Live
<1>5. ParentAlive'
  BY <1>1, <1>2 DEF ProcInv, ProcTypes, ParentAlive, Live
<1>6. NoLostExit'
  <2>1. \A q \in Procs : Children(q)' = Children(q) /\ Zombies(q)' = Zombies(q)
    BY <1>1, <1>2 DEF ProcInv, ProcTypes, Children, Zombies
  <2> QED
    BY <1>1, <1>2, <2>1 DEF ProcInv, ProcTypes, NoLostExit
<1> QED
  BY <1>3, <1>4, <1>5, <1>6 DEF ProcInv

\* The slot of a fork() under way is an EMBRYO without parent or child.
LEMMA EmbryoFacts ==
    ASSUME NEW p \in Procs, ProcInv, Running(p, "fork")
    PROVE  /\ np[p] \in Procs \ {p, initproc}
           /\ state[np[p]] = "EMBRYO" /\ parent[np[p]] = 0
           /\ pc[np[p]] # "fork" /\ np[np[p]] = 0
           /\ \A q \in Procs : parent[q] # np[p]
           /\ \A q \in Procs \ {p} : np[q] # np[p]
<1>1. np[p] \in Procs /\ state[np[p]] = "EMBRYO"
  BY DEF Running, ProcInv, ProcTypes, SlotInv, ForkInv
<1>2. np[p] # p /\ np[p] # initproc /\ parent[np[p]] = 0
  BY <1>1 DEF Running, ProcInv, FamilyInv, Live
<1>3. pc[np[p]] # "fork" /\ np[np[p]] = 0
  BY <1>1 DEF ProcInv, ForkInv
<1>4. ASSUME NEW q \in Procs, parent[q] = np[p] PROVE FALSE
  BY <1>1, <1>4, InitProcIsProc
     DEF ProcInv, ProcTypes, FamilyInv, ParentAlive, Live, States
<1>5. \A q \in Procs \ {p} : np[q] # np[p]
  BY <1>1, InitProcIsProc DEF ProcInv, ProcTypes, SlotInv
<1> QED
  BY <1>1, <1>2, <1>3, <1>4, <1>5

\* A fork() without memory leaves the table as it was, but for the pid.
LEMMA ForkFailKeeps ==
    ASSUME NEW p \in Procs, ProcInv, ForkFail(p)
    PROVE  ProcInv'
<1> USE InitProcIsProc
<1> DEFINE c == np[p]
<1>1. /\ c \in Procs \ {p, initproc} /\ state[c] = "EMBRYO" /\ parent[c] = 0
      /\ \A q \in Procs : parent[q] # c
      /\ \A q \in Procs \ {p} : np[q] # c
  BY EmbryoFacts DEF ForkFail
<1>2. /\ state' = [state EXCEPT ![c] = "UNUSED"]
      /\ np' = [np EXCEPT ![p] = 0]
      /\ pc' = [pc EXCEPT ![p] = "user"]
      /\ UNCHANGED <<parent, pid, killed, chan>>
      /\ state[p] = "RUNNABLE"
  BY DEF ForkFail, Running
<1> HIDE DEF c
<1>3. ProcTypes' /\ ChanInv' /\ SlotInv'
  BY <1>1, <1>2 DEF ProcInv, ProcTypes, ChanInv, SlotInv, States, Places
<1>4. ForkInv' /\ FamilyInv'
  BY <1>1, <1>2 DEF ProcInv, ProcTypes, ForkInv, FamilyInv, Live
<1>5. ParentAlive'
  BY <1>1, <1>2 DEF ProcInv, ProcTypes, ParentAlive, Live
<1>6. NoLostExit'
  <2>1. \A q \in Procs : Children(q)' = Children(q) /\ Zombies(q)' = Zombies(q)
    BY <1>1, <1>2 DEF ProcInv, ProcTypes, Children, Zombies
  <2> QED
    BY <1>1, <1>2, <2>1 DEF ProcInv, ProcTypes, NoLostExit
<1> QED
  BY <1>3, <1>4, <1>5, <1>6 DEF ProcInv

\* The child of a fork() has a live parent, the caller.
LEMMA ForkReturnKeeps ==
    ASSUME NEW p \in Procs, ProcInv, ForkReturn(p)
    PROVE  ProcInv'
<1> USE InitProcIsProc
<1> DEFINE c == np[p]
<1>1. /\ c \in Procs \ {p, initproc} /\ state[c] = "EMBRYO" /\ parent[c] = 0
      /\ np[c] = 0
      /\ \A q \in Procs : parent[q] # c
      /\ \A q \in Procs \ {p} : np[q] # c
  BY EmbryoFacts DEF ForkReturn
<1>2. /\ state' = [state EXCEPT ![c] = "RUNNABLE"]
      /\ parent' = [parent EXCEPT ![c] = p]
      /\ np' = [np EXCEPT ![p] = 0]
      /\ pc' = [pc EXCEPT ![p] = "user", ![c] = "user"]
      /\ UNCHANGED <<pid, killed, chan>>
      /\ state[p] = "RUNNABLE"
  BY DEF ForkReturn, Running
<1> HIDE DEF c
<1>3. ProcTypes' /\ ChanInv' /\ SlotInv'
  BY <1>1, <1>2 DEF ProcInv, ProcTypes, ChanInv, SlotInv, States, Places
<1>4. ForkInv' /\ FamilyInv'
  BY <1>1, <1>2 DEF ProcInv, ProcTypes, ForkInv, FamilyInv, Live
<1>5. ParentAlive'
  BY <1>1, <1>2 DEF ProcInv, ProcTypes, ParentAlive, Live
<1>6. NoLostExit'
  <2>1. \A q \in Procs : Children(q) \subseteq Children(q)' /\ Zombies(q)' = Zombies(q)
    BY <1>1, <1>2 DEF ProcInv, ProcTypes, Children, Zombies
  <2> QED
    BY <1>1, <1>2, <2>1 DEF ProcInv, ProcTypes, NoLostExit
<1> QED
  BY <1>3, <1>4, <1>5, <1>6 DEF ProcInv

\* exit() is entered by a process other than init.
LEMMA ExitCallKeeps ==
    ASSUME NEW p \in Procs, ProcInv, ExitCall(p)
    PROVE  ProcInv'
<1>1. CallOf(p)
  BY DEF ExitCall, Running, CallOf, ProcInv, ProcTypes, Places
<1> QED
  BY <1>1, CallKeeps

\* exit() wakes whoever may now have a zombie to reap, its parent and, when it
\* leaves zombies behind, init; and it leaves no child without a parent.
LEMMA ExitZombieKeeps ==
    ASSUME NEW p \in Procs, ProcInv, ExitZombie(p)
    PROVE  ProcInv'
<1> USE InitProcIsProc
<1>0. /\ p # initproc /\ state[p] = "RUNNABLE" /\ pc[p] = "exit"
      /\ UNCHANGED <<pid, killed, pc, np>>
  BY DEF ExitZombie, Running, ProcInv, FamilyInv
<1>1. /\ state' \in [Procs -> States] /\ chan' \in [Procs -> Int]
      /\ parent' = [c \in Procs |-> IF parent[c] = p THEN initproc ELSE parent[c]]
  BY <1>0 DEF ExitZombie, Woken, Tidy, ProcInv, ProcTypes, States, NoChan
<1>2. /\ state'[p] = "ZOMBIE" /\ chan'[p] = NoChan
      /\ \A q \in Procs \ {p} :
            \/ state'[q] = state[q] /\ chan'[q] = chan[q]
            \/ state[q] = "SLEEPING" /\ state'[q] = "RUNNABLE" /\ chan'[q] = NoChan
  BY <1>0 DEF ExitZombie, Woken, Tidy, ProcInv, ProcTypes, ChanInv
<1>3. ASSUME NEW q \in Procs, state'[q] = "SLEEPING" /\ chan'[q] = q
      PROVE  /\ state[q] = "SLEEPING" /\ chan[q] = q
             /\ q # parent[p] /\ q # p
             /\ q = initproc => Zombies(p) = {}
  <2>1. /\ state[q] = "SLEEPING" /\ chan[q] = q /\ q # p
    BY <1>2, <1>3, <1>0
  <2>2. q # parent[p]
    BY <1>3, <2>1 DEF ExitZombie, Woken, ProcInv, ProcTypes
  <2>3. q = initproc => Zombies(p) = {}
    BY <1>3, <2>1 DEF ExitZombie, Woken, ProcInv, ProcTypes
  <2> QED
    BY <2>1, <2>2, <2>3
<1>4. ProcTypes' /\ ChanInv' /\ SlotInv'
  <2>1. ProcTypes'
    BY <1>0, <1>1 DEF ProcInv, ProcTypes
  <2>2. ChanInv'
    BY <1>1, <1>2 DEF ProcInv, ChanInv, NoChan
  <2>3. SlotInv'
    BY <1>0, <1>2 DEF ProcInv, ProcTypes, SlotInv
  <2> QED
    BY <2>1, <2>2, <2>3
<1>5. ForkInv'
  BY <1>0, <1>2 DEF ProcInv, ForkInv
<1>6. FamilyInv'
  BY <1>0, <1>1, <1>2 DEF ProcInv, ProcTypes, FamilyInv, ParentAlive, Live
<1>7. ParentAlive'
  BY <1>0, <1>1, <1>2 DEF ProcInv, ProcTypes, FamilyInv, ParentAlive, Live
<1>8. NoLostExit'
  <2> SUFFICES ASSUME NEW q \in Procs, state'[q] = "SLEEPING", chan'[q] = q
               PROVE  Children(q)' # {} /\ Zombies(q)' = {} /\ ~killed'[q]
    BY DEF NoLostExit
  <2>1. /\ state[q] = "SLEEPING" /\ chan[q] = q
        /\ q # parent[p] /\ q # p
        /\ q = initproc => Zombies(p) = {}
    BY <1>3
  <2>2. Children(q) # {} /\ Zombies(q) = {} /\ ~killed[q]
    BY <2>1 DEF ProcInv, NoLostExit
  <2>3. Children(q) \subseteq Children(q)'
    BY <1>1, <2>1 DEF Children
  <2>4. ASSUME NEW z \in Zombies(q)' PROVE FALSE
    <3>1. z \in Procs /\ parent'[z] = q /\ state'[z] = "ZOMBIE"
      BY <2>4 DEF Zombies, Children
    <3>2. z # p
      BY <3>1, <1>1, <2>1 DEF ProcInv, FamilyInv
    <3>3. state[z] = "ZOMBIE"
      BY <3>1, <3>2, <1>2
    <3>4. parent[z] # q
      BY <3>1, <3>3, <2>2 DEF Zombies, Children
    <3>5. parent[z] = p /\ q = initproc
      BY <3>1, <3>4, <1>1
    <3> QED
      BY <3>1, <3>3, <3>5, <2>1 DEF Zombies, Children
  <2> QED
    BY <2>2, <2>3, <2>4, <1>0
<1> QED
  BY <1>4, <1>5, <1>6, <1>7, <1>8 DEF ProcInv

\* A zombie that wait() finds is an ordinary child: not init, not in fork().
LEMMA ZombieFacts ==
    ASSUME NEW p \in Procs, ProcInv, Zombies(p) # {}
    PROVE  LET z == Lowest(Zombies(p))
           IN  /\ z \in Procs \ {initproc} /\ state[z] = "ZOMBIE" /\ parent[z] = p
               /\ np[z] = 0
               /\ \A q \in Procs : parent[q] # z /\ np[q] # z
<1> DEFINE z == Lowest(Zombies(p))
<1>1. z \in Zombies(p)
  BY LowestIn DEF Zombies, Children
<1>2. z \in Procs /\ state[z] = "ZOMBIE" /\ parent[z] = p
  BY <1>1 DEF Zombies, Children
<1> HIDE DEF z
<1>3. z # initproc /\ np[z] = 0
  BY <1>2 DEF ProcInv, FamilyInv, ForkInv, Live
<1>4. ASSUME NEW q \in Procs PROVE parent[q] # z /\ np[q] # z
  BY <1>2, <1>4, InitProcIsProc DEF ProcInv, ProcTypes, SlotInv, FamilyInv, ParentAlive,
     Live, States
<1> QED
  BY <1>2, <1>3, <1>4 DEF z

\* wait() reaps a zombie whose slot nobody refers to any more, or returns, or
\* sleeps while there is a child that may exit and none that has.
LEMMA WaitKeeps ==
    ASSUME NEW p \in Procs, ProcInv, Wait(p)
    PROVE  ProcInv'
<1> USE InitProcIsProc
<1>0. state[p] = "RUNNABLE" /\ pc[p] \in {"user", "wait"} /\ np' = np
  BY DEF Wait, InUser, Running
<1>1. CASE Zombies(p) # {}
  <2> DEFINE z == Lowest(Zombies(p))
  <2>1. /\ z \in Procs \ {initproc} /\ state[z] = "ZOMBIE" /\ parent[z] = p
        /\ np[z] = 0
        /\ \A q \in Procs : parent[q] # z /\ np[q] # z
    BY <1>1, ZombieFacts
  <2>2. /\ state' = [state EXCEPT ![z] = "UNUSED"]
        /\ parent' = [parent EXCEPT ![z] = 0]
        /\ killed' = [killed EXCEPT ![z] = FALSE]
        /\ pid' = [pid EXCEPT ![z] = 0]
        /\ pc' = [pc EXCEPT ![p] = "user", ![z] = "user"]
        /\ chan' = chan
    BY <1>1 DEF Wait
  <2> HIDE DEF z
  <2>3. ProcTypes' /\ ChanInv' /\ SlotInv'
    <3>1. ProcTypes'
      BY <1>0, <2>1, <2>2 DEF ProcInv, ProcTypes, States, Places
    <3>2. ChanInv'
      BY <1>0, <2>1, <2>2 DEF ProcInv, ProcTypes, ChanInv
    <3>3. SlotInv'
      BY <1>0, <2>1, <2>2 DEF ProcInv, ProcTypes, SlotInv
    <3> QED
      BY <3>1, <3>2, <3>3
  <2>4. ForkInv'
    BY <1>0, <2>1, <2>2 DEF ProcInv, ProcTypes, ForkInv
  <2>5. FamilyInv'
    BY <1>0, <2>1, <2>2 DEF ProcInv, ProcTypes, FamilyInv, Live
  <2>6. ParentAlive'
    BY <1>0, <2>1, <2>2 DEF ProcInv, ProcTypes, ParentAlive, Live
  <2>7. NoLostExit'
    <3> SUFFICES ASSUME NEW q \in Procs, state'[q] = "SLEEPING", chan'[q] = q
                 PROVE  Children(q)' # {} /\ Zombies(q)' = {} /\ ~killed'[q]
      BY DEF NoLostExit
    <3>1. state[q] = "SLEEPING" /\ chan[q] = q /\ q # z /\ q # p
      BY <1>0, <2>1, <2>2 DEF ProcInv, ProcTypes
    <3>2. Children(q) # {} /\ Zombies(q) = {} /\ ~killed[q]
      BY <3>1 DEF ProcInv, NoLostExit
    <3>3. Children(q) \subseteq Children(q)' /\ Zombies(q)' \subseteq Zombies(q)
      BY <2>1, <2>2, <3>1 DEF Children, Zombies, ProcInv, ProcTypes
    <3>4. killed'[q] = killed[q]
      BY <2>2, <3>1 DEF ProcInv, ProcTypes
    <3> QED
      BY <3>2, <3>3, <3>4
  <2> QED
    BY <2>3, <2>4, <2>5, <2>6, <2>7 DEF ProcInv
<1>2. CASE /\ pc' = [pc EXCEPT ![p] = "user"]
           /\ UNCHANGED <<state, parent, pid, killed, chan>>
  <2>1. CallOf(p)
    BY <1>0, <1>2 DEF CallOf, ProcInv, ProcTypes, Places
  <2> QED
    BY <2>1, CallKeeps
<1>3. CASE /\ Zombies(p) = {} /\ Children(p) # {} /\ ~killed[p]
           /\ Sleep(p, p)
           /\ pc' = [pc EXCEPT ![p] = "wait"]
           /\ UNCHANGED <<parent, pid, killed>>
  <2>1. /\ state' = [state EXCEPT ![p] = "SLEEPING"]
        /\ chan' \in [Procs -> Int]
        /\ chan'[p] = p
        /\ \A q \in Procs \ {p} : chan'[q] = chan[q]
    BY <1>3 DEF Sleep, SleepFrom, Tidy, ProcInv, ProcTypes, ChanInv, NoChan
  <2>2. ProcTypes' /\ ChanInv' /\ SlotInv'
    <3>1. ProcTypes'
      BY <1>0, <1>3, <2>1 DEF ProcInv, ProcTypes, States, Places
    <3>2. ChanInv'
      BY <1>0, <2>1 DEF ProcInv, ProcTypes, ChanInv, NoChan
    <3>3. SlotInv'
      BY <1>0, <2>1 DEF ProcInv, ProcTypes, SlotInv
    <3> QED
      BY <3>1, <3>2, <3>3
  <2>3. ForkInv' /\ FamilyInv' /\ ParentAlive'
    BY <1>0, <1>3, <2>1 DEF ProcInv, ProcTypes, ForkInv, FamilyInv, ParentAlive, Live
  <2>4. NoLostExit'
    <3>1. \A q \in Procs : Children(q)' = Children(q) /\ Zombies(q)' = Zombies(q)
      BY <1>0, <1>3, <2>1 DEF ProcInv, ProcTypes, Children, Zombies
    <3> QED
      BY <1>0, <1>3, <2>1, <3>1 DEF ProcInv, ProcTypes, NoLostExit
  <2> QED
    BY <2>2, <2>3, <2>4 DEF ProcInv
<1> QED
  BY <1>1, <1>2, <1>3 DEF Wait

\* kill() sets the flag and wakes the victim in the same section.
LEMMA KillKeeps ==
    ASSUME NEW q \in Procs, ProcInv, Kill(q)
    PROVE  ProcInv'
<1> USE InitProcIsProc
<1>1. /\ killed' = [killed EXCEPT ![q] = TRUE]
      /\ UNCHANGED <<parent, pid, pc, np>>
      /\ state' \in [Procs -> States] /\ chan' \in [Procs -> Int]
      /\ state'[q] # "SLEEPING"
  BY DEF Kill, Tidy, ProcInv, ProcTypes, States, NoChan
<1>2. \A r \in Procs :
        \/ state'[r] = state[r] /\ chan'[r] = chan[r]
        \/ state[r] = "SLEEPING" /\ state'[r] = "RUNNABLE" /\ chan'[r] = NoChan
  BY DEF Kill, Tidy, ProcInv, ProcTypes, ChanInv
<1>3. ProcTypes' /\ ChanInv' /\ SlotInv'
  <2>1. ProcTypes'
    BY <1>1 DEF ProcInv, ProcTypes
  <2>2. ChanInv'
    BY <1>1, <1>2 DEF ProcInv, ChanInv, NoChan
  <2>3. SlotInv'
    BY <1>1, <1>2, ZenonT(30) DEF ProcInv, ProcTypes, SlotInv
  <2> QED
    BY <2>1, <2>2, <2>3
<1>4. ForkInv' /\ FamilyInv'
  BY <1>1, <1>2 DEF ProcInv, ForkInv, FamilyInv, Live
<1>5. ParentAlive'
  BY <1>1, <1>2 DEF ProcInv, ParentAlive, Live
<1>6. NoLostExit'
  <2>1. \A r \in Procs : Children(r)' = Children(r) /\ Zombies(r)' = Zombies(r)
    BY <1>1, <1>2 DEF Children, Zombies
  <2>2. \A r \in Procs : state'[r] = "SLEEPING" => r # q /\ killed'[r] = killed[r]
    BY <1>1 DEF ProcInv, ProcTypes
  <2> QED
    BY <1>2, <2>1, <2>2 DEF ProcInv, NoLostExit
<1> QED
  BY <1>3, <1>4, <1>5, <1>6 DEF ProcInv

-----------------------------------------------------------------------------
(* sleep and wakeup, as the other components use them.                     *)

\* wakeup(c) moves exactly the sleepers of c.
LEMMA WakeupEffect ==
    ASSUME NEW c, ProcInv, Wakeup(c)
    PROVE  /\ state' \in [Procs -> States] /\ chan' \in [Procs -> Int]
           /\ \A q \in Procs :
                 IF state[q] = "SLEEPING" /\ chan[q] = c
                 THEN state'[q] = "RUNNABLE" /\ chan'[q] = NoChan
                 ELSE state'[q] = state[q] /\ chan'[q] = chan[q]
  BY DEF Wakeup, Woken, Tidy, ProcInv, ProcTypes, ChanInv, States, NoChan

\* sleep(c) of p, after a wakeup of d in the same section.
LEMMA SleepEffect ==
    ASSUME NEW p \in Procs, NEW c \in Int, NEW d, ProcInv, state[p] = "RUNNABLE",
           SleepFrom(Woken(state, d), p, c)
    PROVE  /\ state' \in [Procs -> States] /\ chan' \in [Procs -> Int]
           /\ state'[p] = "SLEEPING" /\ chan'[p] = c
           /\ \A q \in Procs \ {p} :
                 IF state[q] = "SLEEPING" /\ chan[q] = d
                 THEN state'[q] = "RUNNABLE" /\ chan'[q] = NoChan
                 ELSE state'[q] = state[q] /\ chan'[q] = chan[q]
  BY DEF SleepFrom, Woken, Tidy, ProcInv, ProcTypes, ChanInv, States, NoChan

\* sleep(c) of p alone.
LEMMA SleepAlone ==
    ASSUME NEW p \in Procs, NEW c \in Int, ProcInv, state[p] = "RUNNABLE",
           Sleep(p, c)
    PROVE  /\ state' \in [Procs -> States] /\ chan' \in [Procs -> Int]
           /\ state'[p] = "SLEEPING" /\ chan'[p] = c
           /\ \A q \in Procs \ {p} : state'[q] = state[q] /\ chan'[q] = chan[q]
  BY DEF Sleep, SleepFrom, Tidy, ProcInv, ProcTypes, ChanInv, States, NoChan

\* The invariant contains the type invariant of the module.
LEMMA ProcInvTypeOK == ProcInv => ProcTypeOK
  BY DEF ProcInv, ProcTypes, ChanInv, SlotInv, ProcTypeOK


-----------------------------------------------------------------------------
(* Arithmetic modulo the width of a counter.                               *)

\* Division with a remainder.
LEMMA Remainder ==
    ASSUME NEW a \in Int, NEW m \in Nat \ {0}
    PROVE  (a % m) \in 0..m-1 /\ a = m * (a \div m) + (a % m) /\ a \div m \in Int
  OBVIOUS

\* Multiples of m are m apart.
LEMMA MulLess ==
    ASSUME NEW a \in Int, NEW b \in Int, NEW m \in Nat, a < b
    PROVE  m * a + m <= m * b
  OBVIOUS

\* A remainder is unique.
LEMMA RemainderUnique ==
    ASSUME NEW m \in Nat \ {0}, NEW q \in Int, NEW r \in 0..m-1, NEW a \in Int,
           a = m * q + r
    PROVE  a % m = r
<1> DEFINE k == a \div m
           u == m * k
           v == m * q
<1>1. (a % m) \in 0..m-1 /\ a = u + (a % m) /\ k \in Int
  BY Remainder
<1>2. u \in Int /\ v \in Int /\ a = v + r
  BY <1>1
<1>3. k < q => u + m <= v
  BY <1>1, MulLess
<1>4. q < k => v + m <= u
  BY <1>1, MulLess
<1>5. k = q => u = v
  OBVIOUS
<1> HIDE DEF k, u, v
<1>6. k = q
  BY <1>1, <1>2, <1>3, <1>4
<1> QED
  BY <1>1, <1>2, <1>5, <1>6

\* The remainder of numbers near the range.
LEMMA NearRange ==
    ASSUME NEW m \in Nat \ {0}, NEW a \in Int, -m <= a, a < 2 * m
    PROVE  a % m = IF a < 0 THEN a + m ELSE IF a < m THEN a ELSE a - m
<1>1. CASE a < 0
  BY <1>1, RemainderUnique, a = m * (-1) + (a + m)
<1>2. CASE a >= 0 /\ a < m
  BY <1>2, RemainderUnique, a = m * 0 + a
<1>3. CASE a >= m
  BY <1>3, RemainderUnique, a = m * 1 + (a - m)
<1> QED
  BY <1>1, <1>2, <1>3

\* A multiple of m makes no difference modulo m.
LEMMA RemainderShift ==
    ASSUME NEW m \in Nat \ {0}, NEW a \in Int, NEW d \in Int
    PROVE  (a - m * d) % m = a % m
<1> DEFINE q == a \div m
           r == a % m
<1>1. r \in 0..m-1 /\ a = m * q + r /\ q \in Int
  BY Remainder
<1> HIDE DEF q, r
<1>2. a - m * d = m * (q - d) + r /\ q - d \in Int /\ a - m * d \in Int
  BY <1>1
<1>3. (a - m * d) % m = r
  BY <1>1, <1>2, RemainderUnique
<1> QED
  BY <1>3 DEF r

\* Numbers less than m apart have different remainders.
LEMMA RemainderInjective ==
    ASSUME NEW m \in Nat \ {0}, NEW a \in Int, NEW b \in Int,
           a < b, b < a + m
    PROVE  a % m # b % m
<1> DEFINE q == a \div m
           r == a % m
           k == b \div m
           u == m * q
           v == m * k
<1>1. r \in 0..m-1 /\ a = u + r /\ q \in Int
  BY Remainder
<1>2. (b % m) \in 0..m-1 /\ b = v + (b % m) /\ k \in Int
  BY Remainder
<1>3. u \in Int /\ v \in Int
  BY <1>1, <1>2
<1>4. (q < k => u + m <= v) /\ (k < q => v + m <= u)
  BY <1>1, <1>2, MulLess
<1>5. q = k => u = v
  OBVIOUS
<1> HIDE DEF q, r, k, u, v
<1> SUFFICES ASSUME r = b % m PROVE FALSE
  BY DEF r
<1> QED
  BY <1>1, <1>2, <1>3, <1>4, <1>5

-----------------------------------------------------------------------------
(* The counters.                                                           *)

Counters == nread \in 0..Word - 1 /\ nwrite \in 0..Word - 1 /\ Count <= PIPESIZE

\* The buffer is smaller than the range of the counters.
LEMMA Widths ==
    Word \in Nat \ {0} /\ PIPESIZE \in Nat \ {0} /\ PIPESIZE < Word
  BY PipeAssumption

\* The remainder that a uint keeps, near its range.
LEMMA Wrap ==
    ASSUME NEW a \in Int, -Word <= a, a < 2 * Word
    PROVE  a % Word = IF a < 0 THEN a + Word ELSE IF a < Word THEN a ELSE a - Word
  BY Widths, NearRange

\* The distance of the counters, without %.
LEMMA CountIs ==
    ASSUME Counters
    PROVE  /\ Count \in 0..PIPESIZE
           /\ nwrite = IF nread + Count < Word THEN nread + Count
                       ELSE nread + Count - Word
<1> USE Widths
<1>1. Count = IF nwrite - nread < 0 THEN nwrite - nread + Word ELSE nwrite - nread
  BY Wrap DEF Counters, Count
<1> QED
  BY <1>1 DEF Counters

\* pipewrite stops where the distance would exceed PIPESIZE.
LEMMA RoomIs ==
    ASSUME Counters
    PROVE  Room = PIPESIZE - Count
<1> USE Widths
<1> DEFINE c == Count
<1>1. /\ c \in 0..PIPESIZE /\ nread \in 0..Word - 1 /\ nwrite \in 0..Word - 1
      /\ nwrite = IF nread + c < Word THEN nread + c ELSE nread + c - Word
  BY CountIs DEF Counters
<1> HIDE DEF c
<1>2. nread + PIPESIZE \in Int /\ -Word <= nread + PIPESIZE /\ nread + PIPESIZE < 2 * Word
  BY <1>1
<1>3. Full = IF nread + PIPESIZE < Word THEN nread + PIPESIZE
             ELSE nread + PIPESIZE - Word
  BY <1>1, <1>2, Wrap DEF Full
<1>4. Full - nwrite \in Int /\ -Word <= Full - nwrite /\ Full - nwrite < 2 * Word
  BY <1>1, <1>3
<1>5. Room = IF Full - nwrite < 0 THEN Full - nwrite + Word
             ELSE IF Full - nwrite < Word THEN Full - nwrite ELSE Full - nwrite - Word
  BY <1>4, Wrap DEF Room
<1>6. Room = PIPESIZE - c
  BY <1>1, <1>3, <1>5
<1> QED
  BY <1>6 DEF c

\* Writing k bytes adds k to the distance, also when nwrite wraps around.
LEMMA CountAfterWrite ==
    ASSUME Counters, NEW k \in 0..PIPESIZE - Count,
           nwrite' = (nwrite + k) % Word, nread' = nread
    PROVE  Counters' /\ Count' = Count + k
<1> USE Widths
<1> DEFINE c == Count
<1>1. /\ c \in 0..PIPESIZE /\ nread \in 0..Word - 1 /\ nwrite \in 0..Word - 1
      /\ nwrite = IF nread + c < Word THEN nread + c ELSE nread + c - Word
      /\ k \in Nat /\ c + k <= PIPESIZE
  BY CountIs DEF Counters
<1> HIDE DEF c
<1>2. nwrite + k \in Int /\ -Word <= nwrite + k /\ nwrite + k < 2 * Word
  BY <1>1
<1>3. nwrite' = IF nwrite + k < Word THEN nwrite + k ELSE nwrite + k - Word
  BY <1>1, <1>2, Wrap
<1>4. /\ nwrite' - nread' \in Int /\ -Word <= nwrite' - nread'
      /\ nwrite' - nread' < Word
  BY <1>1, <1>3
<1>5. Count' = IF nwrite' - nread' < 0 THEN nwrite' - nread' + Word ELSE nwrite' - nread'
  BY <1>4, Wrap DEF Count
<1>6. Count' = c + k
  BY <1>1, <1>3, <1>5
<1> QED
  BY <1>1, <1>3, <1>6 DEF Counters, c

\* Reading k bytes takes k from the distance.
LEMMA CountAfterRead ==
    ASSUME Counters, NEW k \in 0..Count,
           nread' = (nread + k) % Word, nwrite' = nwrite
    PROVE  Counters' /\ Count' = Count - k
<1> USE Widths
<1> DEFINE c == Count
<1>1. /\ c \in 0..PIPESIZE /\ nread \in 0..Word - 1 /\ nwrite \in 0..Word - 1
      /\ nwrite = IF nread + c < Word THEN nread + c ELSE nread + c - Word
      /\ k \in Nat /\ k <= c
  BY CountIs DEF Counters
<1> HIDE DEF c
<1>2. nread + k \in Int /\ -Word <= nread + k /\ nread + k < 2 * Word
  BY <1>1
<1>3. nread' = IF nread + k < Word THEN nread + k ELSE nread + k - Word
  BY <1>1, <1>2, Wrap
<1>4. /\ nwrite' - nread' \in Int /\ -Word <= nwrite' - nread'
      /\ nwrite' - nread' < Word
  BY <1>1, <1>3
<1>5. Count' = IF nwrite' - nread' < 0 THEN nwrite' - nread' + Word ELSE nwrite' - nread'
  BY <1>4, Wrap DEF Count
<1>6. Count' = c - k
  BY <1>1, <1>3, <1>5
<1> QED
  BY <1>1, <1>3, <1>6 DEF Counters, c

-----------------------------------------------------------------------------
(* The invariant.                                                          *)

PipeTypes ==
    /\ ofile \in [Procs -> SUBSET Ends]
    /\ ref \in [Ends -> Nat]
    /\ opened \subseteq Ends
    /\ data \in [0..PIPESIZE - 1 -> Nat]
    /\ todo \in [Procs -> Seq(Nat)]

\* Only a live process has files open, and only a call of pipewrite has bytes
\* left to write.
HoldInv ==
    \A p \in Procs : /\ state[p] \notin Live => ofile[p] = {}
                     /\ todo[p] # <<>> => pc[p] = "write" /\ state[p] \in Live

\* A process inside piperead has the read end, and sleeps only while somebody
\* may write.
ReaderInv ==
    \A p \in Procs :
        /\ pc[p] = "read" => "r" \in ofile[p]
        /\ state[p] = "SLEEPING" /\ chan[p] = NReadChan =>
              pc[p] = "read" /\ "w" \in opened

PipeInv ==
    /\ ProcInv
    /\ PipeTypes /\ Counters
    /\ PipeHeld /\ HoldInv /\ ReaderInv /\ WritersSleepFull

\* The channels are pairwise different and are no proc structures.
LEMMA Channels ==
    /\ NReadChan \in Int /\ NWriteChan \in Int /\ NReadChan # NWriteChan
    /\ NReadChan \notin Procs \cup {NoChan} /\ NWriteChan \notin Procs \cup {NoChan}
  BY InitProcIsProc DEF NReadChan, NWriteChan, NoChan

\* Before the first pipe() nothing is open.
LEMMA PipeInitInv == ProcInit /\ PipeInit => PipeInv
<1> SUFFICES ASSUME ProcInit, PipeInit PROVE PipeInv
  OBVIOUS
<1>1. ProcInv
  BY ProcInitInv
<1>2. PipeTypes
  BY PipeAssumption DEF PipeInit, PipeTypes
<1>3. Counters
  BY Widths, Wrap DEF PipeInit, Counters, Count
<1>4. PipeHeld
  <2> SUFFICES ASSUME NEW f \in Ends
               PROVE  /\ ref[f] = Cardinality({p \in Procs : f \in ofile[p]})
                      /\ (f \in opened) <=> (ref[f] > 0)
    BY DEF PipeHeld
  <2>1. {p \in Procs : f \in ofile[p]} = {}
    BY DEF PipeInit
  <2>2. Cardinality({p \in Procs : f \in ofile[p]}) = 0
    BY <2>1, FS_EmptySet
  <2> QED
    BY <2>2 DEF PipeInit
<1>5. HoldInv
  BY DEF PipeInit, HoldInv
<1>6. ReaderInv /\ WritersSleepFull
  BY DEF ProcInit, ReaderInv, WritersSleepFull
<1> QED
  BY <1>1, <1>2, <1>3, <1>4, <1>5, <1>6 DEF PipeInv

-----------------------------------------------------------------------------
(* The process calls.                                                      *)

\* What a process call may do to the users of a pipe.
QuietCall ==
    /\ \A q \in Procs :
          /\ state'[q] \notin Live /\ state[q] \in Live =>
                ofile[q] = {} /\ pc[q] # "write"
          /\ pc[q] = "write" /\ state[q] \in Live => pc'[q] = "write"
          /\ pc'[q] = "read" => pc[q] = "read"
          /\ state'[q] = "SLEEPING" /\ chan'[q] \in {NReadChan, NWriteChan} =>
                /\ state[q] = "SLEEPING" /\ chan[q] = chan'[q]
                /\ pc'[q] = pc[q] /\ killed'[q] = killed[q]

\* A step like that keeps the invariant.
LEMMA QuietKeeps ==
    ASSUME PipeInv, ProcInv', UNCHANGED pipeVars, QuietCall
    PROVE  PipeInv'
<1> USE DEF PipeInv, pipeVars
<1>1. PipeTypes' /\ Counters' /\ PipeHeld'
  BY DEF PipeTypes, Counters, Count, PipeHeld
<1>2. HoldInv'
  BY DEF HoldInv, QuietCall
<1>3. ReaderInv'
  BY DEF ReaderInv, QuietCall
<1>4. WritersSleepFull'
  BY DEF WritersSleepFull, QuietCall, Count
<1> QED
  BY <1>1, <1>2, <1>3, <1>4

\* fork takes a slot: no reader or writer is in it.
LEMMA ForkAllocPipe ==
    ASSUME NEW p \in Procs, PipeInv, ForkAlloc(p), UNCHANGED pipeVars
    PROVE  PipeInv'
<1>1. Lowest(Free) \in Procs /\ state[Lowest(Free)] = "UNUSED"
  BY LowestIn DEF ForkAlloc, Free
<1>2. ProcInv'
  BY ForkAllocKeeps DEF PipeInv
<1>3. QuietCall
  BY <1>1 DEF ForkAlloc, InUser, Running, QuietCall, PipeInv, ProcInv, ProcTypes, Live
<1> QED
  BY <1>2, <1>3, QuietKeeps

\* fork gives the slot back.
LEMMA ForkFailPipe ==
    ASSUME NEW p \in Procs, PipeInv, ForkFail(p), UNCHANGED pipeVars
    PROVE  PipeInv'
<1>1. np[p] \in Procs \ {p} /\ state[np[p]] = "EMBRYO"
  BY EmbryoFacts DEF ForkFail, PipeInv
<1>2. ProcInv'
  BY ForkFailKeeps DEF PipeInv
<1>3. QuietCall
  BY <1>1 DEF ForkFail, Running, QuietCall, PipeInv, ProcInv, ProcTypes, Live
<1> QED
  BY <1>2, <1>3, QuietKeeps

\* exit begins with all ends still open.
LEMMA ExitCallPipe ==
    ASSUME NEW p \in Procs, PipeInv, ExitCall(p), UNCHANGED pipeVars
    PROVE  PipeInv'
<1>2. ProcInv'
  BY ExitCallKeeps DEF PipeInv
<1>3. QuietCall
  BY DEF ExitCall, Running, QuietCall, PipeInv, ProcInv, ProcTypes, Live
<1> QED
  BY <1>2, <1>3, QuietKeeps

\* wait reaps a child that has closed its ends, or sleeps.
LEMMA WaitPipe ==
    ASSUME NEW p \in Procs, PipeInv, Wait(p), UNCHANGED pipeVars
    PROVE  PipeInv'
<1>1. ProcInv /\ ProcInv'
  BY WaitKeeps DEF PipeInv
<1>2. QuietCall
  <2>0. state[p] = "RUNNABLE" /\ pc[p] \in {"user", "wait"}
    BY DEF Wait, InUser, Running
  <2>1. CASE Zombies(p) # {}
    <3>1. Lowest(Zombies(p)) \in Procs /\ state[Lowest(Zombies(p))] = "ZOMBIE"
      BY <1>1, <2>1, ZombieFacts
    <3> QED
      BY <1>1, <2>0, <2>1, <3>1 DEF Wait, QuietCall, ProcInv, ProcTypes, Live
  <2>2. CASE /\ pc' = [pc EXCEPT ![p] = "user"]
             /\ UNCHANGED <<state, parent, pid, killed, chan>>
    BY <1>1, <2>0, <2>2 DEF QuietCall, ProcInv, ProcTypes
  <2>3. CASE /\ Sleep(p, p)
             /\ pc' = [pc EXCEPT ![p] = "wait"]
             /\ UNCHANGED <<parent, pid, killed>>
    <3>1. /\ state'[p] = "SLEEPING" /\ chan'[p] = p
          /\ \A q \in Procs \ {p} : state'[q] = state[q] /\ chan'[q] = chan[q]
      BY <1>1, <2>0, <2>3, SleepAlone, InitProcIsProc
    <3> QED
      BY <1>1, <2>0, <2>3, <3>1, Channels DEF QuietCall, ProcInv, ProcTypes, Live
  <2> QED
    BY <2>1, <2>2, <2>3 DEF Wait
<1> QED
  BY <1>1, <1>2, QuietKeeps

\* exit() becomes a ZOMBIE only when its files are closed.
LEMMA ExitZombiePipe ==
    ASSUME NEW p \in Procs, PipeInv, PipeExit(p)
    PROVE  PipeInv'
<1>1. ProcInv /\ ProcInv' /\ UNCHANGED pipeVars
  BY ExitZombieKeeps DEF PipeInv, PipeExit
<1>2. QuietCall
  <2>1. state[p] = "RUNNABLE" /\ pc[p] = "exit" /\ ofile[p] = {}
        /\ pc' = pc /\ killed' = killed
    BY DEF PipeExit, ExitZombie, Running
  <2>2. \A q \in Procs \ {p} :
            \/ state'[q] = state[q] /\ chan'[q] = chan[q]
            \/ state[q] = "SLEEPING" /\ state'[q] = "RUNNABLE"
    BY <1>1 DEF PipeExit, ExitZombie, Woken, Tidy, ProcInv, ProcTypes, ChanInv
  <2>3. state'[p] = "ZOMBIE"
    BY <1>1 DEF PipeExit, ExitZombie, Woken, ProcInv, ProcTypes
  <2> QED
    BY <2>1, <2>2, <2>3 DEF QuietCall, Live
<1> QED
  BY <1>1, <1>2, QuietKeeps

\* kill() wakes the victim out of the pipe.
LEMMA KillPipe ==
    ASSUME PipeInv, PipeKill
    PROVE  PipeInv'
<1>1. PICK q \in Procs : Kill(q)
  BY ProcessAssumption DEF PipeKill
<1>2. ProcInv /\ ProcInv' /\ UNCHANGED pipeVars
  BY <1>1, KillKeeps DEF PipeInv, PipeKill
<1>3. QuietCall
  <2>1. pc' = pc /\ killed' = [killed EXCEPT ![q] = TRUE] /\ state'[q] # "SLEEPING"
    BY <1>1, <1>2 DEF Kill, ProcInv, ProcTypes
  <2>2. \A r \in Procs :
          \/ state'[r] = state[r] /\ chan'[r] = chan[r]
          \/ state[r] = "SLEEPING" /\ state'[r] = "RUNNABLE"
    BY <1>1, <1>2 DEF Kill, Tidy, ProcInv, ProcTypes, ChanInv
  <2> QED
    BY <1>2, <2>1, <2>2 DEF QuietCall, Live, ProcInv, ProcTypes
<1> QED
  BY <1>2, <1>3, QuietKeeps

-----------------------------------------------------------------------------
(* Descriptors.                                                            *)

HoldersOf(f) == {p \in Procs : f \in ofile[p]}

\* The holders of an end can be counted.
LEMMA HoldersFinite ==
    ASSUME NEW f
    PROVE  IsFiniteSet(HoldersOf(f)) /\ IsFiniteSet(HoldersOf(f)')
<1>1. IsFiniteSet(Procs)
  BY FS_Interval, ProcessAssumption DEF Procs
<1> QED
  BY <1>1, FS_Subset DEF HoldersOf

\* fork() gives every file of the parent one holder more and one reference.
LEMMA PipeForkKeeps ==
    ASSUME NEW p \in Procs, PipeInv, PipeFork(p)
    PROVE  PipeInv'
<1> USE InitProcIsProc
<1> DEFINE c == np[p]
<1>1. ProcInv /\ ProcInv'
  BY ForkReturnKeeps DEF PipeInv, PipeFork
<1>2. c \in Procs \ {p} /\ state[c] = "EMBRYO"
  BY <1>1, EmbryoFacts DEF PipeFork, ForkReturn
<1>3. /\ state' = [state EXCEPT ![c] = "RUNNABLE"]
      /\ pc' = [pc EXCEPT ![p] = "user", ![c] = "user"]
      /\ killed' = killed /\ chan' = chan
      /\ state[p] = "RUNNABLE" /\ pc[p] = "fork"
      /\ ofile' = [ofile EXCEPT ![c] = ofile[p]]
      /\ ref' = [f \in Ends |-> IF f \in ofile[p] THEN ref[f] + 1 ELSE ref[f]]
      /\ UNCHANGED <<opened, data, nread, nwrite, todo, want>>
  BY DEF PipeFork, ForkReturn, Running, DupFiles
<1> HIDE DEF c
<1>4. ofile[c] = {} /\ todo[c] = <<>>
  BY <1>2 DEF PipeInv, HoldInv, Live
<1>5. PipeTypes' /\ Counters'
  BY <1>2, <1>3 DEF PipeInv, PipeTypes, Counters, Count
<1>6. PipeHeld'
  <2> SUFFICES ASSUME NEW f \in Ends
               PROVE  /\ ref'[f] = Cardinality(HoldersOf(f)')
                      /\ (f \in opened') <=> (ref'[f] > 0)
    BY DEF PipeHeld, HoldersOf
  <2>1. ref[f] = Cardinality(HoldersOf(f)) /\ ((f \in opened) <=> (ref[f] > 0))
        /\ ref[f] \in Nat
    BY DEF PipeInv, PipeHeld, PipeTypes, HoldersOf
  <2>2. CASE f \in ofile[p]
    <3>1. HoldersOf(f)' = HoldersOf(f) \cup {c} /\ c \notin HoldersOf(f)
      BY <1>2, <1>3, <1>4, <2>2 DEF HoldersOf, PipeInv, PipeTypes
    <3>2. Cardinality(HoldersOf(f) \cup {c}) = Cardinality(HoldersOf(f)) + 1
      BY <3>1, HoldersFinite, FS_AddElement
    <3>3. p \in HoldersOf(f)
      BY <2>2 DEF HoldersOf
    <3>4. ref[f] # 0
      BY <3>3, <2>1, HoldersFinite, FS_EmptySet
    <3> QED
      BY <1>3, <2>1, <2>2, <3>1, <3>2, <3>4
  <2>3. CASE f \notin ofile[p]
    <3>1. HoldersOf(f)' = HoldersOf(f)
      BY <1>2, <1>3, <1>4, <2>3 DEF HoldersOf, PipeInv, PipeTypes
    <3> QED
      BY <1>3, <2>1, <2>3, <3>1
  <2> QED
    BY <2>2, <2>3
<1>7. HoldInv'
  BY <1>1, <1>2, <1>3, <1>4 DEF PipeInv, PipeTypes, HoldInv, ProcInv, ProcTypes, Live
<1>8. ReaderInv'
  BY <1>1, <1>2, <1>3, <1>4 DEF PipeInv, PipeTypes, ReaderInv, ProcInv, ProcTypes
<1>9. WritersSleepFull'
  BY <1>1, <1>2, <1>3 DEF PipeInv, WritersSleepFull, ProcInv, ProcTypes, Count
<1> QED
  BY <1>1, <1>5, <1>6, <1>7, <1>8, <1>9 DEF PipeInv

\* pipealloc finds no user of an earlier pipe.
LEMMA SysPipeKeeps ==
    ASSUME NEW p \in Procs, PipeInv, SysPipe(p)
    PROVE  PipeInv'
<1>1. ProcInv /\ ProcInv' /\ UNCHANGED procVars
  BY DEF PipeInv, SysPipe, procVars, ProcInv, ProcTypes, ChanInv, SlotInv, ForkInv,
         FamilyInv, ParentAlive, NoLostExit, Children, Zombies
<1>2. state[p] = "RUNNABLE" /\ pc[p] = "user" /\ opened = {}
  BY DEF SysPipe, InUser, Running
<1>3. \A f \in Ends : ref[f] = 0 /\ HoldersOf(f) = {}
  <2> SUFFICES ASSUME NEW f \in Ends PROVE ref[f] = 0 /\ HoldersOf(f) = {}
    OBVIOUS
  <2>1. ref[f] = Cardinality(HoldersOf(f)) /\ ((f \in opened) <=> (ref[f] > 0))
        /\ ref[f] \in Nat
    BY DEF PipeInv, PipeHeld, PipeTypes, HoldersOf
  <2>2. ref[f] = 0
    BY <1>2, <2>1
  <2> QED
    BY <2>1, <2>2, HoldersFinite, FS_EmptySet
<1>4. \A q \in Procs : ofile[q] = {}
  BY <1>3 DEF HoldersOf, PipeInv, PipeTypes
<1>5. PipeTypes'
  BY PipeAssumption DEF SysPipe, PipeInv, PipeTypes
<1>6. Counters' /\ Count' = 0
  BY Widths, Wrap DEF SysPipe, Counters, Count
<1>7. PipeHeld'
  <2> SUFFICES ASSUME NEW f \in Ends
               PROVE  /\ ref'[f] = Cardinality(HoldersOf(f)')
                      /\ (f \in opened') <=> (ref'[f] > 0)
    BY DEF PipeHeld, HoldersOf
  <2>1. HoldersOf(f)' = {p}
    BY <1>4 DEF SysPipe, HoldersOf, PipeInv, PipeTypes
  <2>2. Cardinality({p}) = 1
    BY FS_Singleton
  <2> QED
    BY <2>1, <2>2 DEF SysPipe
<1>8. HoldInv'
  BY <1>1, <1>2 DEF SysPipe, procVars, PipeInv, HoldInv, PipeTypes, Live
<1>9. ReaderInv' /\ WritersSleepFull'
  BY <1>1, <1>2, <1>4 DEF SysPipe, procVars, PipeInv, ReaderInv, WritersSleepFull
<1> QED
  BY <1>1, <1>5, <1>6, <1>7, <1>8, <1>9 DEF PipeInv

\* fileclose() drops a reference with the descriptor, and closes the end, which
\* wakes the other end's sleepers, exactly with the last one.
LEMMA CloseKeeps ==
    ASSUME NEW p \in Procs, NEW f \in Ends, PipeInv, FileClose(p, f),
           Running(p, "user") \/ Running(p, "exit")
    PROVE  PipeInv'
<1> USE Channels
<1>0. /\ f \in ofile[p] /\ state[p] = "RUNNABLE" /\ pc[p] \in {"user", "exit"}
      /\ ofile' = [ofile EXCEPT ![p] = @ \ {f}]
      /\ ref' = [ref EXCEPT ![f] = @ - 1]
      /\ UNCHANGED <<parent, pid, killed, pc, np, data, nread, nwrite, todo, want>>
      /\ ProcInv
  BY DEF FileClose, Running, PipeInv
<1>1. /\ ref[f] = Cardinality(HoldersOf(f)) /\ p \in HoldersOf(f)
      /\ ref[f] \in Nat /\ ref[f] > 0 /\ f \in opened
  <2>1. ref[f] = Cardinality(HoldersOf(f)) /\ p \in HoldersOf(f) /\ ref[f] \in Nat
    BY <1>0 DEF PipeInv, PipeHeld, PipeTypes, HoldersOf
  <2>2. ref[f] > 0
    BY <2>1, HoldersFinite, FS_EmptySet
  <2> QED
    BY <2>1, <2>2 DEF PipeInv, PipeHeld
<1>2. /\ state' \in [Procs -> States] /\ chan' \in [Procs -> Int]
      /\ \A q \in Procs :
            \/ state'[q] = state[q] /\ chan'[q] = chan[q]
            \/ state[q] = "SLEEPING" /\ state'[q] = "RUNNABLE" /\ chan'[q] = NoChan
  <2>1. CASE ref[f] > 1
    BY <1>0, <2>1 DEF FileClose, ProcInv, ProcTypes
  <2>2. CASE ~(ref[f] > 1)
    <3>1. Wakeup(IF f = "w" THEN NReadChan ELSE NWriteChan)
      BY <2>2 DEF FileClose, PipeClose
    <3> QED
      BY <1>0, <3>1, WakeupEffect
  <2> QED
    BY <2>1, <2>2
<1>3. ProcInv'
  <2>1. CallOf(p)
    BY <1>0, <1>2 DEF CallOf, ProcInv, ProcTypes
  <2> QED
    BY <1>0, <2>1, CallKeeps
<1>4. opened' = IF ref[f] > 1 THEN opened ELSE opened \ {f}
  BY DEF FileClose, PipeClose
<1>5. PipeTypes' /\ Counters'
  BY <1>0, <1>1, <1>4 DEF PipeInv, PipeTypes, Counters, Count
<1>6. PipeHeld'
  <2> SUFFICES ASSUME NEW g \in Ends
               PROVE  /\ ref'[g] = Cardinality(HoldersOf(g)')
                      /\ (g \in opened') <=> (ref'[g] > 0)
    BY DEF PipeHeld, HoldersOf
  <2>1. ref[g] = Cardinality(HoldersOf(g)) /\ ((g \in opened) <=> (ref[g] > 0))
        /\ ref[g] \in Nat
    BY DEF PipeInv, PipeHeld, PipeTypes, HoldersOf
  <2>2. CASE g = f
    <3>1. HoldersOf(f)' = HoldersOf(f) \ {p}
      BY <1>0 DEF HoldersOf, PipeInv, PipeTypes
    <3>2. Cardinality(HoldersOf(f) \ {p}) = Cardinality(HoldersOf(f)) - 1
      BY <1>1, HoldersFinite, FS_RemoveElement
    <3>3. ref'[f] = ref[f] - 1
      BY <1>0 DEF PipeInv, PipeTypes
    <3> QED
      BY <1>1, <1>4, <2>2, <3>1, <3>2, <3>3
  <2>3. CASE g # f
    <3>1. HoldersOf(g)' = HoldersOf(g)
      BY <1>0, <2>3 DEF HoldersOf, PipeInv, PipeTypes
    <3>2. ref'[g] = ref[g]
      BY <1>0, <2>3 DEF PipeInv, PipeTypes
    <3> QED
      BY <1>4, <2>1, <2>3, <3>1, <3>2
  <2> QED
    BY <2>2, <2>3
<1>7. HoldInv'
  BY <1>0, <1>2 DEF PipeInv, HoldInv, PipeTypes, Live
<1>8. ReaderInv' /\ WritersSleepFull'
  <2>1. CASE ref[f] > 1
    BY <1>0, <1>4, <2>1 DEF FileClose, PipeInv, PipeTypes, ReaderInv, WritersSleepFull, Count
  <2>2. CASE ~(ref[f] > 1)
    <3>1. Wakeup(IF f = "w" THEN NReadChan ELSE NWriteChan)
      BY <2>2 DEF FileClose, PipeClose
    <3>2. \A q \in Procs :
            IF state[q] = "SLEEPING" /\ chan[q] = IF f = "w" THEN NReadChan ELSE NWriteChan
            THEN state'[q] = "RUNNABLE" /\ chan'[q] = NoChan
            ELSE state'[q] = state[q] /\ chan'[q] = chan[q]
      BY <1>0, <3>1, WakeupEffect
    <3>3. ReaderInv'
      BY <1>0, <1>4, <2>2, <3>2 DEF PipeInv, PipeTypes, ReaderInv, Ends
    <3>4. WritersSleepFull'
      BY <1>0, <1>4, <2>2, <3>2 DEF PipeInv, PipeTypes, WritersSleepFull, Ends, Count
    <3> QED
      BY <3>3, <3>4
  <2> QED
    BY <2>1, <2>2
<1> QED
  BY <1>3, <1>5, <1>6, <1>7, <1>8 DEF PipeInv

-----------------------------------------------------------------------------
(* Transfer.                                                               *)

\* The bytes of one section go to different places of the ring.
LEMMA CopyInEffect ==
    ASSUME PipeTypes, nwrite \in 0..Word - 1,
           NEW s \in Seq(Nat), Len(s) <= PIPESIZE, CopyIn(s)
    PROVE  /\ data' \in [0..PIPESIZE - 1 -> Nat]
           /\ \A j \in 1..Len(s) : data'[(nwrite + j - 1) % PIPESIZE] = s[j]
           /\ \A i \in 0..PIPESIZE - 1 :
                 (\A j \in 1..Len(s) : (nwrite + j - 1) % PIPESIZE # i) =>
                     data'[i] = data[i]
<1> USE Widths
<1> DEFINE at(j) == (nwrite + j - 1) % PIPESIZE
           js(i) == {j \in 1..Len(s) : at(j) = i}
           last(i) == CHOOSE j \in js(i) : \A l \in js(i) : j >= l
<1>1. data' = [i \in 0..PIPESIZE - 1 |-> IF js(i) = {} THEN data[i] ELSE s[last(i)]]
  BY DEF CopyIn, PipeTypes
<1>2. ASSUME NEW j \in 1..Len(s) PROVE at(j) \in 0..PIPESIZE - 1
  <2>1. nwrite + j - 1 \in Int
    OBVIOUS
  <2> QED
    BY <2>1, Remainder
<1>3. ASSUME NEW i \in 0..PIPESIZE - 1, NEW j \in js(i), NEW l \in js(i)
      PROVE  j = l
  <2>1. /\ j \in 1..Len(s) /\ l \in 1..Len(s) /\ at(j) = at(l) /\ Len(s) \in Nat
        /\ nwrite \in Nat
    <3>1. Len(s) \in Nat /\ nwrite \in Nat
      OBVIOUS
    <3>2. j \in 1..Len(s) /\ l \in 1..Len(s) /\ at(j) = i /\ at(l) = i
      BY Zenon
    <3> QED
      BY <3>1, <3>2
  <2>2. CASE j < l
    <3>1. /\ nwrite + j - 1 \in Int /\ nwrite + l - 1 \in Int
          /\ nwrite + j - 1 < nwrite + l - 1
          /\ nwrite + l - 1 < (nwrite + j - 1) + PIPESIZE
      BY <2>1, <2>2
    <3> QED
      BY <2>1, <3>1, RemainderInjective
  <2>3. CASE l < j
    <3>1. /\ nwrite + j - 1 \in Int /\ nwrite + l - 1 \in Int
          /\ nwrite + l - 1 < nwrite + j - 1
          /\ nwrite + j - 1 < (nwrite + l - 1) + PIPESIZE
      BY <2>1, <2>3
    <3> QED
      BY <2>1, <3>1, RemainderInjective
  <2> QED
    BY <2>1, <2>2, <2>3
<1>4. ASSUME NEW i \in 0..PIPESIZE - 1, NEW j \in js(i)
      PROVE  last(i) = j
  <2>0. j \in Int
    OBVIOUS
  <2>1. \A l \in js(i) : j = l
    BY <1>3
  <2>2. \A l \in js(i) : j >= l
    BY <2>0, <2>1
  <2>3. last(i) \in js(i)
    BY <2>2
  <2> QED
    BY <1>3, <2>3
<1> HIDE DEF last
<1>5. ASSUME NEW j \in 1..Len(s) PROVE data'[at(j)] = s[j]
  <2>1. at(j) \in 0..PIPESIZE - 1 /\ j \in js(at(j))
    BY <1>2
  <2>2. last(at(j)) = j
    BY <1>4, <2>1
  <2> QED
    BY <1>1, <2>1, <2>2
<1>6. \A i \in 0..PIPESIZE - 1 :
        (\A j \in 1..Len(s) : at(j) # i) => data'[i] = data[i]
  BY <1>1
<1>7. ASSUME NEW i \in 0..PIPESIZE - 1 PROVE data'[i] \in Nat
  <2>1. CASE \A j \in 1..Len(s) : at(j) # i
    BY <1>6, <2>1 DEF PipeTypes
  <2>2. CASE \E j \in 1..Len(s) : at(j) = i
    BY <1>5, <2>2, ElementOfSeq
  <2> QED
    BY <2>1, <2>2
<1>8. data' \in [0..PIPESIZE - 1 -> Nat]
  BY <1>1, <1>7
<1> QED
  BY <1>5, <1>6, <1>8

\* A section of pipewrite, in numbers: what it copies, and how full the pipe
\* is afterwards.
LEMMA PipeWriteFacts ==
    ASSUME NEW p \in Procs, PipeInv, PipeWrite(p)
    PROVE  LET k == Least(Room, Len(todo[p]))
               head == SubSeq(todo[p], 1, k)
               rest == SubSeq(todo[p], k + 1, Len(todo[p]))
           IN  /\ k \in 0..Len(todo[p]) /\ k \in 0..PIPESIZE - Count
               /\ head \in Seq(Nat) /\ Len(head) = k /\ CopyIn(head)
               /\ \A j \in 1..k : head[j] = todo[p][j]
               /\ rest \in Seq(Nat)
               /\ Counters' /\ Count' = Count + k
               /\ rest # <<>> => Count' = PIPESIZE
<1> DEFINE k == Least(Room, Len(todo[p]))
           head == SubSeq(todo[p], 1, k)
           rest == SubSeq(todo[p], k + 1, Len(todo[p]))
<1>1. todo[p] \in Seq(Nat) /\ Len(todo[p]) \in Nat
  BY DEF PipeInv, PipeTypes
<1>2. /\ Room = PIPESIZE - Count /\ Count \in 0..PIPESIZE /\ PIPESIZE \in Nat
  BY RoomIs, CountIs, Widths DEF PipeInv
<1>3. k \in 0..Len(todo[p]) /\ k \in 0..PIPESIZE - Count
  BY <1>1, <1>2 DEF Least
<1>4. k # Len(todo[p]) => k = PIPESIZE - Count
  BY <1>2 DEF Least
<1>5. CopyIn(head) /\ nread' = nread
  BY DEF PipeWrite
<1> HIDE DEF k
<1>6. /\ head \in Seq(Nat) /\ Len(head) = k
      /\ \A j \in 1..k : head[j] = todo[p][j]
  <2>1. \A i \in 1..k : todo[p][i] \in Nat
    BY <1>1, <1>3, ElementOfSeq
  <2> QED
    BY <1>1, <1>3, <2>1, SubSeqProperties
<1>7. rest \in Seq(Nat)
  <2>1. \A i \in k + 1..Len(todo[p]) : todo[p][i] \in Nat
    BY <1>1, <1>3, ElementOfSeq
  <2> QED
    BY <1>1, <1>3, <2>1, SubSeqProperties
<1>8. k = Len(todo[p]) => rest = <<>>
  BY <1>1, SubSeqEmpty
<1>9. nwrite' = (nwrite + k) % Word
  BY <1>5, <1>6 DEF CopyIn
<1>10. Counters' /\ Count' = Count + k
  BY <1>3, <1>5, <1>9, CountAfterWrite DEF PipeInv
<1>11. rest # <<>> => Count' = PIPESIZE
  BY <1>2, <1>4, <1>8, <1>10
<1> QED
  BY <1>3, <1>5, <1>6, <1>7, <1>10, <1>11 DEF k

\* write() begins.
LEMMA WriteCallKeeps ==
    ASSUME NEW p \in Procs, PipeInv, WriteCall(p)
    PROVE  PipeInv'
<1>0. /\ state[p] = "RUNNABLE" /\ pc[p] = "user"
      /\ pc' = [pc EXCEPT ![p] = "write"]
      /\ UNCHANGED <<state, parent, pid, killed, chan, np, ofile, ref, opened,
                     data, nread, nwrite, want>>
      /\ ProcInv
  BY DEF WriteCall, InUser, Running, PipeInv
<1>1. PICK s \in Writes : todo' = [todo EXCEPT ![p] = s]
  BY DEF WriteCall
<1>2. ProcInv'
  <2>1. CallOf(p)
    BY <1>0 DEF CallOf, ProcInv, ProcTypes, Places
  <2> QED
    BY <1>0, <2>1, CallKeeps
<1>3. s \in Seq(Nat)
  BY PipeAssumption
<1>4. PipeTypes' /\ Counters' /\ PipeHeld'
  BY <1>0, <1>1, <1>3 DEF PipeInv, PipeTypes, Counters, Count, PipeHeld
<1>5. HoldInv' /\ ReaderInv'
  BY <1>0, <1>1 DEF PipeInv, PipeTypes, HoldInv, ReaderInv, ProcInv, ProcTypes, Live
<1>6. WritersSleepFull'
  BY <1>0 DEF PipeInv, WritersSleepFull, Count
<1> QED
  BY <1>2, <1>4, <1>5, <1>6 DEF PipeInv

\* pipewrite sleeps only when it has filled the pipe, and while a writer sleeps
\* another one finds no room.
LEMMA PipeWriteKeeps ==
    ASSUME NEW p \in Procs, PipeInv, PipeWrite(p)
    PROVE  PipeInv'
<1> USE Channels
<1> DEFINE k == Least(Room, Len(todo[p]))
           head == SubSeq(todo[p], 1, k)
           rest == SubSeq(todo[p], k + 1, Len(todo[p]))
<1>0. /\ state[p] = "RUNNABLE" /\ pc[p] = "write" /\ ProcInv
      /\ UNCHANGED <<parent, pid, killed, np, ofile, ref, opened, nread, want>>
  BY DEF PipeWrite, Running, PipeInv
<1>1. /\ k \in 0..Len(todo[p]) /\ k \in 0..PIPESIZE - Count
      /\ head \in Seq(Nat) /\ Len(head) = k /\ CopyIn(head)
      /\ rest \in Seq(Nat)
      /\ Counters' /\ Count' = Count + k
      /\ rest # <<>> => Count' = PIPESIZE
  BY PipeWriteFacts
<1>2. \/ /\ Wakeup(NReadChan)
         /\ pc' = [pc EXCEPT ![p] = "user"]
         /\ todo' = [todo EXCEPT ![p] = <<>>]
      \/ /\ pc' = [pc EXCEPT ![p] = "user"]
         /\ todo' = [todo EXCEPT ![p] = <<>>]
         /\ UNCHANGED <<state, chan>>
      \/ /\ rest # <<>> /\ "r" \in opened /\ ~killed[p]
         /\ SleepFrom(Woken(state, NReadChan), p, NWriteChan)
         /\ todo' = [todo EXCEPT ![p] = rest]
         /\ UNCHANGED pc
  BY DEF PipeWrite
<1> HIDE DEF k, head, rest
<1>3. Count \in 0..PIPESIZE /\ PIPESIZE \in Nat /\ k \in Nat
  BY <1>1, CountIs, Widths DEF PipeInv
<1>4. PipeTypes'
  <2>1. data' \in [0..PIPESIZE - 1 -> Nat]
    BY <1>1, <1>3, CopyInEffect DEF PipeInv, Counters
  <2>2. todo' \in [Procs -> Seq(Nat)]
    BY <1>1, <1>2, <<>> \in Seq(Nat) DEF PipeInv, PipeTypes
  <2> QED
    BY <1>0, <2>1, <2>2 DEF PipeInv, PipeTypes
<1>5. PipeHeld'
  BY <1>0 DEF PipeInv, PipeHeld
\* Nobody but p begins to sleep, and no writer is woken.
<1>6. /\ state' \in [Procs -> States] /\ chan' \in [Procs -> Int]
      /\ pc' \in [Procs -> Places]
      /\ \A q \in Procs \ {p} :
            /\ pc'[q] = pc[q] /\ todo'[q] = todo[q]
            /\ \/ state'[q] = state[q] /\ chan'[q] = chan[q]
               \/ state[q] = "SLEEPING" /\ state'[q] = "RUNNABLE" /\ chan'[q] = NoChan
      /\ \/ state'[p] = "RUNNABLE" /\ chan'[p] = chan[p] /\ pc'[p] = "user" /\ todo'[p] = <<>>
         \/ /\ state'[p] = "SLEEPING" /\ chan'[p] = NWriteChan /\ pc'[p] = "write"
            /\ rest # <<>> /\ "r" \in opened /\ ~killed[p]
  <2>1. CASE /\ Wakeup(NReadChan)
             /\ pc' = [pc EXCEPT ![p] = "user"]
             /\ todo' = [todo EXCEPT ![p] = <<>>]
    <3>1. /\ state' \in [Procs -> States] /\ chan' \in [Procs -> Int]
          /\ \A q \in Procs :
                IF state[q] = "SLEEPING" /\ chan[q] = NReadChan
                THEN state'[q] = "RUNNABLE" /\ chan'[q] = NoChan
                ELSE state'[q] = state[q] /\ chan'[q] = chan[q]
      BY <1>0, <2>1, WakeupEffect
    <3> QED
      BY <1>0, <2>1, <3>1 DEF PipeInv, PipeTypes, ProcInv, ProcTypes, Places
  <2>2. CASE /\ pc' = [pc EXCEPT ![p] = "user"]
             /\ todo' = [todo EXCEPT ![p] = <<>>]
             /\ UNCHANGED <<state, chan>>
    BY <1>0, <2>2 DEF PipeInv, PipeTypes, ProcInv, ProcTypes, Places
  <2>3. CASE /\ rest # <<>> /\ "r" \in opened /\ ~killed[p]
             /\ SleepFrom(Woken(state, NReadChan), p, NWriteChan)
             /\ todo' = [todo EXCEPT ![p] = rest]
             /\ UNCHANGED pc
    <3>1. /\ state' \in [Procs -> States] /\ chan' \in [Procs -> Int]
          /\ state'[p] = "SLEEPING" /\ chan'[p] = NWriteChan
          /\ \A q \in Procs \ {p} :
                IF state[q] = "SLEEPING" /\ chan[q] = NReadChan
                THEN state'[q] = "RUNNABLE" /\ chan'[q] = NoChan
                ELSE state'[q] = state[q] /\ chan'[q] = chan[q]
      BY <1>0, <2>3, SleepEffect
    <3> QED
      BY <1>0, <2>3, <3>1 DEF PipeInv, PipeTypes, ProcInv, ProcTypes
  <2> QED
    BY <1>2, <2>1, <2>2, <2>3
<1>7. ProcInv'
  <2>1. CallOf(p)
    BY <1>0, <1>6 DEF CallOf
  <2> QED
    BY <1>0, <2>1, CallKeeps
<1>8. HoldInv' /\ ReaderInv'
  BY <1>0, <1>6 DEF PipeInv, HoldInv, ReaderInv, Live
<1>9. WritersSleepFull'
  <2> SUFFICES ASSUME NEW q \in Procs, state'[q] = "SLEEPING", chan'[q] = NWriteChan
               PROVE  Count' = PIPESIZE /\ "r" \in opened' /\ ~killed'[q]
    BY DEF WritersSleepFull
  <2>1. CASE q = p
    BY <1>0, <1>1, <1>6, <2>1
  <2>2. CASE q # p
    <3>1. Count = PIPESIZE /\ "r" \in opened /\ ~killed[q]
      BY <1>6, <2>2 DEF PipeInv, WritersSleepFull
    <3>2. k = 0
      BY <1>1, <1>3, <3>1
    <3> QED
      BY <1>0, <1>1, <1>3, <3>1, <3>2
  <2> QED
    BY <2>1, <2>2
<1> QED
  BY <1>1, <1>4, <1>5, <1>7, <1>8, <1>9 DEF PipeInv

\* What a section of piperead takes is there.
LEMMA PipeReadFacts ==
    ASSUME NEW p \in Procs, NEW n \in Reads, PipeInv, PipeRead(p, n)
    PROVE  LET k == Least(n, Count)
           IN  /\ k \in 0..Count
               /\ nread' = (nread + k) % Word =>
                     Counters' /\ Count' = Count - k
               /\ nread' = nread => Counters' /\ Count' = Count
               /\ nread' = (nread + k) % Word \/ nread' = nread
<1> DEFINE k == Least(n, Count)
<1>1. n \in Nat /\ Count \in Nat /\ nwrite' = nwrite /\ Counters
  BY PipeAssumption, CountIs, Widths DEF PipeRead, PipeInv
<1>2. k \in 0..Count
  BY <1>1 DEF Least
<1>3. nread' = (nread + k) % Word \/ nread' = nread
  BY DEF PipeRead
<1> HIDE DEF k
<1>4. nread' = (nread + k) % Word => Counters' /\ Count' = Count - k
  BY <1>1, <1>2, CountAfterRead
<1>5. nread' = nread => Counters' /\ Count' = Count
  BY <1>1 DEF Counters, Count
<1> QED
  BY <1>2, <1>3, <1>4, <1>5 DEF k

\* piperead sleeps only on an empty pipe; a read that takes bytes wakes every
\* writer.
LEMMA PipeReadKeeps ==
    ASSUME NEW p \in Procs, NEW n \in Reads, PipeInv, PipeRead(p, n)
    PROVE  PipeInv'
<1> USE Channels
<1>0. /\ state[p] = "RUNNABLE" /\ pc[p] \in {"user", "read"} /\ "r" \in ofile[p]
      /\ UNCHANGED <<parent, pid, killed, np, ofile, ref, opened, data, nwrite, todo>>
      /\ ProcInv
  BY DEF PipeRead, InUser, Running, PipeInv, ReaderInv
<1>1. Counters'
  BY PipeReadFacts
<1>2. \/ /\ nread' = nread
         /\ pc' = [pc EXCEPT ![p] = "user"]
         /\ UNCHANGED <<state, chan>>
      \/ /\ "w" \in opened
         /\ Sleep(p, NReadChan)
         /\ pc' = [pc EXCEPT ![p] = "read"]
         /\ nread' = nread
      \/ /\ Wakeup(NWriteChan)
         /\ pc' = [pc EXCEPT ![p] = "user"]
  BY DEF PipeRead
<1>3. PipeTypes' /\ PipeHeld'
  BY <1>0, ZenonT(30) DEF PipeInv, PipeTypes, PipeHeld
<1>4. CASE /\ nread' = nread
           /\ pc' = [pc EXCEPT ![p] = "user"]
           /\ UNCHANGED <<state, chan>>
  <2>1. CallOf(p)
    BY <1>0, <1>4 DEF CallOf, ProcInv, ProcTypes, Places
  <2>2. ProcInv'
    BY <1>0, <2>1, CallKeeps
  <2>3. HoldInv' /\ ReaderInv'
    BY <1>0, <1>4 DEF PipeInv, HoldInv, ReaderInv, ProcInv, ProcTypes
  <2>4. WritersSleepFull'
    BY <1>0, <1>4 DEF PipeInv, WritersSleepFull, Count
  <2> QED
    BY <1>1, <1>3, <2>2, <2>3, <2>4 DEF PipeInv
<1>5. CASE /\ "w" \in opened
           /\ Sleep(p, NReadChan)
           /\ pc' = [pc EXCEPT ![p] = "read"]
           /\ nread' = nread
  <2>1. /\ state' \in [Procs -> States] /\ chan' \in [Procs -> Int]
        /\ state'[p] = "SLEEPING" /\ chan'[p] = NReadChan
        /\ \A q \in Procs \ {p} : state'[q] = state[q] /\ chan'[q] = chan[q]
    BY <1>0, <1>5, SleepAlone
  <2>2. ProcInv'
    <3>1. CallOf(p)
      BY <1>0, <1>5, <2>1 DEF CallOf, ProcInv, ProcTypes, Places
    <3> QED
      BY <1>0, <3>1, CallKeeps
  <2>3. HoldInv' /\ ReaderInv'
    BY <1>0, <1>5, <2>1 DEF PipeInv, HoldInv, ReaderInv, ProcInv, ProcTypes, Live
  <2>4. WritersSleepFull'
    BY <1>0, <1>5, <2>1 DEF PipeInv, WritersSleepFull, Count
  <2> QED
    BY <1>1, <1>3, <2>2, <2>3, <2>4 DEF PipeInv
<1>6. CASE /\ Wakeup(NWriteChan)
           /\ pc' = [pc EXCEPT ![p] = "user"]
  <2>1. /\ state' \in [Procs -> States] /\ chan' \in [Procs -> Int]
        /\ \A q \in Procs :
              IF state[q] = "SLEEPING" /\ chan[q] = NWriteChan
              THEN state'[q] = "RUNNABLE" /\ chan'[q] = NoChan
              ELSE state'[q] = state[q] /\ chan'[q] = chan[q]
    BY <1>0, <1>6, WakeupEffect
  <2>2. ProcInv'
    <3>1. CallOf(p)
      BY <1>0, <1>6, <2>1 DEF CallOf, ProcInv, ProcTypes, Places
    <3> QED
      BY <1>0, <3>1, CallKeeps
  <2>3. HoldInv' /\ ReaderInv'
    BY <1>0, <1>6, <2>1 DEF PipeInv, HoldInv, ReaderInv, ProcInv, ProcTypes, Live
  <2>4. WritersSleepFull'
    BY <2>1 DEF WritersSleepFull
  <2> QED
    BY <1>1, <1>3, <2>2, <2>3, <2>4 DEF PipeInv
<1> QED
  BY <1>2, <1>4, <1>5, <1>6

-----------------------------------------------------------------------------
(* The theorems.                                                           *)

\* Every step keeps the invariant, one case per action.
LEMMA PipeNextInv == PipeInv /\ [PipeNext]_<<procVars, pipeVars>> => PipeInv'
<1> SUFFICES ASSUME PipeInv, [PipeNext]_<<procVars, pipeVars>> PROVE PipeInv'
  OBVIOUS
<1>1. ASSUME NEW p \in Procs, PipeQuiet(p) PROVE PipeInv'
  BY <1>1, ForkAllocPipe, ForkFailPipe, ExitCallPipe, WaitPipe DEF PipeQuiet
<1>2. ASSUME NEW p \in Procs, PipeFork(p) PROVE PipeInv'
  BY <1>2, PipeForkKeeps
<1>3. ASSUME NEW p \in Procs, UserCalls(p) PROVE PipeInv'
  <2>1. CASE SysPipe(p)
    BY <2>1, SysPipeKeeps
  <2>2. CASE Close(p)
    <3>1. PICK f \in ofile[p] : FileClose(p, f)
      BY <2>2 DEF Close
    <3>2. f \in Ends /\ (Running(p, "user") \/ Running(p, "exit"))
      BY <2>2, <3>1 DEF Close, InUser, PipeInv, PipeTypes
    <3> QED
      BY <3>1, <3>2, CloseKeeps
  <2>3. CASE WriteCall(p)
    BY <2>3, WriteCallKeeps
  <2>4. CASE PipeWrite(p)
    BY <2>4, PipeWriteKeeps
  <2>5. CASE PipeExit(p)
    BY <2>5, ExitZombiePipe
  <2>6. CASE \E n \in Reads : PipeRead(p, n)
    BY <2>6, PipeReadKeeps
  <2> QED
    BY <1>3, <2>1, <2>2, <2>3, <2>4, <2>5, <2>6 DEF UserCalls
<1>4. CASE PipeKill
  BY <1>4, KillPipe
<1>5. CASE UNCHANGED <<procVars, pipeVars>>
  <2>1. ProcInv'
    BY <1>5 DEF procVars, PipeInv, ProcInv, ProcTypes, ChanInv, SlotInv, ForkInv,
       FamilyInv, ParentAlive, NoLostExit, Children, Zombies
  <2>2. QuietCall
    BY <1>5 DEF procVars, QuietCall
  <2> QED
    BY <1>5, <2>1, <2>2, QuietKeeps
<1> QED
  BY <1>1, <1>2, <1>3, <1>4, <1>5 DEF PipeNext

\* The invariant behind the theorems below: the counts of the ends (file.c), the
\* counters of the ring buffer and the sleepers on its two channels (pipe.c) fit
\* together in every state.
THEOREM PipeInvariant == PipeSpec => []PipeInv
  BY PipeInitInv, PipeNextInv, PTL DEF PipeSpec

\* Whoever is alive or a zombie has a live parent, in every order of forks,
\* exits and waits and with reused slots (proc.c, exit and wait).
THEOREM ParentsLive == PipeSpec => []ParentAlive
<1>1. PipeInv => ParentAlive
  BY DEF PipeInv, ProcInv
<1> QED
  BY <1>1, PipeInvariant, PTL

\* The references of the two struct files are their holders, and an end is open
\* exactly as long as somebody holds it (file.c, pipe.c).
THEOREM PipePageHeld == PipeSpec => []PipeHeld
<1>1. PipeInv => PipeHeld
  BY DEF PipeInv
<1> QED
  BY <1>1, PipeInvariant, PTL

\* The types of both components, and the bound on the wrapping counters.
THEOREM PipeTyped == PipeSpec => [](ProcTypeOK /\ PipeTypeOK)
<1>1. PipeInv => ProcTypeOK /\ PipeTypeOK
  BY ProcInvTypeOK DEF PipeInv, PipeTypes, Counters, PipeTypeOK
<1> QED
  BY <1>1, PipeInvariant, PTL

\* No wakeup is lost in wait() and in pipewrite(): whoever sleeps there still
\* has something to wait for, and no kill pending.
THEOREM PipeSleepersWait == PipeSpec => [](NoLostExit /\ WritersSleepFull)
<1>1. PipeInv => NoLostExit /\ WritersSleepFull
  BY DEF PipeInv, ProcInv
<1> QED
  BY <1>1, PipeInvariant, PTL

\* The step by which a sleeping reader is passed over is that of a killed writer.
LEMMA ReadersStep ==
    ASSUME PipeInv, [PipeNext]_<<procVars, pipeVars>>, NEW p \in Procs,
           state[p] = "SLEEPING", chan[p] = NReadChan,
           Count' # 0 \/ "w" \notin opened', state'[p] = "SLEEPING", Count = 0
    PROVE  \E q \in Procs : /\ pc[q] = "write" /\ killed[q]
                             /\ pc'[q] = "user" /\ Count' = PIPESIZE
<1>1. /\ state[p] = "SLEEPING" /\ chan[p] = NReadChan /\ state'[p] = "SLEEPING"
      /\ "w" \in opened /\ "r" \in ofile[p] /\ ProcInv
  BY DEF PipeInv, ReaderInv
<1>2. "r" \in opened
  <2>1. "r" \in Ends
    BY DEF Ends
  <2>2. ref["r"] = Cardinality(HoldersOf("r")) /\ ("r" \in opened <=> ref["r"] > 0)
        /\ p \in HoldersOf("r") /\ ref["r"] \in Nat
    BY <1>1, <2>1 DEF PipeInv, PipeHeld, PipeTypes, HoldersOf
  <2> QED
    BY <2>2, HoldersFinite, FS_EmptySet
<1>3. ~UNCHANGED <<opened, nread, nwrite>>
  BY <1>1 DEF Count
<1>4. PICK q \in Procs : SysPipe(q) \/ Close(q) \/ PipeWrite(q)
                         \/ \E n \in Reads : PipeRead(q, n)
  BY <1>3 DEF PipeNext, PipeQuiet, PipeFork, PipeKill, UserCalls, WriteCall,
     PipeExit, pipeVars
<1>5. ~SysPipe(q)
  BY <1>1 DEF SysPipe
<1>6. ~Close(q)
  <2> SUFFICES ASSUME NEW f \in ofile[q], FileClose(q, f) PROVE FALSE
    BY DEF Close
  <2>1. opened' # opened
    BY <1>3 DEF FileClose
  <2>2. PipeClose(f) /\ UNCHANGED <<nread, nwrite>>
    BY <2>1 DEF FileClose
  <2>3. f = "w"
    BY <1>1, <2>2 DEF PipeClose, Count
  <2> QED
    BY <1>1, <2>2, <2>3, WakeupEffect DEF PipeClose
<1>7. ~(\E n \in Reads : PipeRead(q, n))
  <2> SUFFICES ASSUME NEW n \in Reads, PipeRead(q, n) PROVE FALSE
    OBVIOUS
  <2>1. Count' = 0
    BY PipeReadFacts
  <2>2. opened' = opened
    BY DEF PipeRead
  <2> QED
    BY <1>1, <2>1, <2>2
<1>8. CASE PipeWrite(q)
  <2> DEFINE k == Least(Room, Len(todo[q]))
             rest == SubSeq(todo[q], k + 1, Len(todo[q]))
  <2>1. state[q] = "RUNNABLE" /\ pc[q] = "write" /\ q # p
    BY <1>1, <1>8 DEF PipeWrite, Running
  <2>2. rest # <<>> => Count' = PIPESIZE
    BY <1>8, PipeWriteFacts
  <2>3. \/ Wakeup(NReadChan)
        \/ rest # <<>> /\ killed[q] /\ pc' = [pc EXCEPT ![q] = "user"]
        \/ SleepFrom(Woken(state, NReadChan), q, NWriteChan)
    BY <1>2, <1>8 DEF PipeWrite
  <2> HIDE DEF k, rest
  <2>4. ~Wakeup(NReadChan)
    BY <1>1, WakeupEffect
  <2>5. ~SleepFrom(Woken(state, NReadChan), q, NWriteChan)
    BY <1>1, <2>1, SleepEffect, Channels
  <2>6. pc'[q] = "user"
    BY <1>1, <2>3, <2>4, <2>5 DEF ProcInv, ProcTypes
  <2> QED
    BY <2>1, <2>2, <2>3, <2>4, <2>5, <2>6
<1> QED
  BY <1>4, <1>5, <1>6, <1>7, <1>8

\* A reader asleep on an empty pipe is woken by whoever fills it or closes the
\* last write end, but for a killed writer that finds the pipe full (pipe.c,
\* pipewrite).
THEOREM SleepingReadersWoken == PipeSpec => ReadersWoken
<1>1. PipeInv /\ [PipeNext]_<<procVars, pipeVars>> =>
        [\A p \in Procs :
          /\ state[p] = "SLEEPING" /\ chan[p] = NReadChan
          /\ Count' # 0 \/ "w" \notin opened'
          /\ state'[p] = "SLEEPING"
          => \/ Count # 0
             \/ \E q \in Procs : /\ pc[q] = "write" /\ killed[q]
                                 /\ pc'[q] = "user" /\ Count' = PIPESIZE
        ]_<<procVars, pipeVars>>
  BY ReadersStep
<1> QED
  BY <1>1, PipeInvariant, PTL DEF PipeSpec, ReadersWoken

-----------------------------------------------------------------------------
(* The ring is a queue.                                                    *)

\* Wrapping a counter does not move its place in the ring: PIPESIZE divides the
\* number of values of a uint.
LEMMA RingIndex ==
    ASSUME NEW a \in Int, NEW b, b = a \/ b = a - Word
    PROVE  b % PIPESIZE = a % PIPESIZE
<1> DEFINE d == Word \div PIPESIZE
<1>1. d \in Int /\ Word = PIPESIZE * d
  <2>1. Word = PIPESIZE * (Word \div PIPESIZE) + (Word % PIPESIZE) /\ d \in Int
    BY Remainder, Widths
  <2>2. Word % PIPESIZE = 0
    BY PipeAssumption
  <2> QED
    BY <2>1, <2>2, Widths
<1> HIDE DEF d
<1>2. (a - PIPESIZE * d) % PIPESIZE = a % PIPESIZE
  BY <1>1, Widths, RemainderShift
<1> QED
  BY <1>1, <1>2

\* The bytes in the pipe are a sequence of length Count.
QueueForm ==
    /\ Contents \in Seq(Nat) /\ Len(Contents) = Count
    /\ \A i \in 1..Count : Contents[i] = data[(nread + i - 1) % PIPESIZE]

\* That follows from the invariant.
LEMMA ContentsSeq == PipeInv => QueueForm
<1> SUFFICES ASSUME PipeTypes, Counters PROVE QueueForm
  BY DEF PipeInv
<1> USE Widths
<1>1. Count \in Nat /\ nread \in Nat
  BY CountIs DEF Counters
<1>2. ASSUME NEW i \in 1..Count PROVE data[(nread + i - 1) % PIPESIZE] \in Nat
  <2>1. nread + i - 1 \in Int
    BY <1>1
  <2>2. (nread + i - 1) % PIPESIZE \in 0..PIPESIZE - 1
    BY <2>1, Remainder
  <2> QED
    BY <2>2 DEF PipeTypes
<1>3. Contents \in [1..Count -> Nat]
  BY <1>2 DEF Contents
<1>4. Contents \in Seq(Nat)
  BY <1>1, <1>3
<1>5. Len(Contents) = Count
  BY <1>1, <1>3, <1>4, LenProperties
<1> QED
  BY <1>4, <1>5 DEF Contents, QueueForm

\* The same of the next state.
LEMMA ContentsSeqNext == PipeInv' => QueueForm'
  BY ContentsSeq, PTL

\* A section of pipewrite appends the bytes that it copies.
LEMMA WriteAppends ==
    ASSUME NEW p \in Procs, PipeInv, PipeInv', PipeWrite(p)
    PROVE  Contents' = Contents \o SubSeq(todo[p], 1, Least(Room, Len(todo[p])))
<1> USE Widths
<1> DEFINE k == Least(Room, Len(todo[p]))
           head == SubSeq(todo[p], 1, k)
           c == Count
<1>1. /\ k \in 0..PIPESIZE - c /\ head \in Seq(Nat) /\ Len(head) = k /\ CopyIn(head)
      /\ Count' = c + k /\ nread' = nread
  BY PipeWriteFacts DEF PipeWrite
<1>2. /\ Contents \in Seq(Nat) /\ Len(Contents) = c
      /\ \A i \in 1..c : Contents[i] = data[(nread + i - 1) % PIPESIZE]
  BY ContentsSeq DEF QueueForm
<1>3. /\ Contents' \in Seq(Nat) /\ Len(Contents') = c + k
      /\ \A i \in 1..c + k : Contents'[i] = data'[(nread + i - 1) % PIPESIZE]
  <2>1. /\ Contents' \in Seq(Nat) /\ Len(Contents') = Count'
        /\ \A i \in 1..Count' : Contents'[i] = data'[(nread' + i - 1) % PIPESIZE]
    BY ContentsSeqNext DEF QueueForm
  <2> QED
    BY <1>1, <2>1
<1>4. /\ nread \in Nat /\ nwrite \in Nat /\ c \in 0..PIPESIZE
      /\ nwrite = nread + c \/ nwrite = nread + c - Word
  BY CountIs DEF PipeInv, Counters
<1> HIDE DEF k, head, c
<1>5. k \in Nat /\ c \in Nat /\ c + k <= PIPESIZE
  BY <1>1, <1>4
<1>6. ASSUME NEW j \in 1..k
      PROVE  (nwrite + j - 1) % PIPESIZE = (nread + c + j - 1) % PIPESIZE
  <2>1. nread + c + j - 1 \in Int
    BY <1>4, <1>5
  <2>2. \/ nwrite + j - 1 = nread + c + j - 1
        \/ nwrite + j - 1 = (nread + c + j - 1) - Word
    BY <1>4, <1>5
  <2> QED
    BY <2>1, <2>2, RingIndex
<1>7. /\ \A j \in 1..k : data'[(nwrite + j - 1) % PIPESIZE] = head[j]
      /\ \A i \in 0..PIPESIZE - 1 :
            (\A j \in 1..k : (nwrite + j - 1) % PIPESIZE # i) => data'[i] = data[i]
  <2>1. PipeTypes /\ nwrite \in 0..Word - 1 /\ Len(head) <= PIPESIZE
    BY <1>1, <1>5 DEF PipeInv, Counters
  <2> QED
    BY <1>1, <2>1, CopyInEffect
<1>8. ASSUME NEW i \in 1..c PROVE Contents'[i] = Contents[i]
  <2>1. (nread + i - 1) % PIPESIZE \in 0..PIPESIZE - 1 /\ nread + i - 1 \in Int
    BY <1>4, <1>5, Remainder
  <2>2. ASSUME NEW j \in 1..k
        PROVE  (nwrite + j - 1) % PIPESIZE # (nread + i - 1) % PIPESIZE
    <3>1. /\ nread + c + j - 1 \in Int
          /\ nread + i - 1 < nread + c + j - 1
          /\ nread + c + j - 1 < (nread + i - 1) + PIPESIZE
      BY <1>4, <1>5
    <3>2. (nread + i - 1) % PIPESIZE # (nread + c + j - 1) % PIPESIZE
      BY <2>1, <3>1, RemainderInjective
    <3> QED
      BY <1>6, <3>2
  <2>3. data'[(nread + i - 1) % PIPESIZE] = data[(nread + i - 1) % PIPESIZE]
    BY <1>7, <2>1, <2>2
  <2> QED
    BY <1>2, <1>3, <1>5, <2>3, SMTT(20)
<1>9. ASSUME NEW j \in 1..k PROVE Contents'[c + j] = head[j]
  <2>1. c + j \in 1..c + k /\ nread + (c + j) - 1 = nread + c + j - 1
    BY <1>4, <1>5
  <2> QED
    BY <1>3, <1>6, <1>7, <2>1
<1>10. /\ Contents \o head \in Seq(Nat) /\ Len(Contents \o head) = c + k
       /\ \A i \in 1..c + k : (Contents \o head)[i] =
             IF i <= c THEN Contents[i] ELSE head[i - c]
  BY <1>1, <1>2, ConcatProperties
<1>11. ASSUME NEW i \in 1..c + k PROVE Contents'[i] = (Contents \o head)[i]
  <2>1. CASE i <= c
    BY <1>5, <1>8, <1>10, <2>1
  <2>2. CASE i > c
    <3>1. i - c \in 1..k /\ c + (i - c) = i
      BY <1>5, <2>2
    <3>2. Contents'[i] = head[i - c]
      BY <1>9, <3>1
    <3> QED
      BY <1>5, <1>10, <2>2, <3>2
  <2>3. i <= c \/ i > c
    BY <1>5
  <2> QED
    BY <2>1, <2>2, <2>3
<1>12. Contents' = Contents \o head
  BY <1>3, <1>10, <1>11, SeqEqual
<1> QED
  BY <1>12 DEF head, k

\* A section of piperead takes its bytes from the front.
LEMMA ReadTakes ==
    ASSUME NEW k \in 0..Count, PipeInv, PipeInv',
           nread' = (nread + k) % Word, Count' = Count - k, data' = data
    PROVE  Contents' = SubSeq(Contents, k + 1, Len(Contents))
<1> USE Widths
<1> DEFINE c == Count
<1>1. /\ Contents \in Seq(Nat) /\ Len(Contents) = c
      /\ \A i \in 1..c : Contents[i] = data[(nread + i - 1) % PIPESIZE]
  BY ContentsSeq DEF QueueForm
<1>2. /\ Contents' \in Seq(Nat) /\ Len(Contents') = c - k
      /\ \A i \in 1..c - k : Contents'[i] = data[(nread' + i - 1) % PIPESIZE]
  <2>1. /\ Contents' \in Seq(Nat) /\ Len(Contents') = Count'
        /\ \A i \in 1..Count' : Contents'[i] = data'[(nread' + i - 1) % PIPESIZE]
    BY ContentsSeqNext DEF QueueForm
  <2> QED
    BY <2>1
<1>3. nread \in 0..Word - 1 /\ c \in 0..PIPESIZE /\ k \in 0..c
  BY CountIs DEF PipeInv, Counters
<1> HIDE DEF c
<1>4. nread' = nread + k \/ nread' = nread + k - Word
  <2>1. nread + k \in Int /\ -Word <= nread + k /\ nread + k < 2 * Word
    BY <1>3
  <2> QED
    BY <1>3, <2>1, Wrap
<1>5. ASSUME NEW i \in 1..c - k
      PROVE  Contents'[i] = Contents[k + i]
  <2>1. nread + k + i - 1 \in Int /\ k + i \in 1..c /\ nread + (k + i) - 1 = nread + k + i - 1
    BY <1>3
  <2>2. \/ nread' + i - 1 = nread + k + i - 1
        \/ nread' + i - 1 = (nread + k + i - 1) - Word
    BY <1>3, <1>4
  <2>3. (nread' + i - 1) % PIPESIZE = (nread + k + i - 1) % PIPESIZE
    BY <2>1, <2>2, RingIndex
  <2>4. Contents'[i] = data[(nread' + i - 1) % PIPESIZE]
    BY <1>2
  <2>5. Contents[k + i] = data[(nread + (k + i) - 1) % PIPESIZE]
    BY <1>1, <2>1
  <2> QED
    BY <2>1, <2>3, <2>4, <2>5
<1>6. /\ SubSeq(Contents, k + 1, c) \in Seq(Nat)
      /\ Len(SubSeq(Contents, k + 1, c)) = c - k
      /\ \A i \in 1..c - k : SubSeq(Contents, k + 1, c)[i] = Contents[k + i]
  <2>1. \A i \in k + 1..c : Contents[i] \in Nat
    BY <1>1, <1>3, ElementOfSeq
  <2>2. k + 1 \in Int /\ c \in Int /\ c - (k + 1) + 1 = c - k
        /\ \A i \in Int : (k + 1) + i - 1 = k + i
    BY <1>3
  <2>3. /\ SubSeq(Contents, k + 1, c) \in Seq(Nat)
        /\ Len(SubSeq(Contents, k + 1, c)) = IF k + 1 <= c THEN c - (k + 1) + 1 ELSE 0
        /\ \A i \in 1..c - (k + 1) + 1 :
              SubSeq(Contents, k + 1, c)[i] = Contents[(k + 1) + i - 1]
    BY <2>1, <2>2, SubSeqProperties
  <2> QED
    BY <1>3, <2>2, <2>3
<1>7. Contents' = SubSeq(Contents, k + 1, c)
  BY <1>2, <1>5, <1>6, SeqEqual
<1> QED
  BY <1>1, <1>7

\* At boot the ring is the empty queue.
LEMMA FifoInitial == ProcInit /\ PipeInit => F!FifoInit
<1> SUFFICES ASSUME ProcInit, PipeInit PROVE F!FifoInit
  OBVIOUS
<1>1. Count = 0
  BY Widths, Wrap DEF PipeInit, Count
<1>2. QueueForm
  BY PipeInitInv, ContentsSeq
<1>3. Contents = <<>>
  BY <1>1, <1>2 DEF QueueForm
<1> QED
  BY <1>3 DEF F!FifoInit, PipeInit

\* A section of pipewrite hands over a portion, a section of piperead takes a
\* prefix, pipealloc empties the queue, and no other call touches it.
LEMMA FifoSteps ==
    ASSUME PipeInv, PipeInv', [PipeNext]_<<procVars, pipeVars>>
    PROVE  [F!FifoNext]_F!fifoVars
<1>1. QueueForm /\ QueueForm' /\ Count \in Nat
  BY ContentsSeq, ContentsSeqNext, CountIs, Widths DEF PipeInv
<1>2. ASSUME UNCHANGED <<data, nread, nwrite, todo>>
      PROVE  UNCHANGED F!fifoVars
  BY <1>2 DEF F!fifoVars, Contents, Count
<1>3. ASSUME NEW p \in Procs, SysPipe(p) PROVE F!Get
  <2>1. Count' = 0
    BY <1>3, Widths, Wrap DEF SysPipe, Count
  <2>2. Contents' = <<>> /\ Len(Contents) \in Nat
    BY <1>1, <2>1 DEF QueueForm
  <2>3. SubSeq(Contents, Len(Contents) + 1, Len(Contents)) = <<>>
    BY <2>2, SubSeqEmpty
  <2> QED
    BY <1>3, <2>2, <2>3 DEF F!Get, SysPipe
<1>4. ASSUME NEW p \in Procs, WriteCall(p) PROVE F!Begin(p)
  <2>1. todo[p] = <<>>
    BY <1>4 DEF WriteCall, InUser, Running, PipeInv, HoldInv
  <2>2. Contents' = Contents
    BY <1>4 DEF WriteCall, Contents, Count
  <2> QED
    BY <1>4, <2>1, <2>2 DEF F!Begin, WriteCall
<1>5. ASSUME NEW p \in Procs, PipeWrite(p) PROVE F!Put(p)
  <2> DEFINE k == Least(Room, Len(todo[p]))
  <2>1. k \in 0..Len(todo[p]) /\ k \in 0..PIPESIZE - Count
    BY <1>5, PipeWriteFacts
  <2>2. Contents' = Contents \o SubSeq(todo[p], 1, k)
    BY <1>5, WriteAppends
  <2>3. \/ todo' = [todo EXCEPT ![p] = SubSeq(todo[p], k + 1, Len(todo[p]))]
        \/ todo' = [todo EXCEPT ![p] = <<>>]
    BY <1>5 DEF PipeWrite
  <2> HIDE DEF k
  <2>4. Len(Contents) + k <= PIPESIZE
    BY <1>1, <2>1, Widths DEF QueueForm
  <2> QED
    BY <2>1, <2>2, <2>3, <2>4 DEF F!Put
<1>6. ASSUME NEW p \in Procs, NEW n \in Reads, PipeRead(p, n) PROVE F!Get
  <2> DEFINE k == Least(n, Count)
  <2>1. /\ k \in 0..Count /\ data' = data /\ todo' = todo /\ nwrite' = nwrite
        /\ nread' = (nread + k) % Word => Count' = Count - k
        /\ nread' = (nread + k) % Word \/ nread' = nread
    BY <1>6, PipeReadFacts DEF PipeRead
  <2> HIDE DEF k
  <2>2. Contents \in Seq(Nat) /\ Len(Contents) = Count
    BY <1>1 DEF QueueForm
  <2>3. CASE nread' = (nread + k) % Word
    <3>1. Contents' = SubSeq(Contents, k + 1, Len(Contents))
      BY <2>1, <2>3, ReadTakes
    <3> QED
      BY <2>1, <2>2, <3>1 DEF F!Get
  <2>4. CASE nread' = nread
    <3>1. Contents' = Contents
      BY <2>1, <2>4 DEF Contents, Count
    <3>2. SubSeq(Contents, 0 + 1, Len(Contents)) = Contents
      BY <2>2, SubSeqFull
    <3>3. 0 \in 0..Len(Contents)
      BY <1>1, <2>2
    <3> QED
      BY <2>1, <3>1, <3>2, <3>3 DEF F!Get
  <2> QED
    BY <2>1, <2>3, <2>4
<1>7. CASE UNCHANGED <<data, nread, nwrite, todo>>
  BY <1>2, <1>7
<1>8. CASE ~UNCHANGED <<data, nread, nwrite, todo>>
  <2>1. PICK p \in Procs : SysPipe(p) \/ WriteCall(p) \/ PipeWrite(p)
                           \/ \E n \in Reads : PipeRead(p, n)
    BY <1>8 DEF PipeNext, PipeQuiet, PipeFork, PipeKill, UserCalls, Close,
       FileClose, PipeExit, pipeVars
  <2> QED
    BY <1>3, <1>4, <1>5, <1>6, <2>1 DEF F!FifoNext
<1> QED
  BY <1>7, <1>8

\* The pipe of pipe.c implements the bounded queue of bytes.
THEOREM PipeImplementsFifo == PipeSpec => PipeIsFifo
  BY FifoInitial, FifoSteps, PipeInvariant, PTL DEF PipeSpec, PipeIsFifo, F!FifoSpec
=============================================================================

----------------------------- MODULE KernelProofs -----------------------------
(***************************************************************************)
(* Proofs about the console (Console), the memory of processes (Memory) and *)
(* the three workloads of MCKernel, for any number of processes and any     *)
(* sizes.                                                                   *)
(***************************************************************************)
EXTENDS MCKernel, PipeProofs

-----------------------------------------------------------------------------
(* Process calls and the channels of other components.                     *)

\* A step that puts nobody to sleep on c and leaves those who sleep there as
\* they are.
NoneJoins(c) ==
    \A q \in Procs : state'[q] = "SLEEPING" /\ chan'[q] = c =>
        state[q] = "SLEEPING" /\ chan[q] = c /\ killed'[q] = killed[q]

\* A step that takes nobody alive out of a call, and nobody into it.
Stays(where) ==
    \A q \in Procs :
        /\ pc[q] = where /\ state[q] \in Live => pc'[q] = where /\ state'[q] \in Live
        /\ pc'[q] = where => pc[q] = where

\* A step that leaves alone whoever sleeps.
SleepersStay == \A q \in Procs : state[q] = "SLEEPING" => pc'[q] = pc[q]

\* A step that has nothing to do with the pipe.
NotOfPipe ==
    /\ SleepersStay
    /\ Stays("write") /\ Stays("read")
    /\ NoneJoins(NReadChan) /\ NoneJoins(NWriteChan)

\* A step that has nothing to do with the console.
NotOfConsole == NoneJoins(InputChan) /\ Stays("consoleread")

\* The calls that Process knows of.
ProcPlaces == {"user", "fork", "exit", "wait"}

\* The steps of Process.
ProcCall(p) ==
    \/ ForkAlloc(p) \/ ForkFail(p) \/ ForkReturn(p) \/ ExitCall(p)
    \/ ExitZombie(p) \/ Wait(p) \/ Kill(p)

\* fork, exit, wait and kill keep the process table in order, and put a process
\* to sleep on nothing but its own proc structure.
LEMMA ProcCallKeeps ==
    ASSUME NEW p \in Procs, ProcInv, ProcCall(p),
           NEW c, c \notin Procs \cup {NoChan}
    PROVE  ProcInv' /\ NoneJoins(c)
<1>1. ProcInv'
  BY ForkAllocKeeps, ForkFailKeeps, ForkReturnKeeps, ExitCallKeeps, ExitZombieKeeps,
     WaitKeeps, KillKeeps DEF ProcCall
<1> SUFFICES NoneJoins(c)
  BY <1>1
<1>2. CASE ForkAlloc(p) \/ ForkFail(p) \/ ForkReturn(p)
  <2>1. killed' = killed /\ chan' = chan
    BY <1>2 DEF ForkAlloc, ForkFail, ForkReturn
  <2>2. \A q \in Procs : chan'[q] = c => chan'[q] # NoChan
    OBVIOUS
  <2>3. \A q \in Procs : chan[q] # NoChan => state[q] = "SLEEPING"
    BY DEF ProcInv, ChanInv
  <2> QED
    BY <1>1, <2>1, <2>2, <2>3 DEF NoneJoins
<1>3. CASE ExitCall(p)
  BY <1>3 DEF ExitCall, NoneJoins
<1>4. CASE ExitZombie(p)
  <2>1. killed' = killed /\ \A q \in Procs : chan'[q] # NoChan => chan'[q] = chan[q]
    BY <1>4 DEF ExitZombie, Tidy
  <2>2. \A q \in Procs : chan[q] # NoChan => state[q] = "SLEEPING"
    BY DEF ProcInv, ChanInv
  <2> QED
    BY <2>1, <2>2 DEF NoneJoins
<1>5. CASE Wait(p)
  <2>0. state[p] = "RUNNABLE"
    BY <1>5 DEF Wait, InUser, Running
  <2>1. CASE Zombies(p) # {}
    <3>1. /\ Lowest(Zombies(p)) \in Procs /\ state[Lowest(Zombies(p))] = "ZOMBIE"
      BY <2>1, ZombieFacts
    <3> QED
      BY <1>5, <2>1, <3>1 DEF Wait, NoneJoins, ProcInv, ProcTypes
  <2>2. CASE UNCHANGED <<state, killed, chan>>
    BY <2>2 DEF NoneJoins
  <2>3. CASE Sleep(p, p) /\ UNCHANGED killed
    <3>1. /\ state'[p] = "SLEEPING" /\ chan'[p] = p
          /\ \A q \in Procs \ {p} : state'[q] = state[q] /\ chan'[q] = chan[q]
      BY <2>0, <2>3, SleepAlone, InitProcIsProc
    <3> QED
      BY <2>3, <3>1 DEF NoneJoins
  <2> QED
    BY <1>5, <2>1, <2>2, <2>3 DEF Wait
<1>6. CASE Kill(p)
  <2>1. /\ killed' = [killed EXCEPT ![p] = TRUE] /\ state'[p] # "SLEEPING"
        /\ \A q \in Procs : state'[q] = "SLEEPING" => state[q] = "SLEEPING" /\ chan'[q] = chan[q]
    BY <1>6 DEF Kill, Tidy, ProcInv, ProcTypes
  <2> QED
    BY <2>1 DEF NoneJoins, ProcInv, ProcTypes
<1> QED
  BY <1>1, <1>2, <1>3, <1>4, <1>5, <1>6 DEF ProcCall

\* fork, exit, wait and kill leave alone whoever is inside another call.
LEMMA ProcCallStays ==
    ASSUME NEW p \in Procs, ProcInv, ProcCall(p), NEW where, where \notin ProcPlaces
    PROVE  Stays(where)
<1>0. pc \in [Procs -> Places] /\ state \in [Procs -> States]
  BY DEF ProcInv, ProcTypes
<1>1. CASE ForkAlloc(p)
  <2>1. Lowest(Free) \in Procs /\ state[Lowest(Free)] = "UNUSED"
    BY <1>1, LowestIn DEF ForkAlloc, Free
  <2> QED
    BY <1>0, <1>1, <2>1 DEF ForkAlloc, InUser, Running, Stays, ProcPlaces, Live
<1>2. CASE ForkFail(p)
  <2>1. np[p] \in Procs \ {p} /\ state[np[p]] = "EMBRYO"
    BY <1>2, EmbryoFacts DEF ForkFail
  <2> QED
    BY <1>0, <1>2, <2>1 DEF ForkFail, Running, Stays, ProcPlaces, Live
<1>3. CASE ForkReturn(p)
  <2>1. np[p] \in Procs \ {p} /\ state[np[p]] = "EMBRYO"
    BY <1>3, EmbryoFacts DEF ForkReturn
  <2> QED
    BY <1>0, <1>3, <2>1 DEF ForkReturn, Running, Stays, ProcPlaces, Live
<1>4. CASE ExitCall(p)
  BY <1>0, <1>4 DEF ExitCall, Running, Stays, ProcPlaces
<1>5. CASE ExitZombie(p)
  <2>1. pc[p] = "exit" /\ pc' = pc
    BY <1>5 DEF ExitZombie, Running
  <2>2. \A q \in Procs \ {p} : state[q] \in Live => state'[q] \in Live
    BY <1>0, <1>5 DEF ExitZombie, Woken, Live
  <2> QED
    BY <2>1, <2>2 DEF Stays, ProcPlaces
<1>6. CASE Wait(p)
  <2>0. state[p] = "RUNNABLE" /\ pc[p] \in {"user", "wait"}
    BY <1>6 DEF Wait, InUser, Running
  <2>1. CASE Zombies(p) # {}
    <3>1. Lowest(Zombies(p)) \in Procs /\ state[Lowest(Zombies(p))] = "ZOMBIE"
      BY <2>1, ZombieFacts
    <3> QED
      BY <1>0, <1>6, <2>0, <2>1, <3>1 DEF Wait, Stays, ProcPlaces, Live
  <2>2. CASE state' = state /\ pc' = [pc EXCEPT ![p] = "user"]
    BY <1>0, <2>0, <2>2 DEF Stays, ProcPlaces
  <2>3. CASE Sleep(p, p) /\ pc' = [pc EXCEPT ![p] = "wait"]
    <3>1. \A q \in Procs \ {p} : state'[q] = state[q]
      BY <2>0, <2>3, SleepAlone, InitProcIsProc
    <3> QED
      BY <1>0, <2>0, <2>3, <3>1 DEF Stays, ProcPlaces
  <2> QED
    BY <1>6, <2>1, <2>2, <2>3 DEF Wait
<1>7. CASE Kill(p)
  BY <1>0, <1>7 DEF Kill, Stays, Live
<1> QED
  BY <1>1, <1>2, <1>3, <1>4, <1>5, <1>6, <1>7 DEF ProcCall

\* fork, exit, wait and kill leave a sleeping process in its call.
LEMMA ProcCallSleepers ==
    ASSUME NEW p \in Procs, ProcInv, ProcCall(p)
    PROVE  SleepersStay
<1>0. pc \in [Procs -> Places] /\ state \in [Procs -> States]
  BY DEF ProcInv, ProcTypes
<1>1. CASE ForkReturn(p)
  <2>1. np[p] \in Procs \ {p} /\ state[np[p]] = "EMBRYO"
    BY <1>1, EmbryoFacts DEF ForkReturn
  <2> QED
    BY <1>0, <1>1, <2>1 DEF ForkReturn, Running, SleepersStay
<1>2. CASE ForkAlloc(p) \/ ForkFail(p) \/ ExitCall(p)
  BY <1>0, <1>2 DEF ForkAlloc, ForkFail, ExitCall, InUser, Running, SleepersStay
<1>3. CASE ExitZombie(p) \/ Kill(p)
  BY <1>3 DEF ExitZombie, Kill, SleepersStay
<1>4. CASE Wait(p)
  <2>1. state[p] = "RUNNABLE"
    BY <1>4 DEF Wait, InUser, Running
  <2>2. CASE Zombies(p) # {}
    <3>1. Lowest(Zombies(p)) \in Procs /\ state[Lowest(Zombies(p))] = "ZOMBIE"
      BY <2>2, ZombieFacts
    <3> QED
      BY <1>0, <1>4, <2>1, <2>2, <3>1 DEF Wait, SleepersStay
  <2>3. CASE Zombies(p) = {}
    BY <1>0, <1>4, <2>1, <2>3 DEF Wait, SleepersStay
  <2> QED
    BY <2>2, <2>3
<1> QED
  BY <1>1, <1>2, <1>3, <1>4 DEF ProcCall

-----------------------------------------------------------------------------
(* The ring of the console.                                                *)

\* The characters that are committed, those of the line, and both.
Ready == (input.w - input.r) % Uints
Line == (input.e - input.w) % Uints
Filled == (input.e - input.r) % Uints

\* The n-th character from r on.
Ring(n) == input.buf[(input.r + n - 1) % INPUT_BUF]

Stops == {NL, EOT}

ConsoleTypes ==
    /\ input \in [buf : [0..INPUT_BUF - 1 -> Chars], r : 0..Uints - 1,
                  w : 0..Uints - 1, e : 0..Uints - 1]
    /\ target \in [Procs -> Nat]
    /\ copied \in [Procs -> Nat]

\* What is being typed holds no newline and no ^D: they commit it.
LineInv == \A k \in 1..Line : Ring(Ready + k) \notin Stops

RingInv == ConsoleTypes /\ ConsoleTypeOK /\ LineInv

\* Only a live process is inside consoleread, and only there has it characters.
ReadCallInv ==
    \A p \in Procs : /\ pc[p] = "consoleread" => state[p] \in Live
                     /\ copied[p] # 0 => pc[p] = "consoleread"

ConsoleInv == RingInv /\ ReadersSleepEmpty /\ ReadCallInv

\* The buffer is smaller than the range of the indices.
LEMMA RingWidths ==
    /\ Uints \in Nat \ {0} /\ INPUT_BUF \in Nat \ {0} /\ INPUT_BUF < Uints
    /\ Uints % INPUT_BUF = 0
  BY ConsoleAssumption

\* The distance from a to b round the ring.
LEMMA DistanceIs ==
    ASSUME NEW a \in 0..Uints - 1, NEW b \in 0..Uints - 1
    PROVE  /\ (b - a) % Uints = IF a <= b THEN b - a ELSE b - a + Uints
           /\ (b - a) % Uints \in Nat /\ (b - a) % Uints < Uints
<1> USE RingWidths
<1>1. b - a \in Int /\ -Uints <= b - a /\ b - a < 2 * Uints
  OBVIOUS
<1>2. PICK m, d : m = Uints /\ d = b - a
  OBVIOUS
<1>3. d % m = IF d < 0 THEN d + m ELSE IF d < m THEN d ELSE d - m
  BY <1>1, <1>2, NearRange
<1>4. d % m = IF a <= b THEN b - a ELSE b - a + Uints
  BY <1>1, <1>2, <1>3
<1> QED
  BY <1>2, <1>4

\* The place k steps after a.
LEMMA StepsFrom ==
    ASSUME NEW a \in 0..Uints - 1, NEW k \in Nat, k <= Uints
    PROVE  /\ (a + k) % Uints = IF a + k < Uints THEN a + k ELSE a + k - Uints
           /\ (a + k) % Uints \in 0..Uints - 1
<1> USE RingWidths
<1>1. a + k \in Int /\ -Uints <= a + k /\ a + k < 2 * Uints
  OBVIOUS
<1>2. PICK m, d : m = Uints /\ d = a + k
  OBVIOUS
<1>3. d % m = IF d < 0 THEN d + m ELSE IF d < m THEN d ELSE d - m
  BY <1>1, <1>2, NearRange
<1>4. d % m = IF a + k < Uints THEN a + k ELSE a + k - Uints
  BY <1>1, <1>2, <1>3
<1> QED
  BY <1>2, <1>4

\* Where the indices stand, without %.
IndexPlaces ==
    /\ input.r \in 0..Uints - 1 /\ input.w \in 0..Uints - 1 /\ input.e \in 0..Uints - 1
    /\ Ready \in Nat /\ Line \in Nat /\ Filled \in Nat
    /\ Filled = Ready + Line /\ Filled <= INPUT_BUF
    /\ input.w = IF input.r + Ready < Uints THEN input.r + Ready
                 ELSE input.r + Ready - Uints
    /\ input.e = IF input.r + Filled < Uints THEN input.r + Filled
                 ELSE input.r + Filled - Uints

\* They stand so as long as they are in order.
LEMMA IndicesApart ==
    ASSUME ConsoleTypes, ConsoleTypeOK PROVE IndexPlaces
<1> USE RingWidths
<1>1. PICK r \in 0..Uints - 1, w \in 0..Uints - 1, e \in 0..Uints - 1 :
        r = input.r /\ w = input.w /\ e = input.e
  BY DEF ConsoleTypes
<1>2. PICK x \in Nat, y \in Nat, z \in Nat :
        /\ x = Ready /\ y = Line /\ z = Filled
        /\ x = IF r <= w THEN w - r ELSE w - r + Uints
        /\ y = IF w <= e THEN e - w ELSE e - w + Uints
        /\ z = IF r <= e THEN e - r ELSE e - r + Uints
  BY <1>1, DistanceIs, ZenonT(30) DEF Ready, Line, Filled
<1>3. x <= z /\ z <= INPUT_BUF
  BY <1>2 DEF ConsoleTypeOK, Ready, Filled
<1>4. z = x + y
  BY <1>2, <1>3
<1>5. w = IF r + x < Uints THEN r + x ELSE r + x - Uints
  BY <1>2, <1>3
<1>6. e = IF r + z < Uints THEN r + z ELSE r + z - Uints
  BY <1>2, <1>3
<1> QED
  BY <1>1, <1>2, <1>3, <1>4, <1>5, <1>6 DEF IndexPlaces

\* Wrapping an index does not move its place in the buffer.
LEMMA ConsoleIndex ==
    ASSUME NEW a \in Int, NEW b, b = a \/ b = a - Uints
    PROVE  b % INPUT_BUF = a % INPUT_BUF
<1> DEFINE d == Uints \div INPUT_BUF
<1>1. d \in Int /\ Uints = INPUT_BUF * d
  <2>1. Uints = INPUT_BUF * (Uints \div INPUT_BUF) + (Uints % INPUT_BUF) /\ d \in Int
    BY Remainder, RingWidths
  <2> QED
    BY <2>1, RingWidths
<1> HIDE DEF d
<1>2. (a - INPUT_BUF * d) % INPUT_BUF = a % INPUT_BUF
  BY <1>1, RingWidths, RemainderShift
<1> QED
  BY <1>1, <1>2

\* The characters from index i on, o places after r.
LEMMA SpanFrom ==
    ASSUME ConsoleTypes, NEW i \in 0..Uints - 1, NEW j \in 0..Uints - 1, NEW o \in Nat,
           i = input.r + o \/ i = input.r + o - Uints
    PROVE  /\ Span(i, j) \in Seq(Chars)
           /\ Len(Span(i, j)) = (j - i) % Uints
           /\ DOMAIN Span(i, j) = 1..(j - i) % Uints
           /\ \A k \in 1..(j - i) % Uints : Span(i, j)[k] = Ring(o + k)
<1> USE RingWidths
<1>1. input.r \in 0..Uints - 1 /\ input.buf \in [0..INPUT_BUF - 1 -> Chars]
  BY DEF ConsoleTypes
<1>2. PICK r, n : r = input.r /\ n = (j - i) % Uints
  OBVIOUS
<1>3. n \in Nat /\ n < Uints /\ r \in 0..Uints - 1
  BY <1>1, <1>2, DistanceIs
<1>4. ASSUME NEW k \in 1..n
      PROVE  /\ ((i + k - 1) % Uints) % INPUT_BUF = (r + (o + k) - 1) % INPUT_BUF
             /\ (r + (o + k) - 1) % INPUT_BUF \in 0..INPUT_BUF - 1
  <2>1. PICK h \in Nat : h = k - 1 /\ h <= Uints /\ i + k - 1 = i + h
                         /\ r + (o + k) - 1 = r + o + h
    BY <1>3
  <2>2. (i + h) % Uints = i + h \/ (i + h) % Uints = i + h - Uints
    BY <2>1, StepsFrom
  <2>3. ((i + h) % Uints) % INPUT_BUF = (i + h) % INPUT_BUF
    <3>1. PICK a, b : a = i + h /\ b = (i + h) % Uints
      OBVIOUS
    <3>2. a \in Int /\ (b = a \/ b = a - Uints)
      BY <2>1, <2>2, <3>1
    <3>3. b % INPUT_BUF = a % INPUT_BUF
      BY <3>2, ConsoleIndex
    <3> QED
      BY <3>1, <3>3
  <2>4. (i + h) % INPUT_BUF = (r + o + h) % INPUT_BUF
    <3>1. r + o + h \in Int /\ (i + h = r + o + h \/ i + h = (r + o + h) - Uints)
      BY <1>2, <1>3, <2>1
    <3> QED
      BY <3>1, ConsoleIndex
  <2>5. (r + o + h) % INPUT_BUF \in 0..INPUT_BUF - 1
    <3>1. r + o + h \in Int
      BY <1>3, <2>1
    <3> QED
      BY <3>1, Remainder
  <2> QED
    BY <2>1, <2>3, <2>4, <2>5
<1>5. Span(i, j) = [k \in 1..n |-> input.buf[((i + k - 1) % Uints) % INPUT_BUF]]
  BY <1>2 DEF Span
<1>6. \A k \in 1..n : Span(i, j)[k] = Ring(o + k) /\ Span(i, j)[k] \in Chars
  BY <1>1, <1>2, <1>4, <1>5 DEF Ring
<1>7. Span(i, j) \in [1..n -> Chars]
  BY <1>5, <1>6
<1>8. Span(i, j) \in Seq(Chars) /\ Len(Span(i, j)) = n
  BY <1>3, <1>7, LenProperties
<1> QED
  BY <1>2, <1>6, <1>7, <1>8

\* What is committed and what is being typed, as sequences.
SpanForm ==
    /\ Span(input.r, input.w) \in Seq(Chars) /\ Len(Span(input.r, input.w)) = Ready
    /\ \A k \in 1..Ready : Span(input.r, input.w)[k] = Ring(k)
    /\ Span(input.w, input.e) \in Seq(Chars) /\ Len(Span(input.w, input.e)) = Line
    /\ \A k \in 1..Line : Span(input.w, input.e)[k] = Ring(Ready + k)

\* They are what the ring holds.
LEMMA SpansInRing == RingInv => SpanForm
<1> SUFFICES ASSUME RingInv PROVE SpanForm
  OBVIOUS
<1>1. ConsoleTypes /\ IndexPlaces
  BY IndicesApart DEF RingInv
<1>2. PICK r \in 0..Uints - 1, w \in 0..Uints - 1, e \in 0..Uints - 1, x \in Nat :
        /\ r = input.r /\ w = input.w /\ e = input.e /\ x = Ready
        /\ w = r + x \/ w = r + x - Uints
  BY <1>1 DEF IndexPlaces
<1>3. r = r + 0 /\ 0 \in Nat
  BY RingWidths
<1>4. /\ Span(r, w) \in Seq(Chars) /\ Len(Span(r, w)) = (w - r) % Uints
      /\ \A k \in 1..(w - r) % Uints : Span(r, w)[k] = Ring(0 + k)
  BY <1>1, <1>2, <1>3, SpanFrom, ZenonT(30)
<1>5. /\ Span(w, e) \in Seq(Chars) /\ Len(Span(w, e)) = (e - w) % Uints
      /\ \A k \in 1..(e - w) % Uints : Span(w, e)[k] = Ring(x + k)
  BY <1>1, <1>2, SpanFrom, SMTT(20)
<1>6. \A k \in 1..Ready : 0 + k = k
  BY <1>2
<1> QED
  BY <1>2, <1>4, <1>5, <1>6 DEF SpanForm, Ready, Line

\* The same of the next state.
LEMMA SpansInRingNext == RingInv' => SpanForm'
  BY SpansInRing, PTL

-----------------------------------------------------------------------------
(* consoleintr.                                                            *)

\* A character goes to the place after the last one; a stop or the last place
\* commits the line.
TypedStep(c) ==
    /\ Filled < INPUT_BUF
    /\ input'.r = input.r /\ Filled' = Filled + 1
    /\ \A n \in 1..Filled + 1 : Ring(n)' = IF n = Filled + 1 THEN c ELSE Ring(n)
    /\ IF c \in Stops \/ Filled + 1 = INPUT_BUF
       THEN Ready' = Filled + 1 /\ Wakeup(InputChan)
       ELSE Ready' = Ready /\ input'.w = input.w /\ UNCHANGED <<state, chan>>

\* That is what consoleintr does with an ordinary character.
LEMMA ConsoleCharIs ==
    ASSUME RingInv, NEW c \in Chars, ConsoleChar(c)
    PROVE  RingInv' /\ TypedStep(c)
<1> USE RingWidths
<1>1. ConsoleTypes /\ IndexPlaces
  BY IndicesApart DEF RingInv
<1>2. PICK r \in 0..Uints - 1, w \in 0..Uints - 1, e \in 0..Uints - 1,
           x \in Nat, y \in Nat, z \in Nat :
        /\ r = input.r /\ w = input.w /\ e = input.e
        /\ x = Ready /\ y = Line /\ z = Filled
        /\ z = x + y /\ z <= INPUT_BUF
        /\ w = IF r + x < Uints THEN r + x ELSE r + x - Uints
        /\ e = IF r + z < Uints THEN r + z ELSE r + z - Uints
  BY <1>1 DEF IndexPlaces
<1>3. z < INPUT_BUF
  BY <1>2 DEF ConsoleChar, BufferFull, Filled
<1>4. PICK e2, full : e2 = (e + 1) % Uints /\ full = (r + INPUT_BUF) % Uints
  OBVIOUS
<1>5. /\ e2 = IF e + 1 < Uints THEN e + 1 ELSE e + 1 - Uints
      /\ e2 \in 0..Uints - 1
  BY <1>4, StepsFrom
<1>6. full = IF r + INPUT_BUF < Uints THEN r + INPUT_BUF ELSE r + INPUT_BUF - Uints
  BY <1>4, StepsFrom
<1>7. e2 = full <=> z + 1 = INPUT_BUF
  BY <1>2, <1>3, <1>5, <1>6
<1>8. PICK commit \in BOOLEAN : commit <=> (c \in Stops \/ z + 1 = INPUT_BUF)
  OBVIOUS
<1>9. /\ input' = [input EXCEPT !.buf[e % INPUT_BUF] = c, !.e = e2,
                                !.w = IF commit THEN e2 ELSE @]
      /\ IF commit THEN Wakeup(InputChan) ELSE UNCHANGED <<state, chan>>
      /\ target' = target /\ copied' = copied
  BY <1>2, <1>4, <1>7, <1>8 DEF ConsoleChar, Stops
<1>10. /\ input'.r = r /\ input'.e = e2 /\ input'.w = IF commit THEN e2 ELSE w
       /\ input'.buf = [input.buf EXCEPT ![e % INPUT_BUF] = c]
  BY <1>1, <1>2, <1>9 DEF ConsoleTypes
<1>11. e % INPUT_BUF \in 0..INPUT_BUF - 1
  BY Remainder
<1>12. ConsoleTypes'
  <2>1. input'.buf \in [0..INPUT_BUF - 1 -> Chars]
    BY <1>1, <1>10 DEF ConsoleTypes
  <2>2. input' = [buf |-> input'.buf, r |-> input'.r, w |-> input'.w, e |-> input'.e]
    BY <1>1, <1>9 DEF ConsoleTypes
  <2> QED
    BY <1>1, <1>5, <1>9, <1>10, <2>1, <2>2 DEF ConsoleTypes
<1>13. Filled' = z + 1
  <2>1. (e2 - r) % Uints = IF r <= e2 THEN e2 - r ELSE e2 - r + Uints
    BY <1>5, DistanceIs
  <2>2. (e2 - r) % Uints = z + 1
    BY <1>2, <1>3, <1>5, <2>1
  <2> QED
    BY <1>10, <2>2 DEF Filled
<1>14. Ready' = IF commit THEN z + 1 ELSE x
  <2>1. CASE commit
    BY <1>10, <1>13, <2>1 DEF Ready, Filled
  <2>2. CASE ~commit
    BY <1>2, <1>10, <2>2 DEF Ready
  <2> QED
    BY <2>1, <2>2
<1>15. Line' = IF commit THEN 0 ELSE y + 1
  <2>1. CASE commit
    <3>1. (e2 - e2) % Uints = 0
      BY <1>5, DistanceIs
    <3> QED
      BY <1>10, <2>1, <3>1 DEF Line
  <2>2. CASE ~commit
    <3>1. (e2 - w) % Uints = IF w <= e2 THEN e2 - w ELSE e2 - w + Uints
      BY <1>5, DistanceIs
    <3>2. (e2 - w) % Uints = y + 1
      BY <1>2, <1>3, <1>5, <3>1
    <3> QED
      BY <1>10, <2>2, <3>2 DEF Line
  <2> QED
    BY <2>1, <2>2
<1>16. ASSUME NEW n \in 1..z + 1
       PROVE  Ring(n)' = IF n = z + 1 THEN c ELSE Ring(n)
  <2>1. e % INPUT_BUF = (r + z) % INPUT_BUF
    <3>1. r + z \in Int /\ (e = r + z \/ e = (r + z) - Uints)
      BY <1>2
    <3> QED
      BY <3>1, ConsoleIndex
  <2>2. PICK k : k = (r + n - 1) % INPUT_BUF
    OBVIOUS
  <2>3. Ring(n)' = input'.buf[k] /\ Ring(n) = input.buf[k] /\ k \in 0..INPUT_BUF - 1
    <3>1. r + n - 1 \in Int
      BY <1>2
    <3>2. (r + n - 1) % INPUT_BUF \in 0..INPUT_BUF - 1
      BY <3>1, Remainder
    <3> QED
      BY <1>2, <1>10, <2>2, <3>2 DEF Ring
  <2>4. n = z + 1 => k = e % INPUT_BUF
    <3>1. n = z + 1 => r + n - 1 = r + z
      BY <1>2
    <3> QED
      BY <2>1, <2>2, <3>1
  <2>5. n # z + 1 => k # e % INPUT_BUF
    <3>1. SUFFICES ASSUME n # z + 1 PROVE (r + n - 1) % INPUT_BUF # (r + z) % INPUT_BUF
      BY <2>1, <2>2
    <3>2. /\ r + n - 1 \in Int /\ r + z \in Int
          /\ r + n - 1 < r + z /\ r + z < (r + n - 1) + INPUT_BUF
      BY <1>2, <1>3, <3>1
    <3> QED
      BY <3>2, RemainderInjective
  <2> QED
    BY <1>1, <1>10, <1>11, <2>3, <2>4, <2>5 DEF ConsoleTypes
<1>17. TypedStep(c)
  <2>1. \A n \in 1..Filled + 1 : Ring(n)' = IF n = Filled + 1 THEN c ELSE Ring(n)
    BY <1>2, <1>16
  <2>2. IF c \in Stops \/ Filled + 1 = INPUT_BUF
        THEN Ready' = Filled + 1 /\ Wakeup(InputChan)
        ELSE Ready' = Ready /\ input'.w = input.w /\ UNCHANGED <<state, chan>>
    <3>1. CASE commit
      BY <1>2, <1>8, <1>9, <1>14, <3>1
    <3>2. CASE ~commit
      BY <1>2, <1>8, <1>9, <1>10, <1>14, <3>2
    <3> QED
      BY <3>1, <3>2
  <2> QED
    BY <1>2, <1>3, <1>10, <1>13, <2>1, <2>2 DEF TypedStep
<1>18. ConsoleTypeOK'
  <2>1. {input'.r, input'.w, input'.e} \subseteq 0..Uints - 1
    BY <1>5, <1>10
  <2>2. Ready' <= Filled' /\ Filled' <= INPUT_BUF
    BY <1>2, <1>3, <1>13, <1>14
  <2>3. \A p \in Procs : copied'[p] <= target'[p]
    BY <1>9 DEF RingInv, ConsoleTypeOK
  <2> QED
    BY <2>1, <2>2, <2>3 DEF ConsoleTypeOK, Ready, Filled
<1>19. LineInv'
  <2>1. CASE commit
    BY <1>15, <2>1 DEF LineInv
  <2>2. CASE ~commit
    <3>1. ASSUME NEW k \in 1..y + 1 PROVE Ring(x + k)' \notin Stops
      <4>1. x + k \in 1..z + 1 /\ (x + k = z + 1 <=> k = y + 1)
        BY <1>2
      <4>2. k # y + 1 => Ring(x + k) \notin Stops
        BY <1>2 DEF RingInv, LineInv
      <4>3. Ring(x + k)' = IF x + k = z + 1 THEN c ELSE Ring(x + k)
        BY <1>16, <4>1
      <4> QED
        BY <1>8, <2>2, <4>1, <4>2, <4>3
    <3> QED
      BY <1>14, <1>15, <2>2, <3>1 DEF LineInv
  <2> QED
    BY <2>1, <2>2
<1> QED
  BY <1>12, <1>17, <1>18, <1>19 DEF RingInv

\* The line is cut to its first k characters.
CutStep(k) ==
    /\ Line' = k /\ Ready' = Ready
    /\ input'.r = input.r /\ input'.w = input.w
    /\ \A n \in Nat : Ring(n)' = Ring(n)
    /\ UNCHANGED <<state, chan, killed, target, copied>>

\* Taking e back towards w cuts the line.
LEMMA EraseIs ==
    ASSUME RingInv, NEW k \in Nat, k <= Line,
           input' = [input EXCEPT !.e = (input.w + k) % Uints],
           UNCHANGED <<state, chan, killed, target, copied>>
    PROVE  RingInv' /\ CutStep(k)
<1> USE RingWidths
<1>1. ConsoleTypes /\ IndexPlaces
  BY IndicesApart DEF RingInv
<1>2. PICK r \in 0..Uints - 1, w \in 0..Uints - 1, e \in 0..Uints - 1,
           x \in Nat, y \in Nat, z \in Nat :
        /\ r = input.r /\ w = input.w /\ e = input.e
        /\ x = Ready /\ y = Line /\ z = Filled
        /\ z = x + y /\ z <= INPUT_BUF
        /\ w = IF r + x < Uints THEN r + x ELSE r + x - Uints
  BY <1>1 DEF IndexPlaces
<1>3. k <= y /\ k <= Uints
  BY <1>2
<1>4. PICK e2 : e2 = (w + k) % Uints
  OBVIOUS
<1>5. e2 \in 0..Uints - 1 /\ e2 = IF w + k < Uints THEN w + k ELSE w + k - Uints
  BY <1>3, <1>4, StepsFrom
<1>6. /\ input'.r = r /\ input'.w = w /\ input'.e = e2 /\ input'.buf = input.buf
      /\ target' = target /\ copied' = copied
  BY <1>1, <1>2, <1>4 DEF ConsoleTypes
<1>7. ConsoleTypes'
  <2>1. input' = [buf |-> input'.buf, r |-> input'.r, w |-> input'.w, e |-> input'.e]
    BY <1>1 DEF ConsoleTypes
  <2> QED
    BY <1>1, <1>5, <1>6, <2>1 DEF ConsoleTypes
<1>8. Line' = k
  <2>1. (e2 - w) % Uints = IF w <= e2 THEN e2 - w ELSE e2 - w + Uints
    BY <1>5, DistanceIs
  <2>2. (e2 - w) % Uints = k
    BY <1>2, <1>3, <1>5, <2>1
  <2> QED
    BY <1>6, <2>2 DEF Line
<1>9. Filled' = x + k
  <2>1. (e2 - r) % Uints = IF r <= e2 THEN e2 - r ELSE e2 - r + Uints
    BY <1>5, DistanceIs
  <2>2. (e2 - r) % Uints = x + k
    BY <1>2, <1>3, <1>5, <2>1
  <2> QED
    BY <1>6, <2>2 DEF Filled
<1>10. Ready' = Ready
  BY <1>2, <1>6 DEF Ready
<1>11. \A n \in Nat : Ring(n)' = Ring(n)
  BY <1>2, <1>6 DEF Ring
<1>12. ConsoleTypeOK'
  <2>1. {input'.r, input'.w, input'.e} \subseteq 0..Uints - 1
    BY <1>5, <1>6
  <2>2. Ready' <= Filled' /\ Filled' <= INPUT_BUF
    BY <1>2, <1>3, <1>9, <1>10
  <2>3. \A p \in Procs : copied'[p] <= target'[p]
    BY <1>6 DEF RingInv, ConsoleTypeOK
  <2> QED
    BY <2>1, <2>2, <2>3 DEF ConsoleTypeOK, Ready, Filled
<1>13. LineInv'
  <2>1. ASSUME NEW n \in 1..k PROVE Ring(x + n)' \notin Stops
    <3>1. Ring(x + n) \notin Stops
      BY <1>2, <1>3 DEF RingInv, LineInv
    <3>2. x + n \in Nat
      BY <1>2
    <3> QED
      BY <1>11, <3>1, <3>2
  <2> QED
    BY <1>2, <1>8, <1>10, <2>1 DEF LineInv
<1>14. CutStep(k)
  BY <1>2, <1>6, <1>8, <1>10, <1>11 DEF CutStep
<1> QED
  BY <1>7, <1>12, <1>13, <1>14 DEF RingInv

\* ^H takes the last character of the line, ^U all of it: there is no newline
\* in the line.
LEMMA EraseCases ==
    ASSUME RingInv, Backspace \/ KillLine
    PROVE  RingInv' /\ Line # 0 /\ (CutStep(Line - 1) \/ CutStep(0))
<1> USE RingWidths
<1>1. ConsoleTypes /\ IndexPlaces
  BY IndicesApart DEF RingInv
<1>2. PICK w \in 0..Uints - 1, e \in 0..Uints - 1, y \in Nat :
        w = input.w /\ e = input.e /\ y = Line
  BY <1>1 DEF IndexPlaces
<1>3. y = IF w <= e THEN e - w ELSE e - w + Uints
  BY <1>2, DistanceIs DEF Line
<1>4. e # w /\ UNCHANGED <<state, chan, killed, target, copied>>
  BY <1>2 DEF Backspace, KillLine, procVars
<1>5. y - 1 \in Nat /\ y # 0 /\ y < Uints
  BY <1>3, <1>4
<1>6. CASE Backspace
  <2>1. (e - 1) % Uints = (w + (y - 1)) % Uints
    <3>1. PICK m, d : m = Uints /\ d = e - 1
      OBVIOUS
    <3>2. d % m = IF d < 0 THEN d + m ELSE IF d < m THEN d ELSE d - m
      <4>1. d \in Int /\ m \in Nat \ {0} /\ -m <= d /\ d < 2 * m
        BY <3>1
      <4> QED
        BY <4>1, NearRange
    <3>3. PICK h \in Nat : h = y - 1 /\ h <= Uints
      BY <1>5
    <3>4. (w + h) % Uints = IF w + h < Uints THEN w + h ELSE w + h - Uints
      BY <3>3, StepsFrom
    <3>5. (e - 1) % Uints = IF e = 0 THEN Uints - 1 ELSE e - 1
      BY <3>1, <3>2
    <3>6. (w + h) % Uints = IF e = 0 THEN Uints - 1 ELSE e - 1
      BY <1>3, <1>4, <3>3, <3>4
    <3> QED
      BY <3>3, <3>5, <3>6
  <2>2. input' = [input EXCEPT !.e = (input.w + (y - 1)) % Uints]
    BY <1>1, <1>2, <1>6, <2>1 DEF Backspace, ConsoleTypes
  <2>3. y - 1 <= Line
    BY <1>2, <1>5
  <2>4. RingInv' /\ CutStep(y - 1)
    BY <1>4, <1>5, <2>2, <2>3, EraseIs
  <2> QED
    BY <1>2, <1>5, <2>4
<1>7. CASE KillLine
  <2>1. SpanForm
    BY SpansInRing
  <2>2. \A k \in DOMAIN Span(input.w, input.e) : Span(input.w, input.e)[k] # NL
    <3>1. DOMAIN Span(input.w, input.e) = 1..Line
      BY <2>1, LenProperties DEF SpanForm
    <3> QED
      BY <2>1, <3>1 DEF SpanForm, RingInv, LineInv, Stops
  <2>3. input' = [input EXCEPT !.e = (input.w + 0) % Uints]
    <3>1. {k \in DOMAIN Span(input.w, input.e) : Span(input.w, input.e)[k] = NL} = {}
      BY <2>2
    <3> QED
      BY <1>7, <3>1 DEF KillLine
  <2>4. 0 \in Nat /\ 0 <= Line
    BY <1>2
  <2>5. RingInv' /\ CutStep(0)
    BY <1>4, <2>3, <2>4, EraseIs
  <2> QED
    BY <1>2, <1>5, <2>5
<1> QED
  BY <1>6, <1>7

-----------------------------------------------------------------------------
(* consoleread.                                                            *)

\* One pass of consoleread looks at the first len characters; the first stop
\* among them is at i (len + 1: there is none); it gives give characters to the
\* user and takes used off the ring.
LooksAt(p, len, i) ==
    /\ target[p] - copied[p] \in Nat
    /\ len = IF target[p] - copied[p] < Ready THEN target[p] - copied[p] ELSE Ready
    /\ i \in 1..len + 1
    /\ \A k \in 1..i - 1 : Ring(k) \notin Stops
    /\ i <= len => Ring(i) \in Stops

Takes(p, len, i, give, used) ==
    LET eof == i <= len /\ Ring(i) = EOT
    IN  /\ give = IF i > len THEN len ELSE IF eof THEN i - 1 ELSE i
        /\ used = IF eof /\ ~EofKept(p, i) THEN i ELSE give

ReadStep(p, len, i, give, used) ==
    /\ LooksAt(p, len, i) /\ Takes(p, len, i, give, used)
    /\ input' = [input EXCEPT !.r = (@ + used) % Uints]
    /\ \/ /\ target' = [target EXCEPT ![p] = 0] /\ copied' = [copied EXCEPT ![p] = 0]
          /\ pc' = [pc EXCEPT ![p] = "user"]
          /\ UNCHANGED <<state, chan>>
       \/ /\ i = len + 1 /\ len = Ready /\ copied[p] + len < target[p] /\ ~killed[p]
          /\ target' = target /\ copied' = [copied EXCEPT ![p] = @ + give]
          /\ Sleep(p, InputChan) /\ pc' = pc

\* That is what a section of consoleread does.
LEMMA ConsoleReadIs ==
    ASSUME NEW p \in Procs, RingInv, ConsoleRead(p)
    PROVE  \E len, i, give, used : ReadStep(p, len, i, give, used)
<1>1. PICK s : s = Available(p)
  OBVIOUS
<1>2. PICK i : i = StopAt(s)
  OBVIOUS
<1>3. PICK n, x : n = target[p] - copied[p] /\ x = Ready
  OBVIOUS
<1>4. PICK l : l = IF n < x THEN n ELSE x
  OBVIOUS
<1>5. /\ n \in Nat /\ x \in Nat /\ target[p] \in Nat /\ copied[p] \in Nat
      /\ l \in Nat /\ l <= n /\ l <= x /\ l \in 0..x
  <2>1. x \in Nat
    BY <1>3, IndicesApart DEF RingInv, IndexPlaces
  <2>2. target[p] \in Nat /\ copied[p] \in Nat /\ copied[p] <= target[p]
    BY DEF RingInv, ConsoleTypes, ConsoleTypeOK
  <2>3. n \in Nat
    BY <1>3, <2>2
  <2> QED
    BY <1>4, <2>1, <2>2, <2>3
<1>6. s \in Seq(Chars) /\ Len(s) = l /\ DOMAIN s = 1..l /\ \A k \in 1..l : s[k] = Ring(k)
  <2>1. PICK t : t = Span(input.r, input.w)
    OBVIOUS
  <2>2. t \in Seq(Chars) /\ Len(t) = x /\ \A k \in 1..x : t[k] = Ring(k)
    BY <1>3, <2>1, SpansInRing DEF SpanForm
  <2>3. s = SubSeq(t, 1, l)
    BY <1>1, <1>3, <1>4, <2>1, <2>2 DEF Available
  <2>4. \A k \in 1..l : t[k] \in Chars
    BY <1>5, <2>2, ElementOfSeq
  <2>5. /\ SubSeq(t, 1, l) \in Seq(Chars)
        /\ Len(SubSeq(t, 1, l)) = IF 1 <= l THEN l - 1 + 1 ELSE 0
        /\ \A k \in 1..l - 1 + 1 : SubSeq(t, 1, l)[k] = t[1 + k - 1]
    BY <1>5, <2>4, SubSeqProperties
  <2>6. Len(s) = l /\ \A k \in 1..l : s[k] = t[k]
    BY <1>5, <2>3, <2>5
  <2> QED
    BY <1>5, <2>2, <2>3, <2>5, <2>6, LenProperties
<1>7. /\ i \in 1..l + 1
      /\ \A k \in 1..i - 1 : Ring(k) \notin Stops
      /\ i <= l => Ring(i) \in Stops
  <2> DEFINE stops == {k \in DOMAIN s : s[k] \in {NL, EOT}}
  <2>1. CASE stops = {}
    <3>1. i = l + 1
      BY <1>2, <1>6, <2>1 DEF StopAt
    <3>2. \A k \in 1..l : Ring(k) \notin Stops
      BY <1>6, <2>1 DEF Stops
    <3> QED
      BY <1>5, <3>1, <3>2
  <2>2. CASE stops # {}
    <3>1. i = Lowest(stops)
      BY <1>2, <2>2 DEF StopAt
    <3>2. stops \subseteq Nat
      BY <1>5, <1>6
    <3>3. i \in stops /\ \A k \in stops : i <= k
      BY <2>2, <3>1, <3>2, LeastNat DEF Lowest
    <3>4. i \in 1..l /\ Ring(i) \in Stops
      BY <1>6, <3>3 DEF Stops
    <3>5. ASSUME NEW k \in 1..i - 1 PROVE Ring(k) \notin Stops
      <4>1. k \in 1..l /\ k < i
        BY <1>5, <3>4
      <4>2. k \notin stops
        BY <1>5, <3>3, <3>4, <4>1
      <4> QED
        BY <1>6, <4>1, <4>2 DEF Stops
    <3> QED
      BY <1>5, <3>4, <3>5
  <2> QED
    BY <2>1, <2>2
<1>8. LooksAt(p, l, i)
  BY <1>3, <1>4, <1>5, <1>7 DEF LooksAt
<1>9. PICK eof : eof = (i <= Len(s) /\ s[i] = EOT)
  OBVIOUS
<1>10. PICK give : give = IF i > Len(s) THEN Len(s) ELSE IF eof THEN i - 1 ELSE i
  OBVIOUS
<1>11. PICK used : used = IF eof /\ ~EofKept(p, i) THEN i ELSE give
  OBVIOUS
<1>12. PICK done : done = (i <= Len(s) \/ copied[p] + Len(s) = target[p])
  OBVIOUS
<1>13. /\ input' = [input EXCEPT !.r = (@ + used) % Uints]
       /\ \/ /\ done \/ killed[p]
             /\ pc' = [pc EXCEPT ![p] = "user"]
             /\ target' = [target EXCEPT ![p] = 0]
             /\ copied' = [copied EXCEPT ![p] = 0]
             /\ UNCHANGED <<state, chan>>
          \/ /\ ~done /\ ~killed[p]
             /\ Sleep(p, InputChan)
             /\ copied' = [copied EXCEPT ![p] = @ + give]
             /\ UNCHANGED <<pc, target>>
  BY <1>1, <1>2, <1>9, <1>10, <1>11, <1>12 DEF ConsoleRead
<1>14. Takes(p, l, i, give, used)
  <2>1. (i <= Len(s) /\ s[i] = EOT) <=> (i <= l /\ Ring(i) = EOT)
    BY <1>5, <1>6, <1>7
  <2>2. give = IF i > l THEN l ELSE IF i <= l /\ Ring(i) = EOT THEN i - 1 ELSE i
    BY <1>6, <1>9, <1>10, <2>1
  <2>3. used = IF (i <= l /\ Ring(i) = EOT) /\ ~EofKept(p, i) THEN i ELSE give
    BY <1>9, <1>11, <2>1
  <2> QED
    BY <2>2, <2>3 DEF Takes
<1>15. ~done => i = l + 1 /\ l = Ready /\ copied[p] + l < target[p]
  <2> SUFFICES ASSUME ~done PROVE i = l + 1 /\ l = Ready /\ copied[p] + l < target[p]
    OBVIOUS
  <2>1. ~(i <= l) /\ copied[p] + l # target[p]
    BY <1>6, <1>12
  <2> QED
    BY <1>3, <1>4, <1>5, <1>7, <2>1
<1>16. ReadStep(p, l, i, give, used)
  BY <1>8, <1>13, <1>14, <1>15 DEF ReadStep
<1> QED
  BY <1>16

\* consoleread takes a prefix of what is committed, and leaves the line alone.
ReadMoves(len, give, used) ==
    /\ len \in 0..Ready /\ give \in 0..len /\ used \in 0..Ready
    /\ Ready' = Ready - used /\ Line' = Line
    /\ input'.w = input.w /\ input'.e = input.e
    /\ \A n \in Nat : Ring(n)' = Ring(used + n)

\* A section of consoleread keeps the ring in order.
LEMMA ReadKeeps ==
    ASSUME RingInv, NEW p \in Procs, NEW len, NEW i, NEW give, NEW used,
           ReadStep(p, len, i, give, used)
    PROVE  RingInv' /\ ReadMoves(len, give, used)
<1> USE RingWidths
<1>1. ConsoleTypes /\ IndexPlaces
  BY IndicesApart DEF RingInv
<1>2. PICK r \in 0..Uints - 1, w \in 0..Uints - 1, e \in 0..Uints - 1,
           x \in Nat, y \in Nat, z \in Nat :
        /\ r = input.r /\ w = input.w /\ e = input.e
        /\ x = Ready /\ y = Line /\ z = Filled
        /\ z = x + y /\ z <= INPUT_BUF
        /\ w = IF r + x < Uints THEN r + x ELSE r + x - Uints
        /\ e = IF r + z < Uints THEN r + z ELSE r + z - Uints
  BY <1>1 DEF IndexPlaces
<1>3. /\ target[p] \in Nat /\ copied[p] \in Nat /\ target[p] - copied[p] \in Nat
      /\ len \in Nat /\ len <= x /\ len <= target[p] - copied[p] /\ i \in 1..len + 1
  <2>1. target[p] \in Nat /\ copied[p] \in Nat
    BY <1>1 DEF ConsoleTypes
  <2>2. PICK n : n = target[p] - copied[p]
    OBVIOUS
  <2>3. n \in Nat /\ len = (IF n < x THEN n ELSE x) /\ i \in 1..len + 1
    BY <1>2, <2>2 DEF ReadStep, LooksAt
  <2>4. len \in Nat /\ len <= x /\ len <= n
    BY <2>3
  <2> QED
    BY <2>1, <2>2, <2>3, <2>4
<1>4. give \in 0..len /\ used \in 0..x
  BY <1>3 DEF ReadStep, Takes
<1>5. used \in Nat /\ used <= x /\ used <= Uints
  BY <1>2, <1>4
<1>6. PICK r2 : r2 = (r + used) % Uints
  OBVIOUS
<1>7. r2 \in 0..Uints - 1 /\ r2 = IF r + used < Uints THEN r + used ELSE r + used - Uints
  BY <1>5, <1>6, StepsFrom
<1>8. input'.r = r2 /\ input'.w = w /\ input'.e = e /\ input'.buf = input.buf
  BY <1>1, <1>2, <1>6 DEF ReadStep, ConsoleTypes
<1>9. /\ target' \in [Procs -> Nat] /\ copied' \in [Procs -> Nat]
      /\ \A q \in Procs : copied'[q] <= target'[q]
  <2>1. \A q \in Procs : copied[q] <= target[q]
    BY DEF RingInv, ConsoleTypeOK
  <2>2. copied[p] + give \in Nat /\ copied[p] + give <= target[p]
    BY <1>3, <1>4
  <2>3. CASE target' = [target EXCEPT ![p] = 0] /\ copied' = [copied EXCEPT ![p] = 0]
    BY <1>1, <2>1, <2>3 DEF ConsoleTypes
  <2>4. CASE target' = target /\ copied' = [copied EXCEPT ![p] = @ + give]
    BY <1>1, <2>1, <2>2, <2>4 DEF ConsoleTypes
  <2> QED
    BY <2>3, <2>4 DEF ReadStep
<1>10. ConsoleTypes'
  <2>1. input' = [buf |-> input'.buf, r |-> input'.r, w |-> input'.w, e |-> input'.e]
    BY <1>1 DEF ReadStep, ConsoleTypes
  <2> QED
    BY <1>1, <1>7, <1>8, <1>9, <2>1 DEF ConsoleTypes
<1>11. Ready' = x - used
  <2>1. (w - r2) % Uints = IF r2 <= w THEN w - r2 ELSE w - r2 + Uints
    BY <1>7, DistanceIs
  <2>2. (w - r2) % Uints = x - used
    BY <1>2, <1>5, <1>7, <2>1
  <2> QED
    BY <1>8, <2>2 DEF Ready
<1>12. Filled' = z - used
  <2>1. (e - r2) % Uints = IF r2 <= e THEN e - r2 ELSE e - r2 + Uints
    BY <1>7, DistanceIs
  <2>2. (e - r2) % Uints = z - used
    BY <1>2, <1>5, <1>7, <2>1
  <2> QED
    BY <1>8, <2>2 DEF Filled
<1>13. Line' = y
  BY <1>2, <1>8 DEF Line
<1>14. ASSUME NEW n \in Nat PROVE Ring(n)' = Ring(used + n)
  <2>1. PICK a, b : a = r + (used + n) - 1 /\ b = r2 + n - 1
    OBVIOUS
  <2>2. a \in Int /\ (b = a \/ b = a - Uints)
    BY <1>5, <1>7, <2>1
  <2>3. b % INPUT_BUF = a % INPUT_BUF
    BY <2>2, ConsoleIndex
  <2> QED
    BY <1>2, <1>8, <2>1, <2>3 DEF Ring
<1>15. ConsoleTypeOK'
  <2>1. {input'.r, input'.w, input'.e} \subseteq 0..Uints - 1
    BY <1>7, <1>8
  <2>2. Ready' <= Filled' /\ Filled' <= INPUT_BUF
    BY <1>2, <1>5, <1>11, <1>12
  <2> QED
    BY <1>9, <2>1, <2>2 DEF ConsoleTypeOK, Ready, Filled
<1>16. LineInv'
  <2>1. ASSUME NEW k \in 1..y PROVE Ring((x - used) + k)' \notin Stops
    <3>1. Ring(x + k) \notin Stops
      BY <1>2 DEF RingInv, LineInv
    <3>2. (x - used) + k \in Nat /\ used + ((x - used) + k) = x + k
      BY <1>2, <1>5
    <3>3. Ring((x - used) + k)' = Ring(used + ((x - used) + k))
      BY <1>14, <3>2
    <3> QED
      BY <3>1, <3>2, <3>3
  <2> QED
    BY <1>11, <1>13, <2>1 DEF LineInv
<1>17. ReadMoves(len, give, used)
  BY <1>2, <1>3, <1>4, <1>8, <1>11, <1>13, <1>14 DEF ReadMoves
<1> QED
  BY <1>10, <1>15, <1>16, <1>17 DEF RingInv

-----------------------------------------------------------------------------
(* The console and the processes that read it.                             *)

\* Nothing is committed exactly if r has come to w.
LEMMA ReadyNone ==
    ASSUME NEW r \in 0..Uints - 1, NEW w \in 0..Uints - 1
    PROVE  (w - r) % Uints = 0 <=> r = w
  BY DistanceIs, RingWidths

\* The channel of the readers is neither a proc structure nor one of the pipe.
LEMMA InputChannel ==
    /\ InputChan \in Int /\ InputChan \notin Procs \cup {NoChan}
    /\ InputChan # NReadChan /\ InputChan # NWriteChan
  BY InitProcIsProc DEF InputChan, NReadChan, NWriteChan, NoChan

\* fork, exit, wait and kill are no business of the pipe or the console.
LEMMA ProcCallApart ==
    ASSUME NEW p \in Procs, ProcInv, ProcCall(p)
    PROVE  ProcInv' /\ NotOfPipe /\ NotOfConsole
<1>1. ProcInv' /\ NoneJoins(NReadChan) /\ NoneJoins(NWriteChan) /\ NoneJoins(InputChan)
  BY ProcCallKeeps, Channels, InputChannel
<1>2. Stays("write") /\ Stays("read") /\ Stays("consoleread")
  BY ProcCallStays DEF ProcPlaces
<1>3. SleepersStay
  BY ProcCallSleepers
<1> QED
  BY <1>1, <1>2, <1>3 DEF NotOfPipe, NotOfConsole

\* A step that leaves the console alone and puts nobody to sleep on it.
LEMMA ConsoleRests ==
    ASSUME ConsoleInv, UNCHANGED consoleVars, NotOfConsole
    PROVE  ConsoleInv'
<1>1. UNCHANGED <<input, target, copied>>
  BY DEF consoleVars
<1>2. RingInv'
  BY <1>1 DEF ConsoleInv, RingInv, ConsoleTypes, ConsoleTypeOK, LineInv, Line, Ready, Ring
<1>3. ReadersSleepEmpty'
  BY <1>1 DEF ConsoleInv, ReadersSleepEmpty, NotOfConsole, NoneJoins
<1>4. ReadCallInv'
  BY <1>1 DEF ConsoleInv, ReadCallInv, NotOfConsole, Stays
<1> QED
  BY <1>2, <1>3, <1>4 DEF ConsoleInv

\* A section of consoleread, in the process table: p returns, or sleeps.
LEMMA ConsoleReadCall ==
    ASSUME ProcInv, NEW p \in Procs, ConsoleRead(p)
    PROVE  CallOf(p) /\ NotOfPipe
<1> USE InputChannel
<1>1. state[p] = "RUNNABLE" /\ pc[p] = "consoleread"
  BY DEF ConsoleRead, Running
<1>2. UNCHANGED <<parent, killed, pid, np>>
  BY DEF ConsoleRead
<1>3. CASE pc' = [pc EXCEPT ![p] = "user"] /\ UNCHANGED <<state, chan>>
  BY <1>1, <1>2, <1>3 DEF CallOf, NotOfPipe, NoneJoins, SleepersStay, Stays, Live,
     ProcInv, ProcTypes, Places
<1>4. CASE Sleep(p, InputChan) /\ pc' = pc
  <2>1. /\ state' \in [Procs -> States] /\ chan' \in [Procs -> Int]
        /\ state'[p] = "SLEEPING" /\ chan'[p] = InputChan
        /\ \A q \in Procs \ {p} : state'[q] = state[q] /\ chan'[q] = chan[q]
    BY <1>1, <1>4, SleepAlone
  <2> QED
    BY <1>1, <1>2, <1>4, <2>1 DEF CallOf, NotOfPipe, NoneJoins, SleepersStay, Stays, Live,
       ProcInv, ProcTypes, Places
<1> QED
  BY <1>3, <1>4 DEF ConsoleRead

\* A section of consoleread sleeps only when it has taken everything.
LEMMA ConsoleReadKeeps ==
    ASSUME ProcInv, ConsoleInv, NEW p \in Procs, ConsoleRead(p)
    PROVE  ConsoleInv'
<1>1. PICK len, i, give, used : ReadStep(p, len, i, give, used)
  BY ConsoleReadIs DEF ConsoleInv
<1>2. RingInv /\ RingInv' /\ ReadMoves(len, give, used)
  BY <1>1, ReadKeeps DEF ConsoleInv
<1>3. PICK r, w, r2 : r = input.r /\ w = input.w /\ r2 = input'.r
  OBVIOUS
<1>4. r \in 0..Uints - 1 /\ w \in 0..Uints - 1 /\ r2 \in 0..Uints - 1 /\ input'.w = w
  BY <1>2, <1>3 DEF RingInv, ConsoleTypes, ReadMoves
<1>5. Ready = (w - r) % Uints /\ Ready' = (w - r2) % Uints
  BY <1>3, <1>4 DEF Ready
<1>6. killed' = killed /\ state[p] = "RUNNABLE"
  BY DEF ConsoleRead, Running
<1>7. ASSUME r = w PROVE r2 = w
  <2>1. Ready = 0
    BY <1>4, <1>5, <1>7, ReadyNone
  <2>2. used = 0 /\ Ready' = Ready - used
    BY <1>2, <2>1 DEF ReadMoves
  <2> QED
    <3>1. Ready' = 0
      BY <2>1, <2>2
    <3> QED
      BY <1>4, <1>5, <3>1, ReadyNone
<1>10. ReadCallInv'
  <2>1. \A q \in Procs : state[q] \in Live => state'[q] \in Live
    BY <1>6, ConsoleReadCall DEF CallOf, Live
  <2>2. CASE copied' = [copied EXCEPT ![p] = 0] /\ pc' = [pc EXCEPT ![p] = "user"]
    BY <1>2, <2>1, <2>2 DEF ConsoleInv, ReadCallInv, RingInv, ConsoleTypes, ProcInv, ProcTypes
  <2>3. CASE copied' = [copied EXCEPT ![p] = @ + give] /\ pc' = pc
    <3>1. pc[p] = "consoleread"
      BY DEF ConsoleRead, Running
    <3> QED
      BY <1>2, <2>1, <2>3, <3>1 DEF ConsoleInv, ReadCallInv, RingInv, ConsoleTypes
  <2> QED
    BY <1>1, <2>2, <2>3 DEF ReadStep
<1>8. CASE UNCHANGED <<state, chan>>
  <2>1. ReadersSleepEmpty'
    BY <1>3, <1>4, <1>6, <1>7, <1>8 DEF ConsoleInv, ReadersSleepEmpty
  <2> QED
    BY <1>2, <1>10, <2>1 DEF ConsoleInv
<1>9. CASE Sleep(p, InputChan) /\ i = len + 1 /\ len = Ready /\ ~killed[p]
  <2>1. \A q \in Procs \ {p} : state'[q] = state[q] /\ chan'[q] = chan[q]
    BY <1>6, <1>9, SleepAlone, InputChannel
  <2>2. len \in Nat /\ used = len
    BY <1>1, <1>2, <1>9 DEF ReadStep, Takes, ReadMoves, RingInv
  <2>3. Ready' = 0
    BY <1>2, <1>9, <2>2 DEF ReadMoves
  <2>4. r2 = w
    BY <1>4, <1>5, <2>3, ReadyNone
  <2>5. ReadersSleepEmpty'
    BY <1>3, <1>4, <1>6, <1>9, <2>1, <2>4 DEF ConsoleInv, ReadersSleepEmpty
  <2> QED
    BY <1>2, <1>10, <2>5 DEF ConsoleInv
<1> QED
  BY <1>1, <1>8, <1>9 DEF ReadStep

\* A process begins to read.
LEMMA ConsoleCallKeeps ==
    ASSUME ProcInv, ConsoleInv, NEW p \in Procs, ConsoleCall(p)
    PROVE  ConsoleInv' /\ CallOf(p) /\ NotOfPipe
<1>1. PICK n \in Nat : target' = [target EXCEPT ![p] = n]
  BY ConsoleAssumption DEF ConsoleCall
<1>2. /\ state[p] = "RUNNABLE" /\ pc[p] = "user" /\ pc' = [pc EXCEPT ![p] = "consoleread"]
      /\ UNCHANGED <<state, parent, pid, killed, chan, np, input, copied>>
  BY DEF ConsoleCall, InUser, Running
<1>3. CallOf(p) /\ NotOfPipe
  BY <1>2 DEF CallOf, NotOfPipe, NoneJoins, SleepersStay, Stays, ProcInv, ProcTypes, Places
<1>4. copied[p] = 0
  BY <1>2 DEF ConsoleInv, ReadCallInv
<1>5. ConsoleTypes'
  BY <1>1, <1>2 DEF ConsoleInv, RingInv, ConsoleTypes
<1>6. ConsoleTypeOK'
  BY <1>1, <1>2, <1>4 DEF ConsoleInv, RingInv, ConsoleTypes, ConsoleTypeOK
<1>7. LineInv'
  BY <1>2 DEF ConsoleInv, RingInv, LineInv, Line, Ready, Ring
<1>8. ReadersSleepEmpty'
  BY <1>2 DEF ConsoleInv, ReadersSleepEmpty
<1>9. ReadCallInv'
  BY <1>2 DEF ConsoleInv, ReadCallInv, ProcInv, ProcTypes, Live
<1> QED
  BY <1>3, <1>5, <1>6, <1>7, <1>8, <1>9 DEF ConsoleInv, RingInv

\* A wakeup of the readers, or none, in the process table.
LEMMA ReadersUp ==
    ASSUME ProcInv, UNCHANGED <<parent, pid, killed, pc, np>>,
           Wakeup(InputChan) \/ UNCHANGED <<state, chan>>
    PROVE  /\ CallOf(initproc) /\ NotOfPipe /\ NotOfConsole
           /\ Wakeup(InputChan) =>
                 \A q \in Procs : ~(state'[q] = "SLEEPING" /\ chan'[q] = InputChan)
<1>1. CASE UNCHANGED <<state, chan>>
  <2>1. Wakeup(InputChan) =>
           \A q \in Procs : ~(state'[q] = "SLEEPING" /\ chan'[q] = InputChan)
    BY WakeupEffect, InputChannel
  <2> QED
    BY <1>1, <2>1 DEF CallOf, NotOfPipe, NotOfConsole, NoneJoins, SleepersStay, Stays,
       ProcInv, ProcTypes
<1>2. CASE Wakeup(InputChan)
  <2>1. /\ state' \in [Procs -> States] /\ chan' \in [Procs -> Int]
        /\ \A q \in Procs :
              IF state[q] = "SLEEPING" /\ chan[q] = InputChan
              THEN state'[q] = "RUNNABLE" /\ chan'[q] = NoChan
              ELSE state'[q] = state[q] /\ chan'[q] = chan[q]
    BY <1>2, WakeupEffect
  <2> QED
    BY <2>1, InputChannel, Channels DEF CallOf, NotOfPipe, NotOfConsole, NoneJoins,
       SleepersStay, Stays, ProcInv, ProcTypes, Live
<1> QED
  BY <1>1, <1>2

\* The interrupt handler commits a line and wakes its readers in one section.
LEMMA ConsoleIntrKeeps ==
    ASSUME ProcInv, ConsoleInv, ConsoleIntr
    PROVE  ConsoleInv' /\ CallOf(initproc) /\ NotOfPipe
<1>1. CASE Backspace \/ KillLine
  <2>1. RingInv' /\ \E k : CutStep(k)
    BY <1>1, EraseCases DEF ConsoleInv
  <2>2. UNCHANGED <<procVars, copied>> /\ input'.r = input.r /\ input'.w = input.w
    BY <1>1, <2>1 DEF Backspace, KillLine, CutStep
  <2>3. ReadersSleepEmpty' /\ ReadCallInv'
    BY <2>2 DEF ConsoleInv, ReadersSleepEmpty, ReadCallInv, procVars
  <2>4. CallOf(initproc) /\ NotOfPipe
    BY <2>2, ReadersUp DEF procVars
  <2> QED
    BY <2>1, <2>3, <2>4 DEF ConsoleInv
<1>2. ASSUME NEW c \in Chars, ConsoleChar(c)
      PROVE  ConsoleInv' /\ CallOf(initproc) /\ NotOfPipe
  <2>1. RingInv' /\ TypedStep(c)
    BY <1>2, ConsoleCharIs DEF ConsoleInv
  <2>2. UNCHANGED <<parent, pid, killed, pc, np, copied>>
    BY <1>2 DEF ConsoleChar
  <2>3. \/ Wakeup(InputChan)
        \/ UNCHANGED <<state, chan>> /\ input'.r = input.r /\ input'.w = input.w
    BY <2>1 DEF TypedStep
  <2>4. /\ CallOf(initproc) /\ NotOfPipe /\ NotOfConsole
        /\ Wakeup(InputChan) =>
              \A q \in Procs : ~(state'[q] = "SLEEPING" /\ chan'[q] = InputChan)
    BY <2>2, <2>3, ReadersUp
  <2>5. ReadersSleepEmpty'
    BY <2>2, <2>3, <2>4 DEF ConsoleInv, ReadersSleepEmpty, NotOfConsole, NoneJoins
  <2>6. ReadCallInv'
    BY <2>2, <2>4 DEF ConsoleInv, ReadCallInv, NotOfConsole, Stays
  <2> QED
    BY <2>1, <2>4, <2>5, <2>6 DEF ConsoleInv
<1> QED
  BY <1>1, <1>2 DEF ConsoleIntr

\* Every step of the console and its readers keeps both invariants and leaves
\* the users of a pipe alone.
LEMMA ConsoleNextInv ==
    ASSUME ProcInv, ConsoleInv, ConsoleNext
    PROVE  ProcInv' /\ ConsoleInv' /\ NotOfPipe
<1>1. CASE ConsoleIntr
  BY <1>1, ConsoleIntrKeeps, CallKeeps, InitProcIsProc
<1>2. ASSUME NEW p \in Procs, ProcCall(p), UNCHANGED consoleVars
      PROVE  ProcInv' /\ ConsoleInv' /\ NotOfPipe
  BY <1>2, ProcCallApart, ConsoleRests
<1>3. CASE ConsoleKill
  <2>1. PICK q \in Procs : Kill(q) /\ UNCHANGED consoleVars
    BY <1>3, ProcessAssumption DEF ConsoleKill
  <2> QED
    BY <1>2, <2>1 DEF ProcCall
<1>4. CASE \E p \in Procs : ConsoleQuiet(p)
  BY <1>2, <1>4 DEF ConsoleQuiet, ProcCall
<1>5. ASSUME NEW p \in Procs, ConsoleRead(p)
      PROVE  ProcInv' /\ ConsoleInv' /\ NotOfPipe
  BY <1>5, ConsoleReadKeeps, ConsoleReadCall, CallKeeps
<1>6. ASSUME NEW p \in Procs, ConsoleCall(p)
      PROVE  ProcInv' /\ ConsoleInv' /\ NotOfPipe
  BY <1>6, ConsoleCallKeeps, CallKeeps
<1> QED
  BY <1>1, <1>3, <1>4, <1>5, <1>6 DEF ConsoleNext

-----------------------------------------------------------------------------
(* The console is a line discipline.                                       *)

\* The indices of the next state stand in order.
LEMMA IndicesApartNext == RingInv' => IndexPlaces'
<1>1. RingInv => IndexPlaces
  BY IndicesApart DEF RingInv
<1> QED
  BY <1>1, PTL

\* A character of consoleintr is appended to the line, which is committed as a
\* whole.
LEMMA TypedSpans ==
    ASSUME RingInv, RingInv', NEW c \in Chars, TypedStep(c)
    PROVE  /\ Len(Span(input.w, input.e)) + Len(Span(input.r, input.w)) < INPUT_BUF
           /\ LET line == Append(Span(input.w, input.e), c)
              IN  IF c \in {NL, EOT} \/ Len(line) + Len(Span(input.r, input.w)) = INPUT_BUF
                  THEN /\ Span(input.w, input.e)' = <<>>
                       /\ Span(input.r, input.w)' = Span(input.r, input.w) \o line
                  ELSE /\ Span(input.w, input.e)' = line
                       /\ Span(input.r, input.w)' = Span(input.r, input.w)
<1>1. PICK A, B, A2, B2 :
        /\ A = Span(input.r, input.w) /\ B = Span(input.w, input.e)
        /\ A2 = Span(input.r, input.w)' /\ B2 = Span(input.w, input.e)'
  OBVIOUS
<1>2. PICK x \in Nat, y \in Nat, z \in Nat :
        x = Ready /\ y = Line /\ z = Filled /\ z = x + y
  BY IndicesApart DEF RingInv, IndexPlaces
<1>3. PICK x2 \in Nat, y2 \in Nat : x2 = Ready' /\ y2 = Line' /\ z + 1 = x2 + y2
  BY <1>2, IndicesApartNext DEF IndexPlaces, TypedStep
<1>4. /\ A \in Seq(Chars) /\ Len(A) = x /\ \A k \in 1..x : A[k] = Ring(k)
      /\ B \in Seq(Chars) /\ Len(B) = y /\ \A k \in 1..y : B[k] = Ring(x + k)
  BY <1>1, <1>2, SpansInRing DEF SpanForm
<1>5. /\ A2 \in Seq(Chars) /\ Len(A2) = x2 /\ \A k \in 1..x2 : A2[k] = Ring(k)'
      /\ B2 \in Seq(Chars) /\ Len(B2) = y2 /\ \A k \in 1..y2 : B2[k] = Ring(x2 + k)'
  BY <1>1, <1>3, SpansInRingNext DEF SpanForm
<1>6. z < INPUT_BUF /\ \A n \in 1..z + 1 : Ring(n)' = IF n = z + 1 THEN c ELSE Ring(n)
  BY <1>2 DEF TypedStep
<1>7. PICK line : line = Append(B, c)
  OBVIOUS
<1>8. /\ line \in Seq(Chars) /\ Len(line) = y + 1
      /\ \A k \in 1..y : line[k] = B[k] /\ line[y + 1] = c
  BY <1>4, <1>7, AppendProperties
<1>9. \A k \in 1..y + 1 : line[k] = Ring(x + k)'
  <2> SUFFICES ASSUME NEW k \in 1..y + 1 PROVE line[k] = Ring(x + k)'
    OBVIOUS
  <2>1. CASE k = y + 1
    <3>1. x + k \in 1..z + 1 /\ x + k = z + 1
      BY <1>2, <2>1
    <3>2. Ring(x + k)' = c
      BY <1>6, <3>1
    <3>3. line[y + 1] = c
      BY <1>4, <1>7, AppendProperties
    <3> QED
      BY <2>1, <3>2, <3>3
  <2>2. CASE k \in 1..y
    <3>1. x + k \in 1..z + 1 /\ x + k # z + 1
      BY <1>2, <2>2
    <3>2. Ring(x + k)' = Ring(x + k)
      BY <1>6, <3>1
    <3> QED
      BY <1>4, <1>8, <2>2, <3>2
  <2> QED
    BY <2>1, <2>2
<1>10. \A k \in 1..x : A[k] = Ring(k)'
  <2> SUFFICES ASSUME NEW k \in 1..x PROVE A[k] = Ring(k)'
    OBVIOUS
  <2>1. k \in 1..z + 1 /\ k # z + 1
    BY <1>2
  <2> QED
    BY <1>4, <1>6, <2>1
<1>11. ASSUME c \in {NL, EOT} \/ Len(line) + Len(A) = INPUT_BUF
       PROVE  B2 = <<>> /\ A2 = A \o line
  <2>1. x2 = z + 1 /\ y2 = 0
    <3>1. c \in Stops \/ z + 1 = INPUT_BUF
      BY <1>2, <1>4, <1>8, <1>11, RingWidths DEF Stops
    <3>2. x2 = z + 1
      BY <1>2, <1>3, <3>1 DEF TypedStep
    <3>3. z = x + y /\ z + 1 = x2 + y2
      BY <1>2, <1>3
    <3> QED
      BY <3>2, <3>3
  <2>2. B2 = <<>>
    BY <1>5, <2>1
  <2>3. /\ A \o line \in Seq(Chars) /\ Len(A \o line) = z + 1
        /\ \A i \in 1..z + 1 : (A \o line)[i] = IF i <= x THEN A[i] ELSE line[i - x]
    <3>1. /\ A \o line \in Seq(Chars) /\ Len(A \o line) = Len(A) + Len(line)
          /\ \A i \in 1..Len(A) + Len(line) :
                (A \o line)[i] = IF i <= Len(A) THEN A[i] ELSE line[i - Len(A)]
      BY <1>4, <1>8, ConcatProperties
    <3>2. Len(A) = x /\ Len(A) + Len(line) = z + 1
      BY <1>2, <1>4, <1>8
    <3> QED
      BY <3>1, <3>2
  <2>4. ASSUME NEW i \in 1..z + 1 PROVE (A \o line)[i] = A2[i]
    <3>1. A2[i] = Ring(i)'
      BY <1>5, <2>1
    <3>2. CASE i <= x
      BY <1>2, <1>10, <2>3, <3>1, <3>2
    <3>3. CASE i > x
      <4>1. i - x \in 1..y + 1 /\ x + (i - x) = i
        BY <1>2, <3>3
      <4>2. line[i - x] = Ring(x + (i - x))'
        BY <1>9, <4>1
      <4> QED
        BY <1>2, <2>3, <3>1, <3>3, <4>1, <4>2
    <3> QED
      <4>1. i <= x \/ i > x
        OBVIOUS
      <4> QED
        BY <3>2, <3>3, <4>1
  <2>5. A2 = A \o line
    BY <1>5, <2>1, <2>3, <2>4, SeqEqual
  <2> QED
    BY <2>2, <2>5
<1>12. ASSUME ~(c \in {NL, EOT} \/ Len(line) + Len(A) = INPUT_BUF)
       PROVE  B2 = line /\ A2 = A
  <2>1. x2 = x /\ y2 = y + 1
    <3>1. ~(c \in Stops \/ z + 1 = INPUT_BUF)
      BY <1>2, <1>4, <1>8, <1>12, RingWidths DEF Stops
    <3>2. x2 = x
      BY <1>2, <1>3, <3>1 DEF TypedStep
    <3>3. z = x + y /\ z + 1 = x2 + y2
      BY <1>2, <1>3
    <3> QED
      BY <3>2, <3>3
  <2>2. \A k \in 1..y + 1 : B2[k] = line[k]
    BY <1>5, <1>9, <2>1
  <2>3. B2 = line
    BY <1>5, <1>8, <2>1, <2>2, SeqEqual
  <2>4. \A k \in 1..x : A2[k] = A[k]
    BY <1>5, <1>10, <2>1
  <2>5. A2 = A
    BY <1>4, <1>5, <2>1, <2>4, SeqEqual
  <2> QED
    BY <2>3, <2>5
<1>13. Len(B) + Len(A) < INPUT_BUF
  BY <1>2, <1>4, <1>6, RingWidths
<1> QED
  BY <1>1, <1>7, <1>11, <1>12, <1>13

\* Of the line the first k characters stay.
LEMMA CutSpans ==
    ASSUME RingInv, RingInv', NEW k \in 0..Line, CutStep(k)
    PROVE  /\ Span(input.w, input.e)' = SubSeq(Span(input.w, input.e), 1, k)
           /\ Span(input.r, input.w)' = Span(input.r, input.w)
           /\ Len(Span(input.w, input.e)) = Line
<1>1. PICK A, B, A2, B2 :
        /\ A = Span(input.r, input.w) /\ B = Span(input.w, input.e)
        /\ A2 = Span(input.r, input.w)' /\ B2 = Span(input.w, input.e)'
  OBVIOUS
<1>2. PICK x \in Nat, y \in Nat : x = Ready /\ y = Line /\ k \in 0..y
  BY IndicesApart DEF RingInv, IndexPlaces
<1>3. /\ A \in Seq(Chars) /\ Len(A) = x /\ \A n \in 1..x : A[n] = Ring(n)
      /\ B \in Seq(Chars) /\ Len(B) = y /\ \A n \in 1..y : B[n] = Ring(x + n)
  BY <1>1, <1>2, SpansInRing DEF SpanForm
<1>4. /\ A2 \in Seq(Chars) /\ Len(A2) = x /\ \A n \in 1..x : A2[n] = Ring(n)'
      /\ B2 \in Seq(Chars) /\ Len(B2) = k /\ \A n \in 1..k : B2[n] = Ring(x + n)'
  BY <1>1, <1>2, SpansInRingNext DEF SpanForm, CutStep
<1>5. \A n \in Nat : Ring(n)' = Ring(n)
  BY DEF CutStep
<1>6. A2 = A
  <2>1. \A n \in 1..x : A2[n] = A[n]
    BY <1>3, <1>4, <1>5
  <2> QED
    BY <1>3, <1>4, <2>1, SeqEqual
<1>7. B2 = SubSeq(B, 1, k)
  <2>1. \A n \in 1..k : B[n] \in Chars
    BY <1>2, <1>3, ElementOfSeq
  <2>2. /\ SubSeq(B, 1, k) \in Seq(Chars)
        /\ Len(SubSeq(B, 1, k)) = IF 1 <= k THEN k - 1 + 1 ELSE 0
        /\ \A i \in 1..k - 1 + 1 : SubSeq(B, 1, k)[i] = B[1 + i - 1]
    BY <1>2, <2>1, SubSeqProperties
  <2>3. Len(SubSeq(B, 1, k)) = k /\ \A i \in 1..k : SubSeq(B, 1, k)[i] = B[i]
    BY <1>2, <2>2
  <2>4. \A n \in 1..k : B2[n] = B[n]
    <3> SUFFICES ASSUME NEW n \in 1..k PROVE B2[n] = B[n]
      OBVIOUS
    <3>1. n \in 1..y /\ x + n \in Nat
      BY <1>2
    <3> QED
      BY <1>3, <1>4, <1>5, <3>1
  <2> QED
    BY <1>4, <2>2, <2>3, <2>4, SeqEqual
<1> QED
  BY <1>1, <1>2, <1>3, <1>6, <1>7

\* consoleread takes a prefix.
LEMMA ReadSpans ==
    ASSUME RingInv, RingInv', NEW len, NEW give, NEW used, ReadMoves(len, give, used)
    PROVE  /\ Span(input.w, input.e)' = Span(input.w, input.e)
           /\ Span(input.r, input.w)' =
                 SubSeq(Span(input.r, input.w), used + 1, Len(Span(input.r, input.w)))
<1>1. PICK A, B, A2, B2 :
        /\ A = Span(input.r, input.w) /\ B = Span(input.w, input.e)
        /\ A2 = Span(input.r, input.w)' /\ B2 = Span(input.w, input.e)'
  OBVIOUS
<1>2. PICK x \in Nat, y \in Nat : x = Ready /\ y = Line
  BY IndicesApart DEF RingInv, IndexPlaces
<1>3. used \in 0..x /\ Ready' = x - used /\ Line' = y
      /\ \A n \in Nat : Ring(n)' = Ring(used + n)
  BY <1>2 DEF ReadMoves
<1>4. /\ A \in Seq(Chars) /\ Len(A) = x /\ \A n \in 1..x : A[n] = Ring(n)
      /\ B \in Seq(Chars) /\ Len(B) = y /\ \A n \in 1..y : B[n] = Ring(x + n)
  BY <1>1, <1>2, SpansInRing DEF SpanForm
<1>5. PICK x2 : x2 = Ready' /\ x2 = x - used /\ x2 \in Nat
  BY <1>2, <1>3
<1>6. /\ A2 \in Seq(Chars) /\ Len(A2) = x2 /\ \A n \in 1..x2 : A2[n] = Ring(n)'
      /\ B2 \in Seq(Chars) /\ Len(B2) = y /\ \A n \in 1..y : B2[n] = Ring(x2 + n)'
  BY <1>1, <1>3, <1>5, SpansInRingNext DEF SpanForm
<1>7. B2 = B
  <2>1. ASSUME NEW n \in 1..y PROVE B2[n] = B[n]
    <3>1. x2 + n \in Nat /\ used + (x2 + n) = x + n
      BY <1>2, <1>3, <1>5
    <3>2. Ring(x2 + n)' = Ring(used + (x2 + n))
      BY <1>3, <3>1
    <3> QED
      BY <1>4, <1>6, <3>1, <3>2
  <2> QED
    BY <1>4, <1>6, <2>1, SeqEqual
<1>8. A2 = SubSeq(A, used + 1, x)
  <2>1. \A n \in used + 1..x : A[n] \in Chars
    BY <1>2, <1>3, <1>4, ElementOfSeq
  <2>2. used + 1 \in Int /\ x \in Int /\ x - (used + 1) + 1 = x2
        /\ \A n \in Int : (used + 1) + n - 1 = used + n
    BY <1>2, <1>3, <1>5
  <2>3. /\ SubSeq(A, used + 1, x) \in Seq(Chars)
        /\ Len(SubSeq(A, used + 1, x)) =
              IF used + 1 <= x THEN x - (used + 1) + 1 ELSE 0
        /\ \A n \in 1..x - (used + 1) + 1 :
              SubSeq(A, used + 1, x)[n] = A[(used + 1) + n - 1]
    BY <2>1, <2>2, SubSeqProperties
  <2>4. Len(SubSeq(A, used + 1, x)) = x2
        /\ \A n \in 1..x2 : SubSeq(A, used + 1, x)[n] = A[used + n]
    BY <1>2, <1>3, <1>5, <2>2, <2>3
  <2>5. ASSUME NEW n \in 1..x2 PROVE A2[n] = SubSeq(A, used + 1, x)[n]
    <3>1. used + n \in 1..x /\ n \in Nat
      BY <1>2, <1>3, <1>5
    <3>2. A2[n] = Ring(used + n)
      BY <1>3, <1>6, <3>1
    <3> QED
      BY <1>4, <2>4, <3>1, <3>2
  <2> QED
    BY <1>6, <2>3, <2>4, <2>5, SeqEqual
<1> QED
  BY <1>1, <1>4, <1>7, <1>8

\* At boot the ring is empty and nobody reads.
LEMMA ConsoleInitInv == ProcInit /\ ConsoleInit => ConsoleInv /\ T!TtyInit
<1> SUFFICES ASSUME ProcInit, ConsoleInit PROVE ConsoleInv /\ T!TtyInit
  OBVIOUS
<1> USE RingWidths
<1>1. input = [buf |-> [i \in 0..INPUT_BUF - 1 |-> NL], r |-> 0, w |-> 0, e |-> 0]
  BY DEF ConsoleInit
<1>2. 0 \in 0..Uints - 1 /\ NL \in Chars
  BY DEF Chars
<1>3. ConsoleTypes
  BY <1>1, <1>2 DEF ConsoleTypes, ConsoleInit
<1>4. (0 - 0) % Uints = 0
  BY <1>2, DistanceIs
<1>5. ConsoleTypeOK
  BY <1>1, <1>2, <1>4 DEF ConsoleTypeOK, ConsoleInit
<1>6. Line = 0 /\ Ready = 0
  BY <1>1, <1>4 DEF Line, Ready
<1>7. RingInv
  BY <1>3, <1>5, <1>6 DEF RingInv, LineInv
<1>8. ReadersSleepEmpty /\ ReadCallInv
  BY DEF ProcInit, ConsoleInit, ReadersSleepEmpty, ReadCallInv
<1>9. SpanForm
  BY <1>7, SpansInRing
<1>10. Span(input.r, input.w) = <<>> /\ Span(input.w, input.e) = <<>>
  <2>1. PICK A, B : A = Span(input.r, input.w) /\ B = Span(input.w, input.e)
    OBVIOUS
  <2>2. A \in Seq(Chars) /\ Len(A) = 0 /\ B \in Seq(Chars) /\ Len(B) = 0
    BY <1>6, <1>9, <2>1 DEF SpanForm
  <2>3. A = <<>> /\ B = <<>>
    BY <2>2
  <2> QED
    BY <2>1, <2>3
<1> QED
  BY <1>7, <1>8, <1>10 DEF ConsoleInv, T!TtyInit, ConsoleInit

\* A section of consoleread gets no more than one line, and uses up a ^D that
\* comes first in its call without giving it to the user.
LEMMA ReadIsTty ==
    ASSUME RingInv, RingInv', NEW p \in Procs,
           NEW len, NEW i, NEW give, NEW used,
           ReadStep(p, len, i, give, used), ReadMoves(len, give, used)
    PROVE  \/ T!Eof(p)
           \/ \E k \in 0..Len(Span(input.r, input.w)) : T!Deliver(p, k)
<1>1. PICK A, B, A2, B2 :
        /\ A = Span(input.r, input.w) /\ B = Span(input.w, input.e)
        /\ A2 = Span(input.r, input.w)' /\ B2 = Span(input.w, input.e)'
  OBVIOUS
<1>2. B2 = B /\ A2 = SubSeq(A, used + 1, Len(A))
  BY <1>1, ReadSpans
<1>3. A \in Seq(Chars) /\ Len(A) = Ready /\ \A k \in 1..Ready : A[k] = Ring(k)
  BY <1>1, SpansInRing DEF SpanForm
<1>4. PICK x \in Nat : x = Ready
  BY IndicesApart DEF RingInv, IndexPlaces
<1>5. /\ len \in 0..x /\ i \in 1..len + 1
      /\ \A k \in 1..i - 1 : Ring(k) \notin Stops
      /\ i <= len => Ring(i) \in Stops
  BY <1>4 DEF ReadStep, ReadMoves, LooksAt
<1>6. give = IF i > len THEN len ELSE IF Ring(i) = EOT THEN i - 1 ELSE i
  BY <1>5 DEF ReadStep, Takes
<1>7. used = IF (i <= len /\ Ring(i) = EOT) /\ ~EofKept(p, i) THEN i ELSE give
  BY DEF ReadStep, Takes
<1>8. /\ copied \in [Procs -> Nat]
      /\ \/ copied' = [copied EXCEPT ![p] = 0]
         \/ i = len + 1 /\ copied' = [copied EXCEPT ![p] = @ + give]
  BY DEF ReadStep, RingInv, ConsoleTypes
<1>9. CASE (i <= len /\ Ring(i) = EOT) /\ ~EofKept(p, i)
  <2>1. copied[p] = 0 /\ i = 1
    BY <1>5, <1>8, <1>9 DEF EofKept
  <2>2. used = 1 /\ i # len + 1 /\ x > 0
    BY <1>5, <1>7, <1>9, <2>1
  <2>3. A # <<>> /\ Head(A) = EOT
    <3>1. Len(A) > 0 /\ 1 \in 1..Ready
      BY <1>3, <1>4, <2>2
    <3>2. A # <<>> /\ A[1] = EOT
      BY <1>3, <1>9, <2>1, <3>1
    <3> QED
      BY <1>3, <3>2
  <2>4. A2 = Tail(A)
    <3>1. A2 = SubSeq(A, 2, Len(A))
      BY <1>2, <2>2
    <3> QED
      BY <1>3, <2>3, <3>1, TailIsSubSeq
  <2>5. copied' = copied
    BY <1>8, <2>1, <2>2
  <2> QED
    BY <1>1, <1>2, <2>1, <2>3, <2>4, <2>5 DEF T!Eof
<1>10. CASE ~((i <= len /\ Ring(i) = EOT) /\ ~EofKept(p, i))
  <2>1. used = give /\ give \in 0..x
    BY <1>5, <1>6, <1>7, <1>10
  <2>2. ASSUME NEW k \in 1..give PROVE A[k] # EOT /\ (A[k] = NL => k = give)
    <3>1. k \in 1..x /\ A[k] = Ring(k)
      BY <1>3, <1>4, <2>1
    <3>2. CASE k \in 1..i - 1
      BY <1>5, <3>1, <3>2 DEF Stops
    <3>3. CASE k = i
      <4>1. i <= len /\ Ring(i) # EOT /\ give = i
        BY <1>5, <1>6, <2>1, <3>3
      <4> QED
        BY <3>1, <3>3, <4>1
    <3>4. k \in 1..i - 1 \/ k = i
      BY <1>5, <1>6
    <3> QED
      BY <3>2, <3>3, <3>4
  <2>3. \E n \in {0, copied[p] + give} : copied' = [copied EXCEPT ![p] = n]
    BY <1>8
  <2>4. A2 = SubSeq(A, give + 1, Len(A)) /\ give \in 0..Len(A)
    BY <1>2, <1>3, <1>4, <2>1
  <2>5. T!Deliver(p, give)
    BY <1>1, <1>2, <2>2, <2>3, <2>4 DEF T!Deliver
  <2> QED
    BY <1>1, <2>4, <2>5
<1> QED
  BY <1>9, <1>10

\* Every step of the console is a step of the line discipline, or none.
LEMMA ConsoleSteps ==
    ASSUME ProcInv, ConsoleInv, RingInv', ConsoleNext
    PROVE  T!TtyNext \/ UNCHANGED T!ttyVars
<1>0. RingInv
  BY DEF ConsoleInv
<1>1. ASSUME UNCHANGED <<input, copied>> PROVE UNCHANGED T!ttyVars
  BY <1>1 DEF T!ttyVars, Span
<1>2. CASE ConsoleIntr
  <2>1. ASSUME NEW c \in Chars, ConsoleChar(c) PROVE T!Type(c)
    <3>1. TypedStep(c)
      BY <1>0, <2>1, ConsoleCharIs
    <3>2. copied' = copied
      BY <2>1 DEF ConsoleChar
    <3> QED
      BY <1>0, <3>1, <3>2, TypedSpans DEF T!Type
  <2>2. CASE Backspace \/ KillLine
    <3>1. PICK y \in Nat : y = Line /\ y # 0 /\ (CutStep(y - 1) \/ CutStep(0))
      BY <1>0, <2>2, EraseCases, IndicesApart DEF RingInv, IndexPlaces
    <3>2. PICK k \in 0..Line : CutStep(k) /\ (k = y - 1 \/ k = 0)
      BY <3>1
    <3>3. /\ Span(input.w, input.e)' = SubSeq(Span(input.w, input.e), 1, k)
          /\ Span(input.r, input.w)' = Span(input.r, input.w)
          /\ Len(Span(input.w, input.e)) = y
      BY <1>0, <3>1, <3>2, CutSpans
    <3>4. PICK B : B = Span(input.w, input.e)
      OBVIOUS
    <3>5. B # <<>> /\ Len(B) = y
      BY <3>1, <3>3, <3>4
    <3>6. SubSeq(B, 1, 0) = <<>>
      BY SubSeqEmpty
    <3>7. SubSeq(B, 1, k) \in {<<>>, SubSeq(B, 1, Len(B) - 1)}
      BY <3>2, <3>5, <3>6
    <3>8. copied' = copied
      BY <3>2 DEF CutStep
    <3> QED
      BY <3>3, <3>4, <3>5, <3>7, <3>8 DEF T!TtyNext, T!Erase
  <2> QED
    BY <1>2, <2>1, <2>2 DEF ConsoleIntr, T!TtyNext
<1>3. CASE ConsoleKill
  BY <1>1, <1>3 DEF ConsoleKill, consoleVars
<1>4. ASSUME NEW p \in Procs, ConsoleQuiet(p) \/ ConsoleCall(p)
      PROVE  UNCHANGED T!ttyVars
  BY <1>1, <1>4 DEF ConsoleQuiet, ConsoleCall, consoleVars
<1>5. ASSUME NEW p \in Procs, ConsoleRead(p) PROVE T!TtyNext
  <2>1. PICK len, i, give, used : ReadStep(p, len, i, give, used)
    BY <1>0, <1>5, ConsoleReadIs
  <2>2. ReadMoves(len, give, used)
    BY <1>0, <2>1, ReadKeeps
  <2> QED
    BY <1>0, <2>1, <2>2, ReadIsTty DEF T!TtyNext
<1> QED
  BY <1>2, <1>3, <1>4, <1>5 DEF ConsoleNext

-----------------------------------------------------------------------------
(* The three workloads share the process table.                            *)

\* As long as nobody has an end of the pipe, the steps of the other components
\* keep its invariant.
LEMMA NotOfPipeKeeps ==
    ASSUME PipeInv, ProcInv', UNCHANGED pipeVars, NotOfPipe,
           \A q \in Procs : ofile[q] = {}
    PROVE  PipeInv'
<1>1. QuietCall
  BY DEF QuietCall, NotOfPipe, SleepersStay, Stays, NoneJoins
<1> QED
  BY <1>1, QuietKeeps

\* A call of pipe.c wakes and sleeps on channels of the pipe, and begins and
\* ends in user mode, in exit, or in a call of the pipe.
LEMMA PipeNextApart ==
    ASSUME PipeInv, PipeNext
    PROVE  NotOfConsole
<1> USE InputChannel, Channels
<1>0. ProcInv /\ pc \in [Procs -> Places] /\ state \in [Procs -> States]
  BY DEF PipeInv, ProcInv, ProcTypes
<1>1. ASSUME NEW p \in Procs, ProcCall(p) PROVE NotOfConsole
  BY <1>0, <1>1, ProcCallApart
<1>2. ASSUME NEW p \in Procs, PipeQuiet(p) \/ PipeFork(p) \/ PipeExit(p)
      PROVE  NotOfConsole
  BY <1>1, <1>2 DEF PipeQuiet, PipeFork, PipeExit, ProcCall
<1>3. CASE PipeKill
  <2>1. PICK q \in Procs : Kill(q)
    BY <1>3, ProcessAssumption DEF PipeKill
  <2> QED
    BY <1>1, <2>1 DEF ProcCall
<1>4. ASSUME NEW p \in Procs, UNCHANGED <<state, chan, killed>>, Running(p, pc[p]),
             pc[p] # "consoleread", NEW where, where # "consoleread",
             pc' = [pc EXCEPT ![p] = where] \/ pc' = pc
      PROVE  NotOfConsole
  BY <1>0, <1>4 DEF NotOfConsole, NoneJoins, Stays
<1>5. ASSUME NEW p \in Procs, killed' = killed, state[p] = "RUNNABLE",
             pc[p] # "consoleread", NEW where, where # "consoleread",
             pc' = [pc EXCEPT ![p] = where] \/ pc' = pc,
             NEW c \in {NReadChan, NWriteChan}, Wakeup(c)
      PROVE  NotOfConsole
  <2>1. \A q \in Procs : IF state[q] = "SLEEPING" /\ chan[q] = c
                         THEN state'[q] = "RUNNABLE" /\ chan'[q] = NoChan
                         ELSE state'[q] = state[q] /\ chan'[q] = chan[q]
    BY <1>0, <1>5, WakeupEffect
  <2> QED
    BY <1>0, <1>5, <2>1 DEF NotOfConsole, NoneJoins, Stays, Live
<1>6. ASSUME NEW p \in Procs, Close(p) PROVE NotOfConsole
  <2>1. Running(p, pc[p]) /\ state[p] = "RUNNABLE" /\ pc[p] # "consoleread"
    BY <1>6 DEF Close, InUser, Running
  <2>2. PICK f \in ofile[p] : FileClose(p, f)
    BY <1>6 DEF Close
  <2>3. UNCHANGED <<killed, pc>>
    BY <2>2 DEF FileClose
  <2>4. UNCHANGED <<state, chan>> \/ Wakeup(NReadChan) \/ Wakeup(NWriteChan)
    BY <2>2 DEF FileClose, PipeClose
  <2> QED
    BY <1>4, <1>5, <2>1, <2>3, <2>4
<1>7. ASSUME NEW p \in Procs, SysPipe(p) \/ WriteCall(p) PROVE NotOfConsole
  <2>1. Running(p, pc[p]) /\ pc[p] = "user" /\ UNCHANGED <<state, chan, killed>>
        /\ (pc' = pc \/ pc' = [pc EXCEPT ![p] = "write"])
    BY <1>7 DEF SysPipe, WriteCall, InUser, Running, procVars
  <2> QED
    BY <1>4, <2>1
<1>8. ASSUME NEW p \in Procs, PipeWrite(p) PROVE NotOfConsole
  <2>1. /\ Running(p, pc[p]) /\ state[p] = "RUNNABLE" /\ pc[p] = "write"
        /\ killed' = killed
        /\ pc' = pc \/ pc' = [pc EXCEPT ![p] = "user"]
    BY <1>8 DEF PipeWrite, Running
  <2>2. CASE UNCHANGED <<state, chan>> \/ Wakeup(NReadChan)
    BY <1>4, <1>5, <2>1, <2>2
  <2>3. CASE SleepFrom(Woken(state, NReadChan), p, NWriteChan)
    <3>1. /\ state'[p] = "SLEEPING" /\ chan'[p] = NWriteChan
          /\ \A q \in Procs \ {p} :
                state'[q] = Woken(state, NReadChan)[q]
                /\ chan'[q] = Tidy(Woken(state, NReadChan))[q]
      BY <1>0, <2>3 DEF SleepFrom, Woken, Tidy
    <3>2. \A q \in Procs \ {p} :
             IF state[q] = "SLEEPING" /\ chan[q] = NReadChan
             THEN state'[q] = "RUNNABLE" /\ chan'[q] = NoChan
             ELSE state'[q] = state[q]
                  /\ (state[q] = "SLEEPING" => chan'[q] = chan[q])
      BY <3>1 DEF Woken, Tidy
    <3> QED
      BY <1>0, <2>1, <3>1, <3>2 DEF NotOfConsole, NoneJoins, Stays, Live
  <2> QED
    BY <1>8, <2>2, <2>3 DEF PipeWrite
<1>9. ASSUME NEW p \in Procs, NEW n \in Reads, PipeRead(p, n) PROVE NotOfConsole
  <2>1. /\ Running(p, pc[p]) /\ state[p] = "RUNNABLE" /\ pc[p] # "consoleread"
        /\ killed' = killed
        /\ \/ pc' = [pc EXCEPT ![p] = "read"]
           \/ pc' = [pc EXCEPT ![p] = "user"]
    BY <1>9 DEF PipeRead, InUser, Running
  <2>2. CASE UNCHANGED <<state, chan>> \/ Wakeup(NWriteChan)
    BY <1>4, <1>5, <2>1, <2>2
  <2>3. CASE Sleep(p, NReadChan)
    <3>1. /\ state'[p] = "SLEEPING" /\ chan'[p] = NReadChan
          /\ \A q \in Procs \ {p} : state'[q] = state[q] /\ chan'[q] = chan[q]
      BY <1>0, <2>1, <2>3, SleepAlone
    <3> QED
      BY <1>0, <2>1, <3>1 DEF NotOfConsole, NoneJoins, Stays, Live
  <2> QED
    BY <1>9, <2>2, <2>3 DEF PipeRead
<1> QED
  BY <1>2, <1>3, <1>6, <1>7, <1>8, <1>9 DEF PipeNext, UserCalls

-----------------------------------------------------------------------------
(* The invariant of the memory.                                            *)

Spaces ==
    [dir : BOOLEAN, kern : 0..KTABS, tabs : SUBSET Index, user : SUBSET Index,
     sz : 0..MAXPAGES * PGSIZE]

MemTypes ==
    /\ nfree \in Nat /\ kstack \subseteq Procs /\ mem \subseteq Procs
    /\ space \in [Procs -> Spaces] /\ build \in [Procs -> Spaces]
    /\ goal \in [Procs -> 0..MAXPAGES * PGSIZE]

\* A slot has a stack and a page table as long as it has a process; the slot of
\* a fork() under way may have the stack.
SlotPages(p) ==
    /\ p \in InUse => p \in kstack /\ space[p].dir
    /\ state[p] \in {"UNUSED", "EMBRYO"} => space[p] = NoSpace
    /\ state[p] = "UNUSED" => p \notin kstack

\* The pages of an address space of n bytes.
Below(n) == 0..PgRoundUp(n) - 1

\* The memory of p is what its size says (SizeMapped, of one process).
Mapped(p) ==
    p \in InUse => \A i \in Index :
        /\ i * PGSIZE < space[p].sz => i \in space[p].user
        /\ i * PGSIZE >= space[p].sz /\ pc[p] # "sbrk" => i \notin space[p].user

\* Only fork and exec build a page table, and no call goes above what it was
\* asked for.  A page waits for its table and for nothing else.
CallPages(p) ==
    /\ pc[p] \notin {"fork", "exec"} => build[p] = NoSpace
    /\ pc[p] \in {"exec", "sbrk"} => state[p] = "RUNNABLE"
    /\ build[p].user \subseteq Below(goal[p])
    /\ pc[p] = "sbrk" => space[p].sz < goal[p] /\ space[p].user \subseteq Below(goal[p])
    /\ p \in mem => Building(p) /\ Wanted(p) = "table" /\ ~TableThere(p)

PagesSound(p) == SlotPages(p) /\ Mapped(p) /\ CallPages(p)

MemInv == MemTypes /\ PagesConserved /\ \A p \in Procs : PagesSound(p)

-----------------------------------------------------------------------------
(* Sizes in bytes and in pages.                                            *)

\* The sizes of the machine.
LEMMA MemSizes ==
    /\ NPAGES \in Nat /\ PGSIZE \in Nat \ {0} /\ SPAN \in Nat \ {0}
    /\ MAXPAGES \in Nat \ {0} /\ KTABS \in Nat /\ NPAGES >= KTABS + 4
    /\ MAXPAGES * PGSIZE \in Nat
    /\ Sizes \subseteq 0..MAXPAGES * PGSIZE /\ ExecSizes \subseteq 0..MAXPAGES * PGSIZE
    /\ 0 \notin Sizes \cup ExecSizes
<1>1. /\ NPAGES \in Nat /\ PGSIZE \in Nat \ {0} /\ SPAN \in Nat \ {0}
      /\ MAXPAGES \in Nat \ {0} /\ KTABS \in Nat /\ NPAGES >= KTABS + 4
  BY MemoryAssumption
<1>2. PICK m : m = MAXPAGES * PGSIZE
  OBVIOUS
<1>3. m \in Nat
  BY <1>1, <1>2
<1>4. Sizes \subseteq 1..m /\ ExecSizes \subseteq 1..m
  BY <1>2, MemoryAssumption
<1> QED
  BY <1>1, <1>2, <1>3, <1>4

\* A page is below PGROUNDUP of a size if its first byte is below the size.
LEMMA PageBelow ==
    ASSUME NEW n \in Nat, NEW i \in Nat
    PROVE  /\ PgRoundUp(n) \in Nat
           /\ i < PgRoundUp(n) <=> i * PGSIZE < n
<1>1. PICK m \in Nat \ {0} : m = PGSIZE
  BY MemSizes
<1>2. PICK a, q, r : a = n + m - 1 /\ q = a \div m /\ r = a % m
  OBVIOUS
<1>3. a \in Nat
  BY <1>1, <1>2
<1>4. r \in 0..m - 1 /\ a = m * q + r /\ q \in Int
  BY <1>2, <1>3, Remainder
<1>5. q \in Nat
  <2>1. q < 0 => m * q + m <= m * 0
    BY <1>4, MulLess
  <2> QED
    BY <1>3, <1>4, <2>1
<1>6. PICK u, v : u = m * i /\ v = m * q
  OBVIOUS
<1>7. u \in Int /\ v \in Int
  BY <1>5, <1>6
<1>8. i < q => u + m <= v
  BY <1>5, <1>6, MulLess
<1>9. q < i => v + m <= u
  BY <1>5, <1>6, MulLess
<1>10. q = i => u = v
  BY <1>6
<1>11. i < q <=> u < n
  BY <1>2, <1>4, <1>5, <1>6, <1>7, <1>8, <1>9, <1>10
<1>12. PgRoundUp(n) = q /\ i * PGSIZE = u
  BY <1>1, <1>2, <1>6 DEF PgRoundUp
<1> QED
  BY <1>5, <1>11, <1>12

\* No size reaches above the largest address space.
LEMMA BelowIndex ==
    ASSUME NEW n \in 0..MAXPAGES * PGSIZE
    PROVE  Below(n) \subseteq Index
<1> SUFFICES ASSUME NEW i \in Below(n) PROVE i \in Index
  OBVIOUS
<1>0. n \in Nat /\ n <= MAXPAGES * PGSIZE
  BY MemSizes
<1>1. PgRoundUp(n) \in Nat
  BY <1>0, PageBelow
<1>2. i \in Nat /\ i < PgRoundUp(n)
  BY <1>1 DEF Below
<1>3. i * PGSIZE < n
  BY <1>0, <1>2, PageBelow
<1>4. PICK m \in Nat \ {0}, k \in Nat : m = PGSIZE /\ k = MAXPAGES
  BY MemSizes
<1>5. PICK u, v : u = m * i /\ v = m * k
  OBVIOUS
<1>6. u \in Int /\ v \in Int /\ u < v
  BY <1>0, <1>2, <1>3, <1>4, <1>5
<1>7. k < i => v + m <= u
  BY <1>2, <1>4, <1>5, MulLess
<1>8. k = i => u = v
  BY <1>5
<1>9. i < k
  BY <1>2, <1>4, <1>6, <1>7, <1>8
<1> QED
  BY <1>2, <1>4, <1>9 DEF Index

\* The pages of a size.
LEMMA BelowIs ==
    ASSUME NEW n \in Nat, NEW i \in Index
    PROVE  i \in Below(n) <=> i * PGSIZE < n
<1>1. i \in Nat
  BY MemSizes DEF Index
<1> QED
  BY <1>1, PageBelow DEF Below

\* A page table is one of the user part.
LEMMA TableInIndex ==
    ASSUME NEW i \in Index
    PROVE  TableOf(i) \in Index
<1>1. PICK m \in Nat \ {0}, k \in Nat : m = SPAN /\ k = MAXPAGES
  BY MemSizes
<1>2. i \in Nat /\ i < k
  BY <1>1 DEF Index
<1>3. PICK q, r : q = i \div m /\ r = i % m
  OBVIOUS
<1>4. r \in 0..m - 1 /\ i = m * q + r /\ q \in Int
  BY <1>2, <1>3, Remainder
<1>5. q \in Nat
  <2>1. q < 0 => m * q + m <= m * 0
    BY <1>4, MulLess
  <2> QED
    BY <1>2, <1>4, <2>1
<1>6. q <= i
  <2>1. q <= m * q
    BY <1>5
  <2> QED
    BY <1>2, <1>4, <1>5, <2>1
<1>7. q \in 0..k - 1
  BY <1>1, <1>2, <1>5, <1>6
<1> QED
  BY <1>1, <1>3, <1>7 DEF TableOf, Index

-----------------------------------------------------------------------------
(* Counting pages.                                                         *)

\* All that a page table can point to.
AllPointers ==
    {<<"dir", 0>>} \cup {"kern"} \X (1..KTABS) \cup {"tab"} \X Index \cup {"user"} \X Index

\* A page table points to finitely many pages, an empty one to none.
LEMMA PointersFinite ==
    /\ IsFiniteSet(AllPointers)
    /\ \A sp \in Spaces : /\ Pointers(sp) \subseteq AllPointers
                          /\ IsFiniteSet(Pointers(sp)) /\ PagesOf(sp) \in Nat
    /\ NoSpace \in Spaces /\ PagesOf(NoSpace) = 0 /\ Pointers(NoSpace) = {}
<1>1. IsFiniteSet(AllPointers)
  <2>1. IsFiniteSet(1..KTABS) /\ IsFiniteSet(Index)
    BY MemSizes, FS_Interval DEF Index
  <2>2. /\ IsFiniteSet({<<"dir", 0>>}) /\ IsFiniteSet({"kern"})
        /\ IsFiniteSet({"tab"}) /\ IsFiniteSet({"user"})
    BY FS_Singleton
  <2>3. /\ IsFiniteSet({"kern"} \X (1..KTABS)) /\ IsFiniteSet({"tab"} \X Index)
        /\ IsFiniteSet({"user"} \X Index)
    BY <2>1, <2>2, FS_Product
  <2>4. IsFiniteSet({<<"dir", 0>>} \cup {"kern"} \X (1..KTABS))
    BY <2>2, <2>3, FS_Union
  <2>5. IsFiniteSet({<<"dir", 0>>} \cup {"kern"} \X (1..KTABS) \cup {"tab"} \X Index)
    BY <2>3, <2>4, FS_Union
  <2> QED
    BY <2>3, <2>5, FS_Union DEF AllPointers
<1>2. ASSUME NEW sp \in Spaces
      PROVE  /\ Pointers(sp) \subseteq AllPointers
             /\ IsFiniteSet(Pointers(sp)) /\ PagesOf(sp) \in Nat
  <2>1. sp.kern \in 0..KTABS /\ sp.tabs \subseteq Index /\ sp.user \subseteq Index
    BY DEF Spaces
  <2>2. 1..sp.kern \subseteq 1..KTABS
    BY <2>1, MemSizes
  <2>3. Pointers(sp) \subseteq AllPointers
    BY <2>1, <2>2 DEF Pointers, AllPointers
  <2> QED
    BY <1>1, <2>3, FS_Subset, FS_CardinalityType DEF PagesOf
<1>3. NoSpace \in Spaces
  <2>1. 0 \in 0..KTABS /\ 0 \in 0..MAXPAGES * PGSIZE
    BY MemSizes
  <2> QED
    BY <2>1 DEF NoSpace, Spaces
<1>4. Pointers(NoSpace) = {}
  BY DEF Pointers, NoSpace
<1>5. PagesOf(NoSpace) = 0
  BY <1>4, FS_EmptySet DEF PagesOf
<1> QED
  BY <1>1, <1>2, <1>3, <1>4, <1>5

\* One pointer more is one page more.
LEMMA OneMore ==
    ASSUME NEW sp \in Spaces, NEW x, x \notin Pointers(sp),
           NEW sp2, Pointers(sp2) = Pointers(sp) \cup {x}
    PROVE  PagesOf(sp2) = PagesOf(sp) + 1
  BY PointersFinite, FS_AddElement, ZenonT(30) DEF PagesOf

\* What kalloc can add to a page table.
LEMMA PagesAdded ==
    ASSUME NEW sp \in Spaces, NEW i \in Index
    PROVE  /\ ~sp.dir => /\ [sp EXCEPT !.dir = TRUE] \in Spaces
                         /\ PagesOf([sp EXCEPT !.dir = TRUE]) = PagesOf(sp) + 1
           /\ sp.kern < KTABS =>
                 /\ [sp EXCEPT !.kern = @ + 1] \in Spaces
                 /\ PagesOf([sp EXCEPT !.kern = @ + 1]) = PagesOf(sp) + 1
           /\ i \notin sp.user =>
                 /\ [sp EXCEPT !.user = @ \cup {i}] \in Spaces
                 /\ PagesOf([sp EXCEPT !.user = @ \cup {i}]) = PagesOf(sp) + 1
           /\ i \notin sp.tabs =>
                 /\ [sp EXCEPT !.tabs = @ \cup {i}] \in Spaces
                 /\ PagesOf([sp EXCEPT !.tabs = @ \cup {i}]) = PagesOf(sp) + 1
<1>0. /\ sp.dir \in BOOLEAN /\ sp.kern \in 0..KTABS /\ sp.tabs \subseteq Index
      /\ sp.user \subseteq Index
      /\ sp = [dir |-> sp.dir, kern |-> sp.kern, tabs |-> sp.tabs, user |-> sp.user,
               sz |-> sp.sz]
  BY DEF Spaces
<1>1. ASSUME ~sp.dir
      PROVE  /\ [sp EXCEPT !.dir = TRUE] \in Spaces
             /\ PagesOf([sp EXCEPT !.dir = TRUE]) = PagesOf(sp) + 1
  <2>1. PICK sp2 : sp2 = [sp EXCEPT !.dir = TRUE]
    OBVIOUS
  <2>2. sp2 \in Spaces /\ sp2.dir /\ sp2.kern = sp.kern /\ sp2.tabs = sp.tabs
        /\ sp2.user = sp.user
    BY <2>1 DEF Spaces
  <2>3. <<"dir", 0>> \notin Pointers(sp)
    BY <1>1 DEF Pointers
  <2>4. Pointers(sp2) = Pointers(sp) \cup {<<"dir", 0>>}
    BY <1>1, <2>2 DEF Pointers
  <2> QED
    BY <2>1, <2>2, <2>3, <2>4, OneMore
<1>2. ASSUME sp.kern < KTABS
      PROVE  /\ [sp EXCEPT !.kern = @ + 1] \in Spaces
             /\ PagesOf([sp EXCEPT !.kern = @ + 1]) = PagesOf(sp) + 1
  <2>1. PICK sp2 : sp2 = [sp EXCEPT !.kern = @ + 1]
    OBVIOUS
  <2>2. PICK k : k = sp.kern
    OBVIOUS
  <2>3. k \in 0..KTABS /\ k + 1 \in 0..KTABS /\ 1..k + 1 = 1..k \cup {k + 1} /\ k + 1 \notin 1..k
    BY <1>0, <1>2, <2>2, MemSizes
  <2>4. sp2 \in Spaces /\ sp2.dir = sp.dir /\ sp2.kern = k + 1 /\ sp2.tabs = sp.tabs
        /\ sp2.user = sp.user
    BY <2>1, <2>2, <2>3 DEF Spaces
  <2>5. <<"kern", k + 1>> \notin Pointers(sp)
    BY <2>2, <2>3 DEF Pointers
  <2>6. {"kern"} \X (1..k + 1) = {"kern"} \X (1..k) \cup {<<"kern", k + 1>>}
    BY <2>3
  <2>7. Pointers(sp2) = Pointers(sp) \cup {<<"kern", k + 1>>}
    BY <2>2, <2>4, <2>6 DEF Pointers
  <2> QED
    BY <2>1, <2>4, <2>5, <2>7, OneMore
<1>3. ASSUME i \notin sp.user
      PROVE  /\ [sp EXCEPT !.user = @ \cup {i}] \in Spaces
             /\ PagesOf([sp EXCEPT !.user = @ \cup {i}]) = PagesOf(sp) + 1
  <2>1. PICK sp2 : sp2 = [sp EXCEPT !.user = @ \cup {i}]
    OBVIOUS
  <2>2. sp2 \in Spaces /\ sp2.dir = sp.dir /\ sp2.kern = sp.kern /\ sp2.tabs = sp.tabs
        /\ sp2.user = sp.user \cup {i}
    BY <1>0, <2>1 DEF Spaces
  <2>3. <<"user", i>> \notin Pointers(sp)
    BY <1>3 DEF Pointers
  <2>4. Pointers(sp2) = Pointers(sp) \cup {<<"user", i>>}
    BY <2>2 DEF Pointers
  <2> QED
    BY <2>1, <2>2, <2>3, <2>4, OneMore
<1>4. ASSUME i \notin sp.tabs
      PROVE  /\ [sp EXCEPT !.tabs = @ \cup {i}] \in Spaces
             /\ PagesOf([sp EXCEPT !.tabs = @ \cup {i}]) = PagesOf(sp) + 1
  <2>1. PICK sp2 : sp2 = [sp EXCEPT !.tabs = @ \cup {i}]
    OBVIOUS
  <2>2. sp2 \in Spaces /\ sp2.dir = sp.dir /\ sp2.kern = sp.kern
        /\ sp2.tabs = sp.tabs \cup {i} /\ sp2.user = sp.user
    BY <1>0, <2>1 DEF Spaces
  <2>3. <<"tab", i>> \notin Pointers(sp)
    BY <1>4 DEF Pointers
  <2>4. Pointers(sp2) = Pointers(sp) \cup {<<"tab", i>>}
    BY <2>2 DEF Pointers
  <2> QED
    BY <2>1, <2>2, <2>3, <2>4, OneMore
<1> QED
  BY <1>1, <1>2, <1>3, <1>4

\* What calls that give back memory, or set a size, leave.
LEMMA PagesLeft ==
    ASSUME NEW sp \in Spaces, NEW n \in 0..MAXPAGES * PGSIZE, NEW i \in Nat
    PROVE  /\ [sp EXCEPT !.sz = n] \in Spaces
           /\ PagesOf([sp EXCEPT !.sz = n]) = PagesOf(sp)
           /\ Cut(sp, i) \in Spaces /\ PagesOf(Cut(sp, i)) <= PagesOf(sp)
<1>1. PICK sp2 : sp2 = [sp EXCEPT !.sz = n]
  OBVIOUS
<1>2. sp2 \in Spaces /\ sp2.dir = sp.dir /\ sp2.kern = sp.kern /\ sp2.tabs = sp.tabs
      /\ sp2.user = sp.user
  BY <1>1 DEF Spaces
<1>3. Pointers(sp2) = Pointers(sp)
  BY <1>2 DEF Pointers
<1>4. PICK sp3 : sp3 = Cut(sp, i)
  OBVIOUS
<1>5. sp3 \in Spaces /\ sp3.dir = sp.dir /\ sp3.kern = sp.kern /\ sp3.tabs = sp.tabs
      /\ sp3.user \subseteq sp.user
  BY <1>4 DEF Spaces, Cut
<1>6. Pointers(sp3) \subseteq Pointers(sp)
  BY <1>5 DEF Pointers
<1>7. PagesOf(sp3) <= PagesOf(sp)
  BY <1>6, PointersFinite, FS_Subset DEF PagesOf
<1> QED
  BY <1>1, <1>2, <1>3, <1>4, <1>5, <1>7 DEF PagesOf

\* The pages that the page tables of the others lead to.
HeldBut(tables, p) == UNION {{q} \X Pointers(tables[q]) : q \in Procs \ {p}}

\* The pages of p are counted apart from those of the others.
LEMMA HeldSplit ==
    ASSUME NEW f \in [Procs -> Spaces], NEW p \in Procs
    PROVE  /\ Cardinality(HeldBut(f, p)) \in Nat
           /\ Cardinality(Held(f)) = Cardinality(HeldBut(f, p)) + PagesOf(f[p])
<1>1. IsFiniteSet(Procs \X AllPointers)
  <2>1. NPROC \in Int /\ IsFiniteSet(Procs)
    BY ProcessAssumption, FS_Interval DEF Procs
  <2> QED
    BY <2>1, PointersFinite, FS_Product
<1>2. f[p] \in Spaces /\ \A q \in Procs : Pointers(f[q]) \subseteq AllPointers
  BY PointersFinite
<1>3. HeldBut(f, p) \subseteq Procs \X AllPointers
  BY <1>2 DEF HeldBut
<1>4. IsFiniteSet(HeldBut(f, p)) /\ Cardinality(HeldBut(f, p)) \in Nat
  BY <1>1, <1>3, FS_Subset, FS_CardinalityType
<1>5. PICK mine : mine = {p} \X Pointers(f[p])
  OBVIOUS
<1>6. IsFiniteSet(mine) /\ Cardinality(mine) = PagesOf(f[p])
  <2>1. IsFiniteSet({p}) /\ Cardinality({p}) = 1
    BY FS_Singleton
  <2>2. IsFiniteSet(Pointers(f[p])) /\ PagesOf(f[p]) \in Nat
    BY <1>2, PointersFinite
  <2>3. IsFiniteSet(mine) /\ Cardinality(mine) = 1 * Cardinality(Pointers(f[p]))
    BY <1>5, <2>1, <2>2, FS_Product
  <2> QED
    BY <2>2, <2>3 DEF PagesOf
<1>7. Held(f) = HeldBut(f, p) \cup mine
  BY <1>5 DEF Held, HeldBut
<1>8. HeldBut(f, p) \cap mine = {}
  BY <1>5 DEF HeldBut
<1>9. Cardinality(Held(f)) = Cardinality(HeldBut(f, p)) + Cardinality(mine) - 0
  BY <1>4, <1>6, <1>7, <1>8, FS_Union, FS_EmptySet
<1> QED
  BY <1>2, <1>4, <1>6, <1>9, PointersFinite

\* The pages of all, when only p's page table is another one.
LEMMA HeldMoves ==
    ASSUME NEW f \in [Procs -> Spaces], NEW p \in Procs, NEW sp \in Spaces,
           NEW g, g = [f EXCEPT ![p] = sp]
    PROVE  /\ g \in [Procs -> Spaces]
           /\ Cardinality(Held(f)) \in Nat /\ Cardinality(Held(g)) \in Nat
           /\ Cardinality(Held(g)) = Cardinality(Held(f)) - PagesOf(f[p]) + PagesOf(sp)
<1>1. g \in [Procs -> Spaces] /\ g[p] = sp /\ \A q \in Procs \ {p} : g[q] = f[q]
  OBVIOUS
<1>2. HeldBut(g, p) = HeldBut(f, p)
  BY <1>1 DEF HeldBut
<1>3. f[p] \in Spaces /\ PagesOf(f[p]) \in Nat /\ PagesOf(sp) \in Nat
  BY PointersFinite
<1>4. /\ Cardinality(HeldBut(f, p)) \in Nat
      /\ Cardinality(Held(f)) = Cardinality(HeldBut(f, p)) + PagesOf(f[p])
      /\ Cardinality(Held(g)) = Cardinality(HeldBut(f, p)) + PagesOf(sp)
  BY <1>1, <1>2, HeldSplit
<1> QED
  BY <1>1, <1>3, <1>4

-----------------------------------------------------------------------------
(* Whose pages stay as they are.                                           *)

\* q is where it was, inside the same call with the same pages.
StaysPut(q) ==
    /\ space'[q] = space[q] /\ build'[q] = build[q] /\ goal'[q] = goal[q]
    /\ pc'[q] = pc[q] /\ np'[q] = np[q]
    /\ q \in mem' <=> q \in mem
    /\ q \in kstack' <=> q \in kstack
    /\ pc[q] = "fork" /\ np[q] \in kstack => np[q] \in kstack'
    /\ state'[q] = state[q] \/ (state[q] = "SLEEPING" /\ state'[q] \in Live)

\* q leaves and enters calls that do not take pages.
MovesOn(q) ==
    /\ space'[q] = space[q] /\ build'[q] = build[q]
    /\ pc[q] \notin {"fork", "exec", "sbrk"} /\ pc'[q] \notin {"exec", "sbrk"}
    /\ q \in mem' <=> q \in mem
    /\ q \in kstack' <=> q \in kstack
    /\ \/ state'[q] = state[q]
       \/ state[q] \in Live /\ state'[q] \in Live \cup {"ZOMBIE"}
       \/ state[q] = "UNUSED" /\ state'[q] = "EMBRYO"

\* Outside of the calls that take pages there is nothing under way.
LEMMA NothingUnderWay ==
    ASSUME NEW q, CallPages(q), pc[q] \notin {"fork", "exec", "sbrk"}
    PROVE  build[q] = NoSpace /\ q \notin mem
  BY DEF CallPages, Building, Running

\* Such a q keeps its part of the invariant.
LEMMA PagesStay ==
    ASSUME NEW q \in Procs, PagesSound(q), StaysPut(q) \/ MovesOn(q)
    PROVE  PagesSound(q)'
<1>1. CASE StaysPut(q)
  <2>1. q \in InUse' <=> q \in InUse
    BY <1>1 DEF StaysPut, InUse, Live
  <2>2. SlotPages(q)'
    BY <1>1, <2>1 DEF PagesSound, SlotPages, StaysPut, Live
  <2>3. Mapped(q)'
    BY <1>1, <2>1 DEF PagesSound, Mapped, StaysPut
  <2>4. ASSUME q \in mem'
        PROVE  Building(q)' /\ Wanted(q)' = "table" /\ ~TableThere(q)'
    <3>1. q \in mem /\ Building(q) /\ Wanted(q) = "table" /\ ~TableThere(q)
      BY <1>1, <2>4 DEF PagesSound, CallPages, StaysPut
    <3>2. Site(q)' = Site(q)
      BY <1>1 DEF StaysPut, Site
    <3>3. Missing(q)' = Missing(q)
      BY <1>1, <3>2 DEF StaysPut, Missing
    <3>4. Building(q)'
      BY <1>1, <3>1 DEF StaysPut, Building, Running
    <3>5. TableThere(q)' = TableThere(q)
      BY <3>2, <3>3 DEF TableThere
    <3>6. ~(pc[q] = "fork" /\ np[q] \notin kstack)
      BY <3>1 DEF Wanted
    <3>7. ~(pc'[q] = "fork" /\ np'[q] \notin kstack')
      BY <1>1, <3>6 DEF StaysPut
    <3>8. Site(q).dir /\ ~(Site(q).kern < KTABS) /\ Missing(q) # {}
      BY <3>1, <3>6 DEF Wanted
    <3>9. Wanted(q)' = "table"
      BY <2>4, <3>2, <3>3, <3>7, <3>8 DEF Wanted
    <3> QED
      BY <3>1, <3>4, <3>5, <3>9
  <2>5. CallPages(q)'
    BY <1>1, <2>4 DEF PagesSound, CallPages, StaysPut, Below
  <2> QED
    BY <2>2, <2>3, <2>5 DEF PagesSound
<1>2. CASE MovesOn(q)
  <2>1. q \in InUse' <=> q \in InUse
    BY <1>2 DEF MovesOn, InUse, Live
  <2>2. SlotPages(q)'
    BY <1>2, <2>1 DEF PagesSound, SlotPages, MovesOn, Live
  <2>3. Mapped(q)'
    BY <1>2, <2>1 DEF PagesSound, Mapped, MovesOn
  <2>4. build[q] = NoSpace /\ q \notin mem
    BY <1>2, NothingUnderWay DEF PagesSound, MovesOn
  <2>5. NoSpace.user = {}
    BY DEF NoSpace
  <2>6. CallPages(q)'
    BY <1>2, <2>4, <2>5 DEF CallPages, MovesOn
  <2> QED
    BY <2>2, <2>3, <2>6 DEF PagesSound
<1> QED
  BY <1>1, <1>2

\* Calls that take and give back nothing.
LEMMA NoPagesMove ==
    ASSUME MemInv, UNCHANGED <<nfree, kstack, space, build, mem>>,
           goal' \in [Procs -> 0..MAXPAGES * PGSIZE],
           \A q \in Procs : PagesSound(q)'
    PROVE  MemInv'
<1>1. MemTypes'
  BY DEF MemInv, MemTypes
<1>2. PagesConserved'
  <2>1. Held(space)' = Held(space) /\ Held(build)' = Held(build)
    BY DEF Held
  <2> QED
    BY <2>1 DEF MemInv, PagesConserved
<1> QED
  BY <1>1, <1>2 DEF MemInv

\* exit, and wait where it finds no zombie.
LEMMA ExitWaitMem ==
    ASSUME ProcInv, MemInv, NEW p \in Procs, UNCHANGED memVars,
           ExitCall(p) \/ ExitZombie(p) \/ (Wait(p) /\ Zombies(p) = {})
    PROVE  MemInv'
<1>0. pc \in [Procs -> Places] /\ state \in [Procs -> States]
  BY DEF ProcInv, ProcTypes
<1>1. UNCHANGED <<nfree, kstack, space, build, mem, goal>>
  BY DEF memVars
<1>2. ASSUME NEW q \in Procs PROVE StaysPut(q) \/ MovesOn(q)
  <2>1. CASE ExitCall(p)
    BY <1>0, <1>1, <2>1 DEF ExitCall, Running, StaysPut, MovesOn
  <2>2. CASE ExitZombie(p)
    <3>1. UNCHANGED <<pc, np>> /\ state[p] = "RUNNABLE" /\ pc[p] = "exit"
      BY <2>2 DEF ExitZombie, Running
    <3>2. /\ state'[p] = "ZOMBIE"
          /\ q # p => state'[q] = state[q] \/ (state[q] = "SLEEPING" /\ state'[q] = "RUNNABLE")
      BY <1>0, <2>2 DEF ExitZombie, Woken
    <3> QED
      BY <1>1, <3>1, <3>2 DEF StaysPut, MovesOn, Live
  <2>3. CASE Wait(p) /\ Zombies(p) = {}
    <3>1. state[p] = "RUNNABLE" /\ pc[p] \in {"user", "wait"} /\ np' = np
      BY <2>3 DEF Wait, InUser, Running
    <3>2. CASE state' = state /\ pc' = [pc EXCEPT ![p] = "user"]
      BY <1>0, <1>1, <3>1, <3>2 DEF StaysPut, MovesOn
    <3>3. CASE Sleep(p, p) /\ pc' = [pc EXCEPT ![p] = "wait"]
      <4>1. state'[p] = "SLEEPING" /\ \A r \in Procs \ {p} : state'[r] = state[r]
        BY <1>0, <3>1, <3>3, SleepAlone, InitProcIsProc
      <4> QED
        BY <1>0, <1>1, <3>1, <3>3, <4>1 DEF StaysPut, MovesOn, Live
    <3> QED
      BY <2>3, <3>2, <3>3 DEF Wait
  <2> QED
    BY <2>1, <2>2, <2>3
<1>3. \A q \in Procs : PagesSound(q)'
  BY <1>2, PagesStay DEF MemInv
<1> QED
  BY <1>1, <1>3, NoPagesMove DEF MemInv, MemTypes

\* fork takes a slot.
LEMMA ForkBeginMem ==
    ASSUME ProcInv, MemInv, NEW p \in Procs, ForkBegin(p)
    PROVE  MemInv'
<1>0. pc \in [Procs -> Places] /\ state \in [Procs -> States]
      /\ np \in [Procs -> Procs \cup {0}]
  BY DEF ProcInv, ProcTypes
<1>1. /\ UNCHANGED <<nfree, kstack, space, build, mem>>
      /\ goal' = [goal EXCEPT ![p] = space[p].sz]
      /\ Running(p, "user")
  BY DEF ForkBegin, ForkAlloc, InUser
<1>2. PICK c \in Procs : /\ state[c] = "UNUSED"
                         /\ state' = [state EXCEPT ![c] = "EMBRYO"]
                         /\ np' = [np EXCEPT ![p] = c]
                         /\ pc' = [pc EXCEPT ![p] = "fork"]
  <2>1. Lowest(Free) \in Procs /\ state[Lowest(Free)] = "UNUSED"
    BY LowestIn DEF ForkBegin, ForkAlloc, Free
  <2> QED
    BY <2>1 DEF ForkBegin, ForkAlloc
<1>3. goal' \in [Procs -> 0..MAXPAGES * PGSIZE]
  <2>1. space[p] \in Spaces /\ goal \in [Procs -> 0..MAXPAGES * PGSIZE]
    BY DEF MemInv, MemTypes
  <2>2. space[p].sz \in 0..MAXPAGES * PGSIZE
    BY <2>1 DEF Spaces
  <2> QED
    BY <1>1, <2>1, <2>2
<1>4. ASSUME NEW q \in Procs PROVE StaysPut(q) \/ MovesOn(q)
  <2>1. CASE q = p
    BY <1>0, <1>1, <1>2, <2>1 DEF MovesOn, Running
  <2>2. CASE q = c /\ q # p
    <3>1. pc[c] \notin {"fork", "exec", "sbrk"}
      BY <1>2 DEF MemInv, PagesSound, CallPages, ProcInv, ForkInv
    <3> QED
      BY <1>0, <1>1, <1>2, <2>2, <3>1 DEF MovesOn
  <2>3. CASE q # c /\ q # p
    <3>1. goal'[q] = goal[q]
      BY <1>1, <2>3 DEF MemInv, MemTypes
    <3> QED
      BY <1>0, <1>1, <1>2, <2>3, <3>1 DEF StaysPut
  <2> QED
    BY <2>1, <2>2, <2>3
<1>5. \A q \in Procs : PagesSound(q)'
  BY <1>4, PagesStay DEF MemInv
<1> QED
  BY <1>1, <1>3, <1>5, NoPagesMove

\* exec and sbrk begin.
LEMMA EnterMem ==
    ASSUME ProcInv, MemInv, NEW p \in Procs, ExecCall(p) \/ SbrkGrow(p)
    PROVE  MemInv' /\ CallOf(p) /\ NotOfPipe /\ NotOfConsole
<1>0. pc \in [Procs -> Places] /\ state \in [Procs -> States]
      /\ chan \in [Procs -> Int]
  BY DEF ProcInv, ProcTypes
<1>1. PICK n \in 0..MAXPAGES * PGSIZE, call \in {"exec", "sbrk"} :
        Enter(p, call, n) /\ (call = "sbrk" => n > space[p].sz)
  BY MemSizes DEF ExecCall, SbrkGrow
<1>2. /\ state[p] = "RUNNABLE" /\ pc[p] = "user"
      /\ pc' = [pc EXCEPT ![p] = call] /\ goal' = [goal EXCEPT ![p] = n]
      /\ UNCHANGED <<state, parent, pid, killed, chan, np>>
      /\ UNCHANGED <<nfree, kstack, space, build, mem>>
  BY <1>1 DEF Enter, InUser, Running
<1>3. CallOf(p) /\ NotOfPipe /\ NotOfConsole
  BY <1>0, <1>1, <1>2 DEF CallOf, NotOfPipe, NotOfConsole, NoneJoins, SleepersStay, Stays, Places
<1>4. goal \in [Procs -> 0..MAXPAGES * PGSIZE] /\ goal' \in [Procs -> 0..MAXPAGES * PGSIZE]
  BY <1>2 DEF MemInv, MemTypes
<1>5. ASSUME NEW q \in Procs \ {p} PROVE PagesSound(q)'
  <2>1. StaysPut(q)
    BY <1>0, <1>2, <1>4 DEF StaysPut
  <2> QED
    BY <2>1, PagesStay DEF MemInv
<1>6. PagesSound(p)'
  <2>1. PagesSound(p) /\ space[p] \in Spaces
    BY DEF MemInv, MemTypes
  <2>2. p \in InUse /\ p \in InUse'
    BY <1>2 DEF InUse, Live
  <2>3. build[p] = NoSpace /\ p \notin mem
    BY <1>2, <2>1, NothingUnderWay DEF PagesSound
  <2>4. SlotPages(p)' /\ Mapped(p)'
    BY <1>2, <2>1, <2>2 DEF PagesSound, SlotPages, Mapped
  <2>5. space[p].sz \in Nat /\ space[p].user \subseteq Index /\ Index \subseteq Nat /\ n \in Nat
    BY <2>1, MemSizes DEF Spaces, Index
  <2>6. ASSUME call = "sbrk" PROVE space[p].user \subseteq Below(n)
    <3> SUFFICES ASSUME NEW i \in space[p].user PROVE i \in Below(n)
      OBVIOUS
    <3>1. i \in Index /\ ~(i * PGSIZE >= space[p].sz)
      BY <1>2, <2>1, <2>2, <2>5 DEF PagesSound, Mapped
    <3>2. i * PGSIZE \in Nat
      BY <2>5, <3>1, MemSizes
    <3>3. i * PGSIZE < n
      BY <1>1, <2>5, <2>6, <3>1, <3>2
    <3> QED
      BY <2>5, <3>1, <3>3, BelowIs
  <2>7. NoSpace.user = {}
    BY DEF NoSpace
  <2>8. pc'[p] = call /\ goal'[p] = n
    BY <1>0, <1>2, <1>4
  <2>9. CallPages(p)'
    BY <1>1, <1>2, <2>3, <2>5, <2>6, <2>7, <2>8 DEF CallPages, Below
  <2> QED
    BY <2>4, <2>9 DEF PagesSound
<1> QED
  BY <1>2, <1>3, <1>4, <1>5, <1>6, NoPagesMove

-----------------------------------------------------------------------------
(* kalloc.                                                                 *)

\* The next page is one of those that are missing.
LEMMA NextMissing ==
    ASSUME MemInv, NEW p \in Procs, Missing(p) # {}
    PROVE  LET i == Lowest(Missing(p))
           IN  i \in Index /\ i \in Below(goal[p]) /\ i \notin Site(p).user
<1>1. goal[p] \in 0..MAXPAGES * PGSIZE
  BY DEF MemInv, MemTypes
<1>2. Below(goal[p]) \subseteq Index /\ Index \subseteq Nat
  BY <1>1, BelowIndex, MemSizes DEF Index
<1>3. Missing(p) \subseteq Below(goal[p]) /\ Missing(p) \subseteq Nat
  BY <1>2 DEF Missing, Below
<1>4. Lowest(Missing(p)) \in Missing(p)
  BY <1>3, LeastNat DEF Lowest
<1> QED
  BY <1>2, <1>3, <1>4 DEF Missing

\* What the next page does to the page table: it adds one page, or none yet if
\* it is a stack or waits for its table, or two with the table.
LEMMA ExtendedIs ==
    ASSUME MemInv, NEW p \in Procs, Building(p), Wanted(p) # "nothing"
    PROVE  /\ Extended(p) \in Spaces
           /\ Extended(p).sz = Site(p).sz
           /\ Site(p).dir => Extended(p).dir
           /\ Site(p).user \subseteq Extended(p).user
           /\ Extended(p).user \subseteq Site(p).user \cup Below(goal[p])
           /\ Wanted(p) = "kstack" \/ (Wanted(p) = "mem" /\ ~TableThere(p)) =>
                 Extended(p) = Site(p)
           /\ Wanted(p) \in {"dir", "kern"} \/ (Wanted(p) = "mem" /\ TableThere(p)) =>
                 PagesOf(Extended(p)) = PagesOf(Site(p)) + 1
           /\ Wanted(p) = "table" => p \in mem /\ PagesOf(Extended(p)) = PagesOf(Site(p)) + 2
           /\ Wanted(p) \in {"kstack", "dir", "kern", "mem"} => p \notin mem
           /\ Wanted(p) \in {"kstack", "dir", "kern", "mem", "table"}
<1>1. PICK sp : sp = Site(p)
  OBVIOUS
<1>2. PICK i : i = Lowest(Missing(p))
  OBVIOUS
<1>3. sp \in Spaces /\ PagesOf(sp) \in Nat
  BY <1>1, PointersFinite DEF MemInv, MemTypes, Site
<1>4. Wanted(p) \in {"mem", "table"} => i \in Index /\ i \in Below(goal[p]) /\ i \notin sp.user
  <2>1. Wanted(p) \in {"mem", "table"} => Missing(p) # {}
    BY DEF Wanted
  <2> QED
    BY <1>1, <1>2, <2>1, NextMissing
<1>5. p \in mem => Wanted(p) = "table" /\ ~TableThere(p)
  BY DEF MemInv, PagesSound, CallPages
<1>6. Wanted(p) = "table" => p \in mem
  BY DEF Wanted
<1>7. Wanted(p) \in {"kstack", "dir", "kern", "mem", "table"}
  BY DEF Wanted
<1>8. CASE Wanted(p) = "dir"
  <2>1. ~sp.dir
    BY <1>1, <1>8 DEF Wanted
  <2>2. Extended(p) = [sp EXCEPT !.dir = TRUE]
    BY <1>1, <1>8 DEF Extended
  <2>3. 0 \in Index
    BY MemSizes DEF Index
  <2>4. /\ [sp EXCEPT !.dir = TRUE] \in Spaces
        /\ PagesOf([sp EXCEPT !.dir = TRUE]) = PagesOf(sp) + 1
    BY <1>3, <2>1, <2>3, PagesAdded
  <2>5. /\ [sp EXCEPT !.dir = TRUE].sz = sp.sz /\ [sp EXCEPT !.dir = TRUE].user = sp.user
        /\ [sp EXCEPT !.dir = TRUE].dir
    BY <1>3 DEF Spaces
  <2> QED
    BY <1>1, <1>5, <1>8, <2>2, <2>4, <2>5
<1>9. CASE Wanted(p) = "kern"
  <2>1. sp.kern < KTABS
    BY <1>1, <1>9 DEF Wanted
  <2>2. Extended(p) = [sp EXCEPT !.kern = @ + 1]
    BY <1>1, <1>9 DEF Extended
  <2>3. 0 \in Index
    BY MemSizes DEF Index
  <2>4. /\ [sp EXCEPT !.kern = @ + 1] \in Spaces
        /\ PagesOf([sp EXCEPT !.kern = @ + 1]) = PagesOf(sp) + 1
    BY <1>3, <2>1, <2>3, PagesAdded
  <2>5. /\ [sp EXCEPT !.kern = @ + 1].sz = sp.sz /\ [sp EXCEPT !.kern = @ + 1].user = sp.user
        /\ [sp EXCEPT !.kern = @ + 1].dir = sp.dir
    BY <1>3 DEF Spaces
  <2> QED
    BY <1>1, <1>5, <1>9, <2>2, <2>4, <2>5
<1>10. CASE Wanted(p) = "mem" /\ TableThere(p)
  <2>1. Extended(p) = [sp EXCEPT !.user = @ \cup {i}]
    BY <1>1, <1>2, <1>10 DEF Extended
  <2>2. /\ [sp EXCEPT !.user = @ \cup {i}] \in Spaces
        /\ PagesOf([sp EXCEPT !.user = @ \cup {i}]) = PagesOf(sp) + 1
    BY <1>3, <1>4, <1>10, PagesAdded
  <2>3. /\ [sp EXCEPT !.user = @ \cup {i}].sz = sp.sz
        /\ [sp EXCEPT !.user = @ \cup {i}].user = sp.user \cup {i}
        /\ [sp EXCEPT !.user = @ \cup {i}].dir = sp.dir
    BY <1>3 DEF Spaces
  <2> QED
    BY <1>1, <1>4, <1>5, <1>10, <2>1, <2>2, <2>3
<1>11. CASE Wanted(p) = "kstack" \/ (Wanted(p) = "mem" /\ ~TableThere(p))
  <2>1. Extended(p) = sp
    BY <1>1, <1>11 DEF Extended
  <2> QED
    BY <1>1, <1>3, <1>5, <1>11, <2>1
<1>12. CASE Wanted(p) = "table"
  <2>1. PICK t : t = TableOf(i)
    OBVIOUS
  <2>2. t \in Index /\ t \notin sp.tabs
    BY <1>1, <1>2, <1>4, <1>5, <1>6, <1>12, <2>1, TableInIndex DEF TableThere
  <2>3. PICK sp2 : sp2 = [sp EXCEPT !.tabs = @ \cup {t}]
    OBVIOUS
  <2>4. sp2 \in Spaces /\ PagesOf(sp2) = PagesOf(sp) + 1
    BY <1>3, <2>2, <2>3, PagesAdded
  <2>5. sp2.user = sp.user /\ sp2.dir = sp.dir /\ sp2.sz = sp.sz
    BY <1>3, <2>3 DEF Spaces
  <2>6. PICK sp3 : sp3 = [sp2 EXCEPT !.user = @ \cup {i}]
    OBVIOUS
  <2>7. sp3 \in Spaces /\ PagesOf(sp3) = PagesOf(sp2) + 1
    BY <1>4, <1>12, <2>4, <2>5, <2>6, PagesAdded
  <2>8. sp3.user = sp.user \cup {i} /\ sp3.dir = sp.dir /\ sp3.sz = sp.sz
    BY <2>4, <2>5, <2>6 DEF Spaces
  <2>9. Extended(p) = [sp EXCEPT !.tabs = @ \cup {t}, !.user = @ \cup {i}]
    BY <1>1, <1>2, <1>12, <2>1 DEF Extended
  <2>10. Extended(p) = sp3
    BY <1>3, <2>3, <2>6, <2>9 DEF Spaces
  <2>11. PagesOf(sp3) = PagesOf(sp) + 2
    BY <1>3, <2>4, <2>7
  <2> QED
    BY <1>1, <1>4, <1>6, <1>12, <2>7, <2>8, <2>10, <2>11
<1> QED
  BY <1>7, <1>8, <1>9, <1>10, <1>11, <1>12

\* Sets of slots are finite.
LEMMA SlotsCounted ==
    ASSUME NEW S, S \subseteq Procs, NEW x
    PROVE  /\ IsFiniteSet(S) /\ Cardinality(S) \in Nat
           /\ Cardinality(S \cup {x}) = IF x \in S THEN Cardinality(S) ELSE Cardinality(S) + 1
           /\ Cardinality(S \ {x}) = IF x \in S THEN Cardinality(S) - 1 ELSE Cardinality(S)
<1>1. IsFiniteSet(Procs)
  BY ProcessAssumption, FS_Interval DEF Procs
<1>2. IsFiniteSet(S) /\ Cardinality(S) \in Nat
  BY <1>1, FS_Subset, FS_CardinalityType
<1> QED
  BY <1>2, FS_AddElement, FS_RemoveElement

\* A page goes from the free list to one place.
LEMMA KallocMem ==
    ASSUME ProcInv, MemInv, NEW p \in Procs, Kalloc(p)
    PROVE  MemInv'
<1>0. /\ MemTypes /\ PagesSound(p) /\ space[p] \in Spaces /\ build[p] \in Spaces
      /\ Building(p) /\ Wanted(p) # "nothing"
      /\ nfree > 0 /\ nfree' = nfree - 1
      /\ UNCHANGED <<state, parent, pid, killed, chan, pc, np, goal>>
  BY DEF Kalloc, MemInv, MemTypes, procVars
<1>1. PICK ext : ext = Extended(p)
  OBVIOUS
<1>2. PICK site : site = Site(p)
  OBVIOUS
<1>3. /\ ext \in Spaces /\ ext.sz = site.sz /\ (site.dir => ext.dir)
      /\ site.user \subseteq ext.user
      /\ ext.user \subseteq site.user \cup Below(goal[p])
      /\ Wanted(p) = "kstack" \/ (Wanted(p) = "mem" /\ ~TableThere(p)) => ext = site
      /\ Wanted(p) \in {"dir", "kern"} \/ (Wanted(p) = "mem" /\ TableThere(p)) =>
            PagesOf(ext) = PagesOf(site) + 1
      /\ Wanted(p) = "table" => p \in mem /\ PagesOf(ext) = PagesOf(site) + 2
      /\ Wanted(p) \in {"kstack", "dir", "kern", "mem"} => p \notin mem
      /\ Wanted(p) \in {"kstack", "dir", "kern", "mem", "table"}
  BY <1>0, <1>1, <1>2, ExtendedIs
<1>4. PagesOf(ext) \in Nat /\ PagesOf(site) \in Nat
  BY <1>0, <1>2, <1>3, PointersFinite DEF Site
<1>5. /\ kstack' = IF Wanted(p) = "kstack" THEN kstack \cup {np[p]} ELSE kstack
      /\ mem' = IF Wanted(p) = "mem" /\ ~TableThere(p) THEN mem \cup {p} ELSE mem \ {p}
      /\ \/ pc[p] = "sbrk" /\ site = space[p] /\ build' = build
            /\ space' = [space EXCEPT ![p] = ext]
         \/ pc[p] # "sbrk" /\ site = build[p] /\ space' = space
            /\ build' = [build EXCEPT ![p] = ext]
  BY <1>1, <1>2 DEF Kalloc, Site
<1>6. state[p] = "RUNNABLE" /\ pc[p] \in {"fork", "exec", "sbrk"}
  BY <1>0 DEF Building, Running
<1>7. Wanted(p) = "kstack" => pc[p] = "fork" /\ np[p] \notin kstack
  BY DEF Wanted
<1>8. pc[p] = "fork" => np[p] \in Procs \ {p} /\ state[np[p]] = "EMBRYO"
  BY <1>6, EmbryoFacts DEF Running
<1>9. MemTypes'
  <2>1. nfree' \in Nat /\ kstack' \subseteq Procs /\ mem' \subseteq Procs
    BY <1>0, <1>5, <1>7, <1>8 DEF MemTypes
  <2>2. space' \in [Procs -> Spaces] /\ build' \in [Procs -> Spaces]
    BY <1>0, <1>3, <1>5 DEF MemTypes
  <2> QED
    BY <1>0, <2>1, <2>2 DEF MemTypes
<1>10. PagesConserved'
  <2>1. PICK a, b, h, k, n : /\ a = Cardinality(kstack) /\ b = Cardinality(mem)
                             /\ h = Cardinality(Held(space)) /\ k = Cardinality(Held(build))
                             /\ n = nfree
    OBVIOUS
  <2>2. PICK a2, b2, h2, k2 :
          /\ a2 = Cardinality(kstack') /\ b2 = Cardinality(mem')
          /\ h2 = Cardinality(Held(space')) /\ k2 = Cardinality(Held(build'))
    OBVIOUS
  <2>3. a \in Nat /\ b \in Nat
    BY <1>0, <2>1, SlotsCounted DEF MemTypes
  <2>4. a2 = IF Wanted(p) = "kstack" THEN a + 1 ELSE a
    BY <1>0, <1>5, <1>7, <2>1, <2>2, SlotsCounted DEF MemTypes
  <2>5. b2 = IF Wanted(p) = "table" THEN b - 1
             ELSE IF Wanted(p) = "mem" /\ ~TableThere(p) THEN b + 1 ELSE b
    <3>1. /\ Cardinality(mem \cup {p}) = IF p \in mem THEN b ELSE b + 1
          /\ Cardinality(mem \ {p}) = IF p \in mem THEN b - 1 ELSE b
      BY <1>0, <2>1, SlotsCounted DEF MemTypes
    <3> QED
      BY <1>3, <1>5, <2>2, <3>1
  <2>6. /\ h \in Nat /\ k \in Nat /\ h2 \in Nat /\ k2 \in Nat
        /\ h2 + k2 = h + k - PagesOf(site) + PagesOf(ext)
    <3>0. space \in [Procs -> Spaces] /\ build \in [Procs -> Spaces]
      BY <1>0 DEF MemTypes
    <3>1. h \in Nat /\ k \in Nat
      BY <1>3, <2>1, <3>0, HeldMoves
    <3>2. CASE build' = build /\ site = space[p] /\ space' = [space EXCEPT ![p] = ext]
      <4>1. h2 \in Nat /\ h2 = h - PagesOf(site) + PagesOf(ext)
        <5>1. PICK f, g : f = space /\ g = space'
          OBVIOUS
        <5>2. f \in [Procs -> Spaces] /\ g = [f EXCEPT ![p] = ext] /\ f[p] = site
          BY <3>0, <3>2, <5>1
        <5>3. /\ Cardinality(Held(g)) \in Nat
              /\ Cardinality(Held(g)) = Cardinality(Held(f)) - PagesOf(f[p]) + PagesOf(ext)
          BY <1>3, <5>2, HeldMoves
        <5> QED
          BY <2>1, <2>2, <5>1, <5>2, <5>3
      <4>2. k2 = k
        BY <2>1, <2>2, <3>2
      <4> QED
        BY <1>4, <3>1, <4>1, <4>2
    <3>3. CASE space' = space /\ site = build[p] /\ build' = [build EXCEPT ![p] = ext]
      <4>1. k2 \in Nat /\ k2 = k - PagesOf(site) + PagesOf(ext)
        <5>1. PICK f, g : f = build /\ g = build'
          OBVIOUS
        <5>2. f \in [Procs -> Spaces] /\ g = [f EXCEPT ![p] = ext] /\ f[p] = site
          BY <3>0, <3>3, <5>1
        <5>3. /\ Cardinality(Held(g)) \in Nat
              /\ Cardinality(Held(g)) = Cardinality(Held(f)) - PagesOf(f[p]) + PagesOf(ext)
          BY <1>3, <5>2, HeldMoves
        <5> QED
          BY <2>1, <2>2, <5>1, <5>2, <5>3
      <4>2. h2 = h
        BY <2>1, <2>2, <3>3
      <4> QED
        BY <1>4, <3>1, <4>1, <4>2
    <3> QED
      BY <1>5, <3>2, <3>3
  <2>7. NPAGES = n + a + b + h + k /\ n \in Nat
    BY <1>0, <2>1 DEF MemInv, PagesConserved, MemTypes
  <2>8. a2 + b2 + h2 + k2 = a + b + h + k + 1
    <3>1. CASE Wanted(p) = "kstack"
      BY <1>3, <1>4, <2>3, <2>4, <2>5, <2>6, <3>1
    <3>2. CASE Wanted(p) = "mem" /\ ~TableThere(p)
      BY <1>3, <1>4, <2>3, <2>4, <2>5, <2>6, <3>2
    <3>3. CASE Wanted(p) \in {"dir", "kern"} \/ (Wanted(p) = "mem" /\ TableThere(p))
      BY <1>3, <1>4, <2>3, <2>4, <2>5, <2>6, <3>3
    <3>4. CASE Wanted(p) = "table"
      BY <1>3, <1>4, <2>3, <2>4, <2>5, <2>6, <3>4
    <3> QED
      BY <1>3, <3>1, <3>2, <3>3, <3>4
  <2>9. a2 \in Nat /\ b2 \in Int
    BY <2>3, <2>4, <2>5
  <2>10. NPAGES = (n - 1) + a2 + b2 + h2 + k2
    BY <2>3, <2>6, <2>7, <2>8, <2>9
  <2>11. Held(space)' = Held(space') /\ Held(build)' = Held(build')
    BY DEF Held
  <2> QED
    BY <1>0, <2>1, <2>2, <2>10, <2>11 DEF PagesConserved
<1>11. ASSUME NEW q \in Procs \ {p}, ~(Wanted(p) = "kstack" /\ q = np[p])
       PROVE  PagesSound(q)'
  <2>1. StaysPut(q)
    <3>1. space'[q] = space[q] /\ build'[q] = build[q]
      BY <1>0, <1>5 DEF MemTypes
    <3>2. (q \in mem' <=> q \in mem) /\ (q \in kstack' <=> q \in kstack)
          /\ kstack \subseteq kstack'
      BY <1>5, <1>11
    <3> QED
      BY <1>0, <3>1, <3>2 DEF StaysPut
  <2> QED
    BY <2>1, PagesStay DEF MemInv
<1>12. ASSUME NEW q \in Procs \ {p}, Wanted(p) = "kstack", q = np[p]
       PROVE  PagesSound(q)'
  <2>1. state[q] = "EMBRYO"
    BY <1>7, <1>8, <1>12
  <2>2. PagesSound(q) /\ pc[q] # "fork"
    BY <2>1 DEF MemInv, ProcInv, ForkInv
  <2>3. pc[q] \notin {"fork", "exec", "sbrk"}
    BY <2>1, <2>2 DEF PagesSound, CallPages
  <2>4. build[q] = NoSpace /\ q \notin mem
    BY <2>2, <2>3, NothingUnderWay DEF PagesSound
  <2>5. build' [q] = build[q] /\ space'[q] = space[q] /\ q \notin mem'
    BY <1>0, <1>5, <1>12, <2>4 DEF MemTypes
  <2>6. q \notin InUse'
    BY <1>0, <2>1 DEF InUse, Live
  <2>7. NoSpace.user = {}
    BY DEF NoSpace
  <2> QED
    BY <1>0, <2>1, <2>2, <2>3, <2>4, <2>5, <2>6, <2>7
       DEF PagesSound, SlotPages, Mapped, CallPages
<1>13. PagesSound(p)'
  <2>1. p \in InUse /\ p \in InUse'
    BY <1>0, <1>6 DEF InUse, Live
  <2>2. kstack \subseteq kstack'
    BY <1>5
  <2>3. space'[p] = (IF pc[p] = "sbrk" THEN ext ELSE space[p])
        /\ build'[p] = (IF pc[p] = "sbrk" THEN build[p] ELSE ext)
    BY <1>0, <1>5 DEF MemTypes
  <2>4. SlotPages(p)'
    BY <1>0, <1>3, <1>5, <1>6, <2>1, <2>2, <2>3 DEF PagesSound, SlotPages
  <2>5. Mapped(p)'
    BY <1>0, <1>3, <1>5, <2>1, <2>3 DEF PagesSound, Mapped
  <2>6. ASSUME p \in mem'
        PROVE  Building(p)' /\ Wanted(p)' = "table" /\ ~TableThere(p)'
    <3>1. Wanted(p) = "mem" /\ ~TableThere(p) /\ ext = site /\ kstack' = kstack
      BY <1>3, <1>5, <2>6
    <3>2. Site(p)' = Site(p)
      BY <1>0, <1>2, <1>5, <2>3, <3>1 DEF Site
    <3>3. Missing(p)' = Missing(p)
      BY <1>0, <3>2 DEF Missing
    <3>4. TableThere(p)' = TableThere(p)
      BY <3>2, <3>3 DEF TableThere
    <3>5. ~(pc[p] = "fork" /\ np[p] \notin kstack)
          /\ Site(p).dir /\ ~(Site(p).kern < KTABS) /\ Missing(p) # {}
      BY <3>1 DEF Wanted
    <3>6. Wanted(p)' = "table"
      BY <1>0, <2>6, <3>1, <3>2, <3>3, <3>5 DEF Wanted
    <3>7. Building(p)'
      BY <1>0 DEF Building, Running
    <3> QED
      BY <3>1, <3>4, <3>6, <3>7
  <2>7. CallPages(p)'
    <3>1. (Below(goal[p]))' = Below(goal[p])
      BY <1>0 DEF Below
    <3> QED
      BY <1>0, <1>3, <1>5, <1>6, <2>3, <2>6, <3>1 DEF PagesSound, CallPages
  <2> QED
    BY <2>4, <2>5, <2>7 DEF PagesSound
<1> QED
  BY <1>9, <1>10, <1>11, <1>12, <1>13 DEF MemInv

-----------------------------------------------------------------------------
(* The calls end.                                                          *)

\* What leaves one place comes to another.
LEMMA PagesBalance ==
    ASSUME MemInv,
           NEW a \in Int, NEW b \in Int, NEW h \in Int, NEW k \in Int,
           Cardinality(kstack') = Cardinality(kstack) + a,
           Cardinality(mem') = Cardinality(mem) + b,
           Cardinality(Held(space')) = Cardinality(Held(space)) + h,
           Cardinality(Held(build')) = Cardinality(Held(build)) + k,
           nfree' = nfree - (a + b + h + k)
    PROVE  PagesConserved'
<1>1. PICK ca, cb, ch, ck, n : /\ ca = Cardinality(kstack) /\ cb = Cardinality(mem)
                               /\ ch = Cardinality(Held(space))
                               /\ ck = Cardinality(Held(build)) /\ n = nfree
  OBVIOUS
<1>2. MemTypes
  BY DEF MemInv
<1>3. ca \in Nat /\ cb \in Nat /\ n \in Nat
  BY <1>1, <1>2, SlotsCounted DEF MemTypes
<1>4. ch \in Nat /\ ck \in Nat
  <2>1. space \in [Procs -> Spaces] /\ build \in [Procs -> Spaces]
    BY <1>2 DEF MemTypes
  <2> QED
    BY <1>1, <2>1, InitProcIsProc, PointersFinite, HeldMoves
<1>5. NPAGES = n + ca + cb + ch + ck
  BY <1>1 DEF MemInv, PagesConserved
<1>6. NPAGES = (n - (a + b + h + k)) + (ca + a) + (cb + b) + (ch + h) + (ck + k)
  BY <1>3, <1>4, <1>5
<1>7. Held(space)' = Held(space') /\ Held(build)' = Held(build')
  BY DEF Held
<1> QED
  BY <1>1, <1>6, <1>7 DEF PagesConserved

\* A call forgets the page table it was building, and the page in hand.
LEMMA ForgetCounts ==
    ASSUME MemTypes, NEW p \in Procs, Forget(p)
    PROVE  /\ mem' \subseteq Procs /\ build' \in [Procs -> Spaces]
           /\ goal' \in [Procs -> 0..MAXPAGES * PGSIZE]
           /\ build'[p] = NoSpace /\ p \notin mem'
           /\ \A q \in Procs \ {p} : /\ build'[q] = build[q] /\ goal'[q] = goal[q]
                                     /\ q \in mem' <=> q \in mem
           /\ InHand(p) \in 0..1 /\ PagesOf(build[p]) \in Nat
           /\ Cardinality(mem') = Cardinality(mem) + (-InHand(p))
           /\ Cardinality(Held(build')) = Cardinality(Held(build)) + (-PagesOf(build[p]))
<1>1. /\ build' = [build EXCEPT ![p] = NoSpace] /\ mem' = mem \ {p}
      /\ goal' = [goal EXCEPT ![p] = 0]
  BY DEF Forget
<1>2. NoSpace \in Spaces /\ PagesOf(NoSpace) = 0
  BY PointersFinite
<1>3. 0 \in 0..MAXPAGES * PGSIZE
  BY MemSizes
<1>4. PICK f, g : f = build /\ g = build'
  OBVIOUS
<1>5. f \in [Procs -> Spaces] /\ g = [f EXCEPT ![p] = NoSpace]
  BY <1>1, <1>4 DEF MemTypes
<1>6. /\ g \in [Procs -> Spaces] /\ Cardinality(Held(f)) \in Nat
      /\ Cardinality(Held(g)) = Cardinality(Held(f)) - PagesOf(f[p]) + PagesOf(NoSpace)
  BY <1>2, <1>5, HeldMoves
<1>7. PagesOf(f[p]) \in Nat
  BY <1>5, PointersFinite
<1>8. Cardinality(Held(g)) = Cardinality(Held(f)) + (-PagesOf(f[p]))
  BY <1>2, <1>6, <1>7
<1>9. InHand(p) = (IF p \in mem THEN 1 ELSE 0)
  BY DEF InHand, One
<1>10. /\ Cardinality(mem) \in Nat
       /\ Cardinality(mem \ {p}) =
             IF p \in mem THEN Cardinality(mem) - 1 ELSE Cardinality(mem)
  BY SlotsCounted DEF MemTypes
<1>11. Cardinality(mem') = Cardinality(mem) + (-InHand(p))
  BY <1>1, <1>9, <1>10
<1> QED
  BY <1>1, <1>3, <1>4, <1>5, <1>6, <1>7, <1>8, <1>9, <1>11 DEF MemTypes

\* The page table of one process is exchanged.
LEMMA SpaceCounts ==
    ASSUME MemTypes, NEW p \in Procs, NEW sp \in Spaces, space' = [space EXCEPT ![p] = sp]
    PROVE  /\ space' \in [Procs -> Spaces] /\ space'[p] = sp
           /\ \A q \in Procs \ {p} : space'[q] = space[q]
           /\ PagesOf(space[p]) \in Nat /\ PagesOf(sp) \in Nat
           /\ Cardinality(Held(space')) =
                 Cardinality(Held(space)) + (PagesOf(sp) - PagesOf(space[p]))
<1>1. PICK f, g : f = space /\ g = space'
  OBVIOUS
<1>2. f \in [Procs -> Spaces] /\ g = [f EXCEPT ![p] = sp]
  BY <1>1 DEF MemTypes
<1>3. /\ g \in [Procs -> Spaces] /\ Cardinality(Held(f)) \in Nat
      /\ Cardinality(Held(g)) = Cardinality(Held(f)) - PagesOf(f[p]) + PagesOf(sp)
  BY <1>2, HeldMoves
<1>4. PagesOf(f[p]) \in Nat /\ PagesOf(sp) \in Nat
  BY <1>2, PointersFinite
<1>5. Cardinality(Held(g)) = Cardinality(Held(f)) + (PagesOf(sp) - PagesOf(f[p]))
  BY <1>3, <1>4
<1> QED
  BY <1>1, <1>2, <1>3, <1>4, <1>5

\* A process is back in user mode with the memory that its size says.
LEMMA BackSound ==
    ASSUME NEW p \in Procs, state'[p] = "RUNNABLE", pc'[p] = "user",
           build'[p] = NoSpace, p \notin mem', p \in kstack', space'[p].dir,
           \A i \in Index : i \in space'[p].user <=> i * PGSIZE < space'[p].sz,
           space'[p].sz \in Nat
    PROVE  PagesSound(p)'
<1>1. SlotPages(p)'
  BY DEF SlotPages
<1>2. Mapped(p)'
  <2> SUFFICES ASSUME NEW i \in Index, i * PGSIZE >= space'[p].sz
               PROVE  i \notin space'[p].user
    BY DEF Mapped
  <2>1. i * PGSIZE \in Nat
    BY MemSizes DEF Index
  <2> QED
    BY <2>1
<1>3. NoSpace.user = {}
  BY DEF NoSpace
<1>4. CallPages(p)'
  BY <1>3 DEF CallPages
<1> QED
  BY <1>1, <1>2, <1>4 DEF PagesSound

\* exec or sbrk comes back with the page table sp.
LEMMA BackMem ==
    ASSUME MemInv, NEW p \in Procs, state[p] = "RUNNABLE", pc[p] \in {"exec", "sbrk"},
           pc \in [Procs -> Places],
           Back(p), Forget(p), kstack' = kstack,
           NEW sp \in Spaces, space' = [space EXCEPT ![p] = sp], sp.dir,
           \A i \in Index : i \in sp.user <=> i * PGSIZE < sp.sz,
           nfree' = nfree - ((-InHand(p)) + (PagesOf(sp) - PagesOf(space[p]))
                             + (-PagesOf(build[p]))),
           PagesOf(sp) <= PagesOf(space[p]) + PagesOf(build[p])
    PROVE  MemInv'
<1>0. MemTypes /\ UNCHANGED <<state, np>> /\ pc' = [pc EXCEPT ![p] = "user"]
  BY DEF MemInv, Back
<1>1. /\ mem' \subseteq Procs /\ build' \in [Procs -> Spaces]
      /\ goal' \in [Procs -> 0..MAXPAGES * PGSIZE]
      /\ build'[p] = NoSpace /\ p \notin mem'
      /\ \A q \in Procs \ {p} : /\ build'[q] = build[q] /\ goal'[q] = goal[q]
                                /\ q \in mem' <=> q \in mem
      /\ InHand(p) \in 0..1 /\ PagesOf(build[p]) \in Nat
      /\ Cardinality(mem') = Cardinality(mem) + (-InHand(p))
      /\ Cardinality(Held(build')) = Cardinality(Held(build)) + (-PagesOf(build[p]))
  BY <1>0, ForgetCounts
<1>2. /\ space' \in [Procs -> Spaces] /\ space'[p] = sp
      /\ \A q \in Procs \ {p} : space'[q] = space[q]
      /\ PagesOf(space[p]) \in Nat /\ PagesOf(sp) \in Nat
      /\ Cardinality(Held(space')) =
            Cardinality(Held(space)) + (PagesOf(sp) - PagesOf(space[p]))
  BY <1>0, SpaceCounts
<1>3. PICK x, y, z, w, n : /\ x = InHand(p) /\ y = PagesOf(sp) /\ z = PagesOf(space[p])
                           /\ w = PagesOf(build[p]) /\ n = nfree
  OBVIOUS
<1>4. /\ x \in 0..1 /\ y \in Nat /\ z \in Nat /\ w \in Nat /\ n \in Nat
      /\ y <= z + w /\ nfree' = n - ((-x) + (y - z) + (-w))
  BY <1>0, <1>1, <1>2, <1>3 DEF MemTypes
<1>5. nfree' \in Nat
  BY <1>4
<1>6. MemTypes'
  BY <1>0, <1>1, <1>2, <1>5 DEF MemTypes
<1>7. PagesConserved'
  <2>1. -x \in Int /\ y - z \in Int /\ -w \in Int /\ 0 \in Int
        /\ nfree' = n - (0 + (-x) + (y - z) + (-w))
    BY <1>4
  <2>2. Cardinality(kstack') = Cardinality(kstack) + 0
    <3>1. Cardinality(kstack) \in Nat
      BY <1>0, SlotsCounted DEF MemTypes
    <3> QED
      BY <3>1
  <2>3. /\ Cardinality(mem') = Cardinality(mem) + (-x)
        /\ Cardinality(Held(space')) = Cardinality(Held(space)) + (y - z)
        /\ Cardinality(Held(build')) = Cardinality(Held(build)) + (-w)
    BY <1>1, <1>2, <1>3
  <2>4. nfree' = nfree - (0 + (-x) + (y - z) + (-w))
    BY <1>3, <2>1
  <2> QED
    BY <2>1, <2>2, <2>3, <2>4, PagesBalance
<1>8. ASSUME NEW q \in Procs \ {p} PROVE PagesSound(q)'
  <2>1. StaysPut(q)
    BY <1>0, <1>1, <1>2 DEF StaysPut
  <2> QED
    BY <2>1, PagesStay DEF MemInv
<1>9. PagesSound(p)'
  <2>1. p \in kstack'
    BY DEF MemInv, PagesSound, SlotPages, InUse, Live
  <2>2. pc'[p] = "user" /\ state'[p] = "RUNNABLE"
    BY <1>0
  <2>3. sp.sz \in Nat
    BY MemSizes DEF Spaces
  <2> QED
    BY <1>1, <1>2, <2>1, <2>2, <2>3, BackSound
<1> QED
  BY <1>6, <1>7, <1>8, <1>9 DEF MemInv

\* The page table of a call that wants nothing more holds the pages of its size.
LEMMA WantsNothing ==
    ASSUME MemInv, NEW p \in Procs, pc[p] \in {"fork", "exec", "sbrk"}, Wanted(p) = "nothing"
    PROVE  /\ p \notin mem /\ InHand(p) = 0
           /\ pc[p] = "fork" => np[p] \in kstack
           /\ LET sp == [Site(p) EXCEPT !.sz = goal[p]]
              IN  /\ sp \in Spaces /\ sp.dir /\ sp.sz = goal[p]
                  /\ PagesOf(sp) = PagesOf(Site(p)) /\ PagesOf(sp) \in Nat
                  /\ \A i \in Index : i \in sp.user <=> i * PGSIZE < sp.sz
<1>1. Site(p) \in Spaces /\ goal[p] \in 0..MAXPAGES * PGSIZE
  BY DEF MemInv, MemTypes, Site
<1>2. Site(p).dir /\ Missing(p) = {} /\ (pc[p] = "fork" => np[p] \in kstack)
  BY DEF Wanted
<1>3. p \notin mem
  BY DEF MemInv, PagesSound, CallPages
<1>4. InHand(p) = 0
  BY <1>3 DEF InHand, One
<1>5. Site(p).user = Below(goal[p])
  <2>1. Site(p).user \subseteq Below(goal[p])
    BY DEF Site, MemInv, PagesSound, CallPages
  <2> QED
    BY <1>2, <2>1 DEF Missing, Below
<1>6. PICK s, g : s = Site(p) /\ g = goal[p]
  OBVIOUS
<1>7. s \in Spaces /\ s.dir /\ g \in 0..MAXPAGES * PGSIZE /\ s.user = Below(g)
  BY <1>1, <1>2, <1>5, <1>6
<1>8. /\ [s EXCEPT !.sz = g] \in Spaces /\ PagesOf([s EXCEPT !.sz = g]) = PagesOf(s)
      /\ PagesOf([s EXCEPT !.sz = g]) \in Nat
  BY <1>7, PagesLeft, PointersFinite
<1>9. [s EXCEPT !.sz = g].dir /\ [s EXCEPT !.sz = g].sz = g
      /\ [s EXCEPT !.sz = g].user = s.user
  BY <1>7 DEF Spaces
<1>10. g \in Nat
  BY <1>7, MemSizes
<1>11. \A i \in Index : i \in Below(g) <=> i * PGSIZE < g
  BY <1>10, BelowIs
<1> QED
  BY <1>2, <1>3, <1>4, <1>6, <1>7, <1>8, <1>9, <1>11

\* Outside of sbrk the pages of a process are those of its size.
LEMMA MappedIs ==
    ASSUME MemInv, NEW p \in Procs, state[p] \in Live
    PROVE  /\ p \in kstack /\ space[p] \in Spaces /\ space[p].dir /\ space[p].sz \in Nat
           /\ pc[p] # "sbrk" =>
                 \A i \in Index : i \in space[p].user <=> i * PGSIZE < space[p].sz
           /\ \A i \in Index : i * PGSIZE < space[p].sz => i \in space[p].user
<1>1. PagesSound(p) /\ p \in InUse /\ space[p] \in Spaces
  BY DEF MemInv, MemTypes, InUse
<1>2. space[p].sz \in Nat
  BY <1>1, MemSizes DEF Spaces
<1>3. \A i \in Index : i * PGSIZE \in Nat
  BY MemSizes DEF Index
<1>4. p \in kstack /\ space[p].dir
  BY <1>1 DEF PagesSound, SlotPages
<1> QED
  BY <1>1, <1>2, <1>3, <1>4 DEF PagesSound, Mapped

\* exec gives back what it has built, and keeps the old image.
LEMMA ExecBadMem ==
    ASSUME ProcInv, MemInv, NEW p \in Procs, ExecBad(p)
    PROVE  MemInv'
<1>1. /\ state[p] = "RUNNABLE" /\ pc[p] = "exec" /\ Back(p) /\ Forget(p)
      /\ kstack' = kstack /\ space' = space
      /\ nfree' = nfree + PagesOf(build[p]) + InHand(p)
  BY DEF ExecBad, Running
<1>2. /\ space[p] \in Spaces /\ space[p].dir
      /\ \A i \in Index : i \in space[p].user <=> i * PGSIZE < space[p].sz
  BY <1>1, MappedIs DEF Live
<1>3. space' = [space EXCEPT ![p] = space[p]]
  BY <1>1 DEF MemInv, MemTypes
<1>4. PICK x, z, w, n : x = InHand(p) /\ z = PagesOf(space[p]) /\ w = PagesOf(build[p]) /\ n = nfree
  OBVIOUS
<1>5. x \in Nat /\ z \in Nat /\ w \in Nat /\ n \in Nat /\ nfree' = n + w + x
  <2>1. InHand(p) \in 0..1
    BY DEF InHand, One
  <2>2. PagesOf(space[p]) \in Nat /\ PagesOf(build[p]) \in Nat /\ nfree \in Nat
    BY PointersFinite DEF MemInv, MemTypes
  <2> QED
    BY <1>1, <1>4, <2>1, <2>2
<1>6. nfree' = n - ((-x) + (z - z) + (-w)) /\ z <= z + w
  BY <1>5
<1>7. /\ nfree' = nfree - ((-InHand(p)) + (PagesOf(space[p]) - PagesOf(space[p]))
                           + (-PagesOf(build[p])))
      /\ PagesOf(space[p]) <= PagesOf(space[p]) + PagesOf(build[p])
  BY <1>4, <1>6
<1>8. pc \in [Procs -> Places]
  BY DEF ProcInv, ProcTypes
<1> QED
  BY <1>1, <1>2, <1>3, <1>7, <1>8, BackMem

\* exec commits to the new image and gives back the old one.
LEMMA ExecDoneMem ==
    ASSUME ProcInv, MemInv, NEW p \in Procs, ExecDone(p)
    PROVE  MemInv'
<1>1. /\ state[p] = "RUNNABLE" /\ pc[p] = "exec" /\ Back(p) /\ Forget(p)
      /\ kstack' = kstack /\ Wanted(p) = "nothing"
      /\ space' = [space EXCEPT ![p] = [build[p] EXCEPT !.sz = goal[p]]]
      /\ nfree' = nfree + PagesOf(space[p])
  BY DEF ExecDone, Running
<1>2. PICK sp : sp = [build[p] EXCEPT !.sz = goal[p]]
  OBVIOUS
<1>3. /\ InHand(p) = 0 /\ sp \in Spaces /\ sp.dir
      /\ PagesOf(sp) = PagesOf(build[p]) /\ PagesOf(sp) \in Nat
      /\ \A i \in Index : i \in sp.user <=> i * PGSIZE < sp.sz
  <2>1. Site(p) = build[p]
    BY <1>1 DEF Site
  <2> QED
    BY <1>1, <1>2, <2>1, WantsNothing
<1>4. PICK x, y, z, w, n : /\ x = InHand(p) /\ y = PagesOf(sp) /\ z = PagesOf(space[p])
                           /\ w = PagesOf(build[p]) /\ n = nfree
  OBVIOUS
<1>5. x = 0 /\ y \in Nat /\ z \in Nat /\ w = y /\ n \in Nat /\ nfree' = n + z
  <2>1. PagesOf(space[p]) \in Nat /\ nfree \in Nat
    BY PointersFinite DEF MemInv, MemTypes
  <2> QED
    BY <1>1, <1>3, <1>4, <2>1
<1>6. nfree' = n - ((-x) + (y - z) + (-w)) /\ y <= z + w
  BY <1>5
<1>7. /\ nfree' = nfree - ((-InHand(p)) + (PagesOf(sp) - PagesOf(space[p]))
                           + (-PagesOf(build[p])))
      /\ PagesOf(sp) <= PagesOf(space[p]) + PagesOf(build[p])
  BY <1>4, <1>6
<1>8. pc \in [Procs -> Places] /\ space' = [space EXCEPT ![p] = sp]
  BY <1>1, <1>2 DEF ProcInv, ProcTypes
<1> QED
  BY <1>1, <1>3, <1>7, <1>8, BackMem

\* Cutting a page table at PGROUNDUP of a size that it covers leaves the pages of
\* that size.
LEMMA CutIs ==
    ASSUME NEW sp \in Spaces, NEW n \in 0..MAXPAGES * PGSIZE, sp.dir,
           \A i \in Index : i * PGSIZE < n => i \in sp.user,
           NEW less, less = Cut(sp, PgRoundUp(n))
    PROVE  /\ less \in Spaces /\ less.dir /\ less.sz = sp.sz
           /\ PagesOf(less) \in Nat /\ PagesOf(sp) \in Nat /\ PagesOf(less) <= PagesOf(sp)
           /\ \A i \in Index : i \in less.user <=> i * PGSIZE < n
<1>1. n \in Nat /\ PgRoundUp(n) \in Nat
  BY MemSizes, PageBelow
<1>2. /\ less \in Spaces /\ PagesOf(less) <= PagesOf(sp)
      /\ PagesOf(less) \in Nat /\ PagesOf(sp) \in Nat
  BY <1>1, PagesLeft, PointersFinite
<1>3. less.dir /\ less.sz = sp.sz /\ less.user = {j \in sp.user : j < PgRoundUp(n)}
  BY DEF Cut, Spaces
<1>4. ASSUME NEW i \in Index PROVE i \in less.user <=> i * PGSIZE < n
  <2>1. i \in Nat
    BY DEF Index
  <2>2. i < PgRoundUp(n) <=> i * PGSIZE < n
    BY <1>1, <2>1, PageBelow
  <2> QED
    BY <1>3, <2>2
<1> QED
  BY <1>2, <1>3, <1>4

\* sbrk gives back what it has added.
LEMMA SbrkNoMemoryMem ==
    ASSUME ProcInv, MemInv, NEW p \in Procs, SbrkNoMemory(p)
    PROVE  MemInv'
<1>1. /\ state[p] = "RUNNABLE" /\ pc[p] = "sbrk" /\ Back(p) /\ Forget(p)
      /\ kstack' = kstack /\ nfree = 0
      /\ space' = [space EXCEPT ![p] = Cut(space[p], PgRoundUp(space[p].sz))]
      /\ nfree' = PagesOf(space[p]) - PagesOf(Cut(space[p], PgRoundUp(space[p].sz)))
                  + InHand(p)
  BY DEF SbrkNoMemory, Running
<1>2. PICK sp : sp = Cut(space[p], PgRoundUp(space[p].sz))
  OBVIOUS
<1>3. /\ space[p] \in Spaces /\ space[p].dir
      /\ \A i \in Index : i * PGSIZE < space[p].sz => i \in space[p].user
  BY <1>1, MappedIs DEF Live
<1>4. space[p].sz \in 0..MAXPAGES * PGSIZE
  BY <1>3 DEF Spaces
<1>5. /\ sp \in Spaces /\ sp.dir /\ sp.sz = space[p].sz
      /\ PagesOf(sp) \in Nat /\ PagesOf(space[p]) \in Nat /\ PagesOf(sp) <= PagesOf(space[p])
      /\ \A i \in Index : i \in sp.user <=> i * PGSIZE < space[p].sz
  BY <1>2, <1>3, <1>4, CutIs
<1>6. PICK x, y, z, w, n : /\ x = InHand(p) /\ y = PagesOf(sp) /\ z = PagesOf(space[p])
                           /\ w = PagesOf(build[p]) /\ n = nfree
  OBVIOUS
<1>7. x \in Nat /\ y \in Nat /\ z \in Nat /\ w = 0 /\ n = 0 /\ y <= z /\ nfree' = z - y + x
  <2>1. InHand(p) \in 0..1
    BY DEF InHand, One
  <2>2. build[p] = NoSpace
    BY <1>1 DEF MemInv, PagesSound, CallPages
  <2> QED
    BY <1>1, <1>2, <1>5, <1>6, <2>1, <2>2, PointersFinite
<1>8. nfree' = n - ((-x) + (y - z) + (-w)) /\ y <= z + w
  BY <1>7
<1>9. /\ nfree' = nfree - ((-InHand(p)) + (PagesOf(sp) - PagesOf(space[p]))
                           + (-PagesOf(build[p])))
      /\ PagesOf(sp) <= PagesOf(space[p]) + PagesOf(build[p])
  BY <1>6, <1>8
<1>10. pc \in [Procs -> Places] /\ space' = [space EXCEPT ![p] = sp]
  BY <1>1, <1>2 DEF ProcInv, ProcTypes
<1>11. \A i \in Index : i \in sp.user <=> i * PGSIZE < sp.sz
  BY <1>5
<1> QED
  BY <1>1, <1>5, <1>9, <1>10, <1>11, BackMem

\* sbrk sets the size that its pages make up.
LEMMA SbrkDoneMem ==
    ASSUME ProcInv, MemInv, NEW p \in Procs, SbrkDone(p)
    PROVE  MemInv'
<1>1. /\ state[p] = "RUNNABLE" /\ pc[p] = "sbrk" /\ Back(p) /\ Forget(p)
      /\ kstack' = kstack /\ nfree' = nfree /\ Wanted(p) = "nothing"
      /\ space' = [space EXCEPT ![p].sz = goal[p]]
  BY DEF SbrkDone, Running
<1>2. PICK sp : sp = [space[p] EXCEPT !.sz = goal[p]]
  OBVIOUS
<1>3. /\ InHand(p) = 0 /\ sp \in Spaces /\ sp.dir
      /\ PagesOf(sp) = PagesOf(space[p]) /\ PagesOf(sp) \in Nat
      /\ \A i \in Index : i \in sp.user <=> i * PGSIZE < sp.sz
  <2>1. Site(p) = space[p]
    BY <1>1 DEF Site
  <2> QED
    BY <1>1, <1>2, <2>1, WantsNothing
<1>4. PICK x, y, z, w, n : /\ x = InHand(p) /\ y = PagesOf(sp) /\ z = PagesOf(space[p])
                           /\ w = PagesOf(build[p]) /\ n = nfree
  OBVIOUS
<1>5. x = 0 /\ y \in Nat /\ z = y /\ w = 0 /\ n \in Nat /\ nfree' = n
  <2>1. build[p] = NoSpace /\ nfree \in Nat
    BY <1>1 DEF MemInv, MemTypes, PagesSound, CallPages
  <2> QED
    BY <1>1, <1>3, <1>4, <2>1, PointersFinite
<1>6. nfree' = n - ((-x) + (y - z) + (-w)) /\ y <= z + w
  BY <1>5
<1>7. /\ nfree' = nfree - ((-InHand(p)) + (PagesOf(sp) - PagesOf(space[p]))
                           + (-PagesOf(build[p])))
      /\ PagesOf(sp) <= PagesOf(space[p]) + PagesOf(build[p])
  BY <1>4, <1>6
<1>8. pc \in [Procs -> Places] /\ space' = [space EXCEPT ![p] = sp]
  BY <1>1, <1>2 DEF ProcInv, ProcTypes
<1> QED
  BY <1>1, <1>3, <1>7, <1>8, BackMem

\* A process gives pages back with sbrk.
LEMMA SbrkShrinkMem ==
    ASSUME ProcInv, MemInv, NEW p \in Procs, SbrkShrink(p)
    PROVE  MemInv' /\ UNCHANGED procVars
<1>1. PICK m \in Sizes :
        /\ m < space[p].sz
        /\ space' = [space EXCEPT ![p] = [Cut(space[p], PgRoundUp(m)) EXCEPT !.sz = m]]
        /\ nfree' = nfree + PagesOf(space[p]) - PagesOf(Cut(space[p], PgRoundUp(m)))
  BY DEF SbrkShrink
<1>2. state[p] = "RUNNABLE" /\ pc[p] = "user"
      /\ UNCHANGED <<state, parent, pid, killed, chan, pc, np>>
      /\ UNCHANGED <<kstack, build, mem, goal>>
  BY DEF SbrkShrink, InUser, Running, procVars
<1>3. PICK s, less, sp : s = space[p] /\ less = Cut(s, PgRoundUp(m))
                         /\ sp = [less EXCEPT !.sz = m]
  OBVIOUS
<1>4. /\ p \in kstack /\ s \in Spaces /\ s.dir /\ s.sz \in Nat
      /\ \A i \in Index : i * PGSIZE < s.sz => i \in s.user
  BY <1>2, <1>3, MappedIs DEF Live
<1>5. m \in 0..MAXPAGES * PGSIZE /\ m \in Nat
  BY MemSizes
<1>6. \A i \in Index : i * PGSIZE < m => i \in s.user
  <2>1. \A i \in Index : i * PGSIZE \in Nat
    BY MemSizes DEF Index
  <2> QED
    BY <1>1, <1>3, <1>4, <1>5, <2>1
<1>7. /\ less \in Spaces /\ less.dir
      /\ PagesOf(less) \in Nat /\ PagesOf(s) \in Nat /\ PagesOf(less) <= PagesOf(s)
      /\ \A i \in Index : i \in less.user <=> i * PGSIZE < m
  BY <1>3, <1>4, <1>5, <1>6, CutIs
<1>8. sp \in Spaces /\ PagesOf(sp) = PagesOf(less)
  BY <1>3, <1>5, <1>7, PagesLeft
<1>9. sp.dir /\ sp.sz = m /\ sp.user = less.user
  BY <1>3, <1>7 DEF Spaces
<1>10. space' = [space EXCEPT ![p] = sp]
       /\ nfree' = nfree + PagesOf(s) - PagesOf(sp)
  BY <1>1, <1>3, <1>8
<1>11. MemTypes
  BY DEF MemInv
<1>12. /\ space' \in [Procs -> Spaces] /\ space'[p] = sp
       /\ \A q \in Procs \ {p} : space'[q] = space[q]
       /\ Cardinality(Held(space')) = Cardinality(Held(space)) + (PagesOf(sp) - PagesOf(space[p]))
  BY <1>8, <1>10, <1>11, SpaceCounts
<1>13. PICK y, z, n : y = PagesOf(sp) /\ z = PagesOf(s) /\ n = nfree
  OBVIOUS
<1>14. y \in Nat /\ z \in Nat /\ y <= z /\ n \in Nat /\ nfree' = n + z - y
  BY <1>7, <1>8, <1>10, <1>11, <1>13 DEF MemTypes
<1>15. nfree' \in Nat /\ y - z \in Int /\ 0 \in Int /\ nfree' = n - (0 + 0 + (y - z) + 0)
  BY <1>14
<1>16. MemTypes'
  BY <1>2, <1>11, <1>12, <1>15 DEF MemTypes
<1>17. PagesConserved'
  <2>1. Cardinality(kstack) \in Nat /\ Cardinality(mem) \in Nat
    BY <1>11, SlotsCounted DEF MemTypes
  <2>2. Cardinality(Held(build)) \in Nat
    BY <1>11, InitProcIsProc, PointersFinite, HeldMoves DEF MemTypes
  <2>3. Held(build') = Held(build)
    BY <1>2
  <2>4. /\ Cardinality(kstack') = Cardinality(kstack) + 0
        /\ Cardinality(mem') = Cardinality(mem) + 0
        /\ Cardinality(Held(build')) = Cardinality(Held(build)) + 0
    BY <1>2, <2>1, <2>2, <2>3
  <2>5. Cardinality(Held(space')) = Cardinality(Held(space)) + (y - z)
        /\ nfree' = nfree - (0 + 0 + (y - z) + 0)
    BY <1>3, <1>12, <1>13, <1>15
  <2> QED
    BY <1>15, <2>4, <2>5, PagesBalance
<1>18. ASSUME NEW q \in Procs PROVE PagesSound(q)'
  <2>1. CASE q # p
    <3>1. StaysPut(q)
      BY <1>2, <1>12, <2>1 DEF StaysPut
    <3> QED
      BY <3>1, PagesStay DEF MemInv
  <2>2. CASE q = p
    <3>1. build[p] = NoSpace /\ p \notin mem
      BY <1>2, NothingUnderWay DEF MemInv, PagesSound
    <3>2. /\ \A i \in Index : i \in space'[p].user <=> i * PGSIZE < space'[p].sz
          /\ space'[p].dir /\ space'[p].sz \in Nat
      BY <1>5, <1>7, <1>9, <1>12
    <3> QED
      BY <1>2, <1>4, <2>2, <3>1, <3>2, BackSound
  <2> QED
    BY <2>1, <2>2
<1> QED
  BY <1>2, <1>16, <1>17, <1>18 DEF MemInv, procVars

\* A slot without a process has no pages.
LEMMA UnusedSound ==
    ASSUME NEW q \in Procs, state'[q] = "UNUSED", pc'[q] \notin {"exec", "sbrk"},
           space'[q] = NoSpace, build'[q] = NoSpace, q \notin kstack', q \notin mem'
    PROVE  PagesSound(q)'
<1>1. SlotPages(q)' /\ Mapped(q)'
  BY DEF SlotPages, Mapped, InUse, Live
<1>2. NoSpace.user = {}
  BY DEF NoSpace
<1>3. CallPages(q)'
  BY <1>2 DEF CallPages
<1> QED
  BY <1>1, <1>3 DEF PagesSound

\* fork gives back the child's page table and stack.
LEMMA ForkNoMemoryMem ==
    ASSUME ProcInv, MemInv, NEW p \in Procs, ForkNoMemory(p)
    PROVE  MemInv'
<1>0. pc \in [Procs -> Places] /\ state \in [Procs -> States]
      /\ np \in [Procs -> Procs \cup {0}] /\ MemTypes
  BY DEF ProcInv, ProcTypes, MemInv
<1>1. PICK c : c = np[p]
  OBVIOUS
<1>2. /\ state[p] = "RUNNABLE" /\ pc[p] = "fork" /\ Forget(p)
      /\ state' = [state EXCEPT ![c] = "UNUSED"]
      /\ np' = [np EXCEPT ![p] = 0] /\ pc' = [pc EXCEPT ![p] = "user"]
      /\ nfree = 0 /\ nfree' = PagesOf(build[p]) + InHand(p) + One(c \in kstack)
      /\ kstack' = kstack \ {c} /\ space' = space
  BY <1>1 DEF ForkNoMemory, ForkFail, Running
<1>3. /\ c \in Procs /\ c # p /\ state[c] = "EMBRYO" /\ pc[c] # "fork"
      /\ \A q \in Procs \ {p} : np[q] # c
  BY <1>1, <1>2, EmbryoFacts DEF Running
<1>4. /\ mem' \subseteq Procs /\ build' \in [Procs -> Spaces]
      /\ goal' \in [Procs -> 0..MAXPAGES * PGSIZE]
      /\ build'[p] = NoSpace /\ p \notin mem'
      /\ \A q \in Procs \ {p} : /\ build'[q] = build[q] /\ goal'[q] = goal[q]
                                /\ q \in mem' <=> q \in mem
      /\ InHand(p) \in 0..1 /\ PagesOf(build[p]) \in Nat
      /\ Cardinality(mem') = Cardinality(mem) + (-InHand(p))
      /\ Cardinality(Held(build')) = Cardinality(Held(build)) + (-PagesOf(build[p]))
  BY <1>0, <1>2, ForgetCounts
<1>5. PICK x, w, k : x = InHand(p) /\ w = PagesOf(build[p]) /\ k = One(c \in kstack)
  OBVIOUS
<1>6. x \in Nat /\ w \in Nat /\ k \in Nat /\ nfree' = w + x + k
  <2>1. k \in Nat
    BY <1>5 DEF One
  <2>2. nfree' = w + x + k
    BY <1>2, <1>5, Zenon
  <2>3. x \in 0..1 /\ w \in Nat
    BY <1>4, <1>5
  <2> QED
    BY <2>1, <2>2, <2>3
<1>7. MemTypes'
  <2>1. nfree' \in Nat
    BY <1>6
  <2>2. kstack' \subseteq Procs /\ space' \in [Procs -> Spaces]
    BY <1>0, <1>2 DEF MemTypes
  <2> QED
    BY <1>4, <2>1, <2>2 DEF MemTypes
<1>8. PagesConserved'
  <2>1. Cardinality(kstack') = Cardinality(kstack) + (-k)
    <3>1. /\ Cardinality(kstack) \in Nat
          /\ Cardinality(kstack \ {c}) = IF c \in kstack THEN Cardinality(kstack) - 1
                                         ELSE Cardinality(kstack)
      BY <1>0, SlotsCounted DEF MemTypes
    <3>2. k = IF c \in kstack THEN 1 ELSE 0
      BY <1>5 DEF One
    <3> QED
      BY <1>2, <3>1, <3>2
  <2>2. Cardinality(Held(space')) = Cardinality(Held(space)) + 0
    <3>1. Cardinality(Held(space)) \in Nat
      BY <1>0, InitProcIsProc, PointersFinite, HeldMoves DEF MemTypes
    <3>2. Held(space') = Held(space)
      BY <1>2
    <3> QED
      BY <3>1, <3>2
  <2>3. /\ Cardinality(mem') = Cardinality(mem) + (-x)
        /\ Cardinality(Held(build')) = Cardinality(Held(build)) + (-w)
    BY <1>4, <1>5
  <2>4. /\ -k \in Int /\ -x \in Int /\ 0 \in Int /\ -w \in Int
        /\ nfree' = 0 - ((-k) + (-x) + 0 + (-w))
    BY <1>6
  <2>5. nfree' = nfree - ((-k) + (-x) + 0 + (-w))
    BY <1>2, <2>4
  <2> QED
    BY <2>1, <2>2, <2>3, <2>4, <2>5, PagesBalance
<1>9. PagesSound(p)'
  <2>1. /\ p \in kstack /\ space[p].dir /\ space[p].sz \in Nat
        /\ \A i \in Index : i \in space[p].user <=> i * PGSIZE < space[p].sz
    BY <1>2, MappedIs DEF Live
  <2>2. state'[p] = "RUNNABLE" /\ pc'[p] = "user" /\ p \in kstack'
    BY <1>0, <1>2, <1>3, <2>1
  <2> QED
    BY <1>2, <1>4, <2>1, <2>2, BackSound
<1>10. PagesSound(c)'
  <2>1. PagesSound(c) /\ pc[c] \notin {"fork", "exec", "sbrk"}
    BY <1>3 DEF MemInv, PagesSound, CallPages
  <2>2. build[c] = NoSpace /\ c \notin mem /\ space[c] = NoSpace
    BY <1>3, <2>1, NothingUnderWay DEF PagesSound, SlotPages
  <2>3. state'[c] = "UNUSED" /\ pc'[c] = pc[c]
    BY <1>0, <1>2, <1>3
  <2> QED
    BY <1>2, <1>3, <1>4, <2>1, <2>2, <2>3, UnusedSound
<1>11. ASSUME NEW q \in Procs \ {p, c} PROVE PagesSound(q)'
  <2>1. state'[q] = state[q] /\ pc'[q] = pc[q] /\ np'[q] = np[q]
    BY <1>0, <1>2, <1>3
  <2>2. StaysPut(q)
    BY <1>2, <1>3, <1>4, <2>1 DEF StaysPut
  <2> QED
    BY <2>2, PagesStay DEF MemInv
<1> QED
  BY <1>7, <1>8, <1>9, <1>10, <1>11 DEF MemInv

\* The child gets the page table.
LEMMA ForkDoneMem ==
    ASSUME ProcInv, MemInv, NEW p \in Procs, ForkDone(p)
    PROVE  MemInv'
<1>0. pc \in [Procs -> Places] /\ state \in [Procs -> States]
      /\ np \in [Procs -> Procs \cup {0}] /\ MemTypes
  BY DEF ProcInv, ProcTypes, MemInv
<1>1. PICK c, sp : c = np[p] /\ sp = [build[p] EXCEPT !.sz = goal[p]]
  OBVIOUS
<1>2. /\ state[p] = "RUNNABLE" /\ pc[p] = "fork" /\ Forget(p) /\ Wanted(p) = "nothing"
      /\ state' = [state EXCEPT ![c] = "RUNNABLE"]
      /\ np' = [np EXCEPT ![p] = 0] /\ pc' = [pc EXCEPT ![p] = "user", ![c] = "user"]
      /\ nfree' = nfree /\ kstack' = kstack /\ space' = [space EXCEPT ![c] = sp]
  BY <1>1 DEF ForkDone, ForkReturn, Running
<1>3. /\ c \in Procs /\ c # p /\ state[c] = "EMBRYO" /\ pc[c] # "fork"
      /\ \A q \in Procs \ {p} : np[q] # c
  BY <1>1, <1>2, EmbryoFacts DEF Running
<1>4. /\ mem' \subseteq Procs /\ build' \in [Procs -> Spaces]
      /\ goal' \in [Procs -> 0..MAXPAGES * PGSIZE]
      /\ build'[p] = NoSpace /\ p \notin mem'
      /\ \A q \in Procs \ {p} : /\ build'[q] = build[q] /\ goal'[q] = goal[q]
                                /\ q \in mem' <=> q \in mem
      /\ InHand(p) \in 0..1 /\ PagesOf(build[p]) \in Nat
      /\ Cardinality(mem') = Cardinality(mem) + (-InHand(p))
      /\ Cardinality(Held(build')) = Cardinality(Held(build)) + (-PagesOf(build[p]))
  BY <1>0, <1>2, ForgetCounts
<1>5. /\ InHand(p) = 0 /\ sp \in Spaces /\ sp.dir /\ sp.sz = goal[p] /\ c \in kstack
      /\ PagesOf(sp) = PagesOf(build[p]) /\ PagesOf(sp) \in Nat
      /\ \A i \in Index : i \in sp.user <=> i * PGSIZE < sp.sz
  <2>1. Site(p) = build[p]
    BY <1>2 DEF Site
  <2> QED
    BY <1>1, <1>2, <2>1, WantsNothing
<1>6. /\ space' \in [Procs -> Spaces] /\ space'[c] = sp
      /\ \A q \in Procs \ {c} : space'[q] = space[q]
      /\ Cardinality(Held(space')) = Cardinality(Held(space)) + (PagesOf(sp) - PagesOf(space[c]))
  BY <1>0, <1>2, <1>3, <1>5, SpaceCounts
<1>7. PagesSound(c) /\ space[c] = NoSpace /\ build[c] = NoSpace /\ c \notin mem
  <2>1. PagesSound(c) /\ pc[c] \notin {"fork", "exec", "sbrk"}
    BY <1>3 DEF MemInv, PagesSound, CallPages
  <2> QED
    BY <1>3, <2>1, NothingUnderWay DEF PagesSound, SlotPages
<1>8. PICK w, n : w = PagesOf(build[p]) /\ n = nfree
  OBVIOUS
<1>9. w \in Nat /\ n \in Nat
  BY <1>0, <1>5, <1>8 DEF MemTypes
<1>10. MemTypes'
  BY <1>0, <1>2, <1>4, <1>6 DEF MemTypes
<1>11. PagesConserved'
  <2>1. Cardinality(kstack) \in Nat /\ Cardinality(mem) \in Nat
    BY <1>0, SlotsCounted DEF MemTypes
  <2>2. Cardinality(Held(space')) = Cardinality(Held(space)) + w
    <3>1. PagesOf(sp) - PagesOf(space[c]) = w
      BY <1>5, <1>7, <1>8, <1>9, PointersFinite
    <3> QED
      BY <1>6, <3>1
  <2>3. Cardinality(Held(build')) = Cardinality(Held(build)) + (-w)
    BY <1>4, <1>8
  <2>4. Cardinality(kstack') = Cardinality(kstack) + 0
    BY <1>2, <2>1
  <2>5. Cardinality(mem') = Cardinality(mem) + 0
    <3>1. Cardinality(mem') = Cardinality(mem) + (-0)
      BY <1>4, <1>5
    <3> QED
      BY <2>1, <3>1
  <2>6. 0 \in Int /\ w \in Int /\ -w \in Int /\ n = n - (0 + 0 + w + (-w))
    BY <1>9
  <2>7. nfree' = nfree - (0 + 0 + w + (-w))
    BY <1>2, <1>8, <2>6
  <2> QED
    BY <2>2, <2>3, <2>4, <2>5, <2>6, <2>7, PagesBalance
<1>12. PagesSound(p)'
  <2>1. /\ p \in kstack /\ space[p].dir /\ space[p].sz \in Nat
        /\ \A i \in Index : i \in space[p].user <=> i * PGSIZE < space[p].sz
    BY <1>2, MappedIs DEF Live
  <2>2. state'[p] = "RUNNABLE" /\ pc'[p] = "user" /\ p \in kstack'
        /\ space'[p] = space[p]
    BY <1>0, <1>2, <1>3, <1>6, <2>1
  <2>3. /\ space'[p].dir /\ space'[p].sz \in Nat
        /\ \A i \in Index : i \in space'[p].user <=> i * PGSIZE < space'[p].sz
    BY <2>1, <2>2
  <2> QED
    BY <1>4, <2>2, <2>3, BackSound
<1>13. PagesSound(c)'
  <2>1. state'[c] = "RUNNABLE" /\ pc'[c] = "user" /\ c \in kstack'
    BY <1>0, <1>2, <1>3, <1>5
  <2>2. build'[c] = NoSpace /\ c \notin mem'
    BY <1>3, <1>4, <1>7
  <2>3. space'[c].sz \in Nat
    BY <1>5, <1>6, MemSizes DEF Spaces
  <2> QED
    BY <1>3, <1>5, <1>6, <2>1, <2>2, <2>3, BackSound
<1>14. ASSUME NEW q \in Procs \ {p, c} PROVE PagesSound(q)'
  <2>1. state'[q] = state[q] /\ pc'[q] = pc[q] /\ np'[q] = np[q]
    BY <1>0, <1>2, <1>3
  <2>2. StaysPut(q)
    BY <1>2, <1>3, <1>4, <1>6, <2>1 DEF StaysPut
  <2> QED
    BY <2>2, PagesStay DEF MemInv
<1> QED
  BY <1>10, <1>11, <1>12, <1>13, <1>14 DEF MemInv

\* wait gives back the stack and the page table of the child that it reaps.
LEMMA ReapMem ==
    ASSUME ProcInv, MemInv, NEW p \in Procs, MemWait(p), Zombies(p) # {}
    PROVE  MemInv'
<1>0. pc \in [Procs -> Places] /\ state \in [Procs -> States]
      /\ np \in [Procs -> Procs \cup {0}] /\ MemTypes
  BY DEF ProcInv, ProcTypes, MemInv
<1>1. PICK z : z = Lowest(Zombies(p))
  OBVIOUS
<1>2. /\ z \in Procs /\ state[z] = "ZOMBIE" /\ \A q \in Procs : np[q] # z
  BY <1>1, ZombieFacts
<1>3. /\ state[p] = "RUNNABLE" /\ pc[p] \in {"user", "wait"} /\ np' = np
      /\ state' = [state EXCEPT ![z] = "UNUSED"]
      /\ pc' = [pc EXCEPT ![p] = "user", ![z] = "user"]
      /\ UNCHANGED <<build, mem, goal>>
      /\ nfree' = nfree + PagesOf(space[z]) + 1
      /\ kstack' = kstack \ {z} /\ space' = [space EXCEPT ![z] = NoSpace]
  <2>1. Wait(p) /\ Reap(z) /\ UNCHANGED <<build, mem, goal>>
    BY <1>1 DEF MemWait
  <2>2. /\ state[p] = "RUNNABLE" /\ pc[p] \in {"user", "wait"} /\ np' = np
    BY <2>1 DEF Wait, InUser, Running
  <2>3. /\ state' = [state EXCEPT ![z] = "UNUSED"]
        /\ pc' = [pc EXCEPT ![p] = "user", ![z] = "user"]
    BY <1>1, <2>1 DEF Wait
  <2> QED
    BY <2>1, <2>2, <2>3 DEF Reap
<1>4. PagesSound(z) /\ pc[z] \notin {"fork", "exec", "sbrk"}
  BY <1>2 DEF MemInv, PagesSound, CallPages, ProcInv, ForkInv
<1>5. build[z] = NoSpace /\ z \notin mem /\ z \in kstack
  BY <1>2, <1>4, NothingUnderWay DEF PagesSound, SlotPages, InUse
<1>6. /\ space' \in [Procs -> Spaces] /\ space'[z] = NoSpace
      /\ \A q \in Procs \ {z} : space'[q] = space[q]
      /\ PagesOf(space[z]) \in Nat
      /\ Cardinality(Held(space')) =
            Cardinality(Held(space)) + (PagesOf(NoSpace) - PagesOf(space[z]))
  BY <1>0, <1>2, <1>3, PointersFinite, SpaceCounts
<1>7. PICK s, n : s = PagesOf(space[z]) /\ n = nfree
  OBVIOUS
<1>8. s \in Nat /\ n \in Nat /\ nfree' = n + s + 1
  BY <1>0, <1>3, <1>6, <1>7 DEF MemTypes
<1>9. MemTypes'
  BY <1>0, <1>3, <1>6, <1>8 DEF MemTypes
<1>10. PagesConserved'
  <2>1. /\ Cardinality(kstack) \in Nat /\ Cardinality(mem) \in Nat
        /\ Cardinality(kstack \ {z}) = Cardinality(kstack) - 1
    BY <1>0, <1>5, SlotsCounted DEF MemTypes
  <2>2. Cardinality(kstack') = Cardinality(kstack) + (-1)
    BY <1>3, <2>1
  <2>3. Cardinality(mem') = Cardinality(mem) + 0
    BY <1>3, <2>1
  <2>4. Cardinality(Held(space')) = Cardinality(Held(space)) + (-s)
    <3>1. PagesOf(NoSpace) - PagesOf(space[z]) = -s
      BY <1>7, <1>8, PointersFinite
    <3> QED
      BY <1>6, <3>1
  <2>5. Cardinality(Held(build')) = Cardinality(Held(build)) + 0
    <3>1. Cardinality(Held(build)) \in Nat
      BY <1>0, InitProcIsProc, PointersFinite, HeldMoves DEF MemTypes
    <3>2. Held(build') = Held(build)
      BY <1>3
    <3> QED
      BY <3>1, <3>2
  <2>6. -1 \in Int /\ 0 \in Int /\ -s \in Int /\ nfree' = n - ((-1) + 0 + (-s) + 0)
    BY <1>8
  <2>7. nfree' = nfree - ((-1) + 0 + (-s) + 0)
    BY <1>7, <2>6
  <2> QED
    BY <2>2, <2>3, <2>4, <2>5, <2>6, <2>7, PagesBalance
<1>11. PagesSound(z)'
  <2>1. state'[z] = "UNUSED" /\ pc'[z] = "user"
    BY <1>0, <1>2, <1>3
  <2> QED
    BY <1>2, <1>3, <1>5, <1>6, <2>1, UnusedSound
<1>12. ASSUME NEW q \in Procs \ {z} PROVE PagesSound(q)'
  <2>1. state'[q] = state[q] /\ np'[q] = np[q] /\ np[q] # z
    BY <1>0, <1>2, <1>3
  <2>2. CASE q = p
    <3>1. pc'[q] = "user"
      BY <1>0, <1>3, <2>2
    <3>2. MovesOn(q)
      BY <1>3, <1>6, <2>1, <2>2, <3>1 DEF MovesOn
    <3> QED
      BY <3>2, PagesStay DEF MemInv
  <2>3. CASE q # p
    <3>1. pc'[q] = pc[q]
      BY <1>0, <1>3, <2>3
    <3>2. StaysPut(q)
      BY <1>3, <1>6, <2>1, <3>1 DEF StaysPut
    <3> QED
      BY <3>2, PagesStay DEF MemInv
  <2> QED
    BY <2>2, <2>3
<1> QED
  BY <1>9, <1>10, <1>11, <1>12 DEF MemInv

\* A call of exec or sbrk that ends is one of the calls of the process table.
LEMMA BackCall ==
    ASSUME ProcInv, NEW p \in Procs, Back(p), Running(p, "exec") \/ Running(p, "sbrk")
    PROVE  ProcInv' /\ NotOfPipe /\ NotOfConsole
<1>0. pc \in [Procs -> Places] /\ state \in [Procs -> States]
      /\ chan \in [Procs -> Int]
  BY DEF ProcInv, ProcTypes
<1>1. pc' = [pc EXCEPT ![p] = "user"] /\ UNCHANGED <<state, parent, pid, killed, chan, np>>
  BY DEF Back
<1>2. CallOf(p)
  BY <1>0, <1>1 DEF CallOf, Places, Running
<1>3. state[p] = "RUNNABLE" /\ pc[p] \in {"exec", "sbrk"}
  BY DEF Running
<1>4. NotOfPipe /\ NotOfConsole
  BY <1>0, <1>1, <1>3 DEF NotOfPipe, NotOfConsole, NoneJoins, SleepersStay, Stays
<1> QED
  BY <1>2, <1>4, CallKeeps

-----------------------------------------------------------------------------
(* The memory of all processes.                                            *)

\* After userinit one process has one page of memory.
LEMMA InitSpaceIs ==
    /\ InitSpace \in Spaces /\ PagesOf(InitSpace) = KTABS + 3
    /\ InitSpace.dir /\ InitSpace.sz = PGSIZE
    /\ \A i \in Index : i \in InitSpace.user <=> i * PGSIZE < InitSpace.sz
<1>1. 0 \in Index /\ PGSIZE \in 0..MAXPAGES * PGSIZE /\ KTABS \in Nat /\ PGSIZE \in Nat \ {0}
  <2>1. PGSIZE * 0 + PGSIZE <= PGSIZE * MAXPAGES
    BY MemSizes, MulLess
  <2>2. PGSIZE * MAXPAGES = MAXPAGES * PGSIZE /\ PGSIZE * 0 = 0
    BY MemSizes
  <2> QED
    BY <2>1, <2>2, MemSizes DEF Index
<1>2. InitSpace \in Spaces
  BY <1>1 DEF InitSpace, Spaces
<1>3. PICK S, U, V : S = {"kern"} /\ U = 1..KTABS /\ V = S \X U
  OBVIOUS
<1>4. IsFiniteSet(V) /\ Cardinality(V) = KTABS
  <2>1. IsFiniteSet(S) /\ Cardinality(S) = 1
    BY <1>3, FS_Singleton
  <2>2. IsFiniteSet(U) /\ Cardinality(U) = KTABS
    <3>1. PICK k \in Nat : k = KTABS
      BY MemSizes
    <3>2. IsFiniteSet(1..k) /\ Cardinality(1..k) = IF 1 > k THEN 0 ELSE k - 1 + 1
      BY FS_Interval
    <3>3. (IF 1 > k THEN 0 ELSE k - 1 + 1) = k
      OBVIOUS
    <3> QED
      BY <1>3, <3>1, <3>2, <3>3
  <2>3. IsFiniteSet(V) /\ Cardinality(V) = Cardinality(S) * Cardinality(U)
    BY <1>3, <2>1, <2>2, FS_Product
  <2>4. Cardinality(V) = 1 * KTABS
    BY <2>1, <2>2, <2>3
  <2> QED
    BY <1>1, <2>3, <2>4
<1>5. PagesOf(InitSpace) = KTABS + 3
  <2>1. Pointers(InitSpace) = V \cup {<<"dir", 0>>} \cup {<<"tab", 0>>} \cup {<<"user", 0>>}
    BY <1>3 DEF Pointers, InitSpace
  <2>2. /\ <<"dir", 0>> \notin V /\ <<"tab", 0>> \notin V \cup {<<"dir", 0>>}
        /\ <<"user", 0>> \notin V \cup {<<"dir", 0>>} \cup {<<"tab", 0>>}
    BY <1>3
  <2>3. PICK d, m, u : d = <<"dir", 0>> /\ m = <<"tab", 0>> /\ u = <<"user", 0>>
    OBVIOUS
  <2>4. IsFiniteSet(V \cup {d}) /\ Cardinality(V \cup {d}) = KTABS + 1
    BY <1>4, <2>2, <2>3, FS_AddElement
  <2>5. PICK A : A = V \cup {d}
    OBVIOUS
  <2>6. IsFiniteSet(A \cup {m}) /\ Cardinality(A \cup {m}) = (KTABS + 1) + 1
    BY <2>2, <2>3, <2>4, <2>5, FS_AddElement
  <2>7. PICK B : B = A \cup {m}
    OBVIOUS
  <2>8. Cardinality(B \cup {u}) = ((KTABS + 1) + 1) + 1
    BY <2>2, <2>3, <2>5, <2>6, <2>7, FS_AddElement, SMTT(20)
  <2>9. Pointers(InitSpace) = B \cup {u}
    BY <2>1, <2>3, <2>5, <2>7
  <2>10. PagesOf(InitSpace) = ((KTABS + 1) + 1) + 1
    BY <2>8, <2>9 DEF PagesOf
  <2> QED
    BY <1>1, <2>10
<1>8. InitSpace.dir /\ InitSpace.sz = PGSIZE /\ InitSpace.user = {0}
  BY DEF InitSpace
<1>9. ASSUME NEW i \in Index PROVE i = 0 <=> i * PGSIZE < PGSIZE
  <2>1. i \in Nat
    BY DEF Index
  <2>2. CASE i = 0
    BY <1>1, <2>2
  <2>3. CASE i # 0
    <3>1. PGSIZE * 0 + PGSIZE <= PGSIZE * i
      BY <1>1, <2>1, <2>3, MulLess
    <3>2. PGSIZE * i = i * PGSIZE /\ PGSIZE * 0 = 0 /\ i * PGSIZE \in Int
      BY <1>1, <2>1
    <3> QED
      BY <1>1, <2>3, <3>1, <3>2
  <2> QED
    BY <2>2, <2>3
<1> QED
  BY <1>2, <1>5, <1>8, <1>9

\* userinit leaves the memory in order.
LEMMA MemInitInv == ProcInit /\ MemInit => MemInv
<1> SUFFICES ASSUME ProcInit, MemInit PROVE MemInv
  OBVIOUS
<1> USE InitProcIsProc
<1>1. /\ kstack = {initproc} /\ mem = {} /\ nfree = NPAGES - PagesOf(InitSpace) - 1
      /\ space = [p \in Procs |-> IF p = initproc THEN InitSpace ELSE NoSpace]
      /\ build = [p \in Procs |-> NoSpace] /\ goal = [p \in Procs |-> 0]
      /\ state = [p \in Procs |-> IF p = initproc THEN "RUNNABLE" ELSE "UNUSED"]
      /\ pc = [p \in Procs |-> "user"]
  BY DEF ProcInit, MemInit
<1>2. NoSpace \in Spaces /\ InitSpace \in Spaces /\ PagesOf(InitSpace) = KTABS + 3
  BY PointersFinite, InitSpaceIs
<1>3. nfree \in Nat /\ NPAGES = nfree + 1 + (KTABS + 3)
  BY <1>1, <1>2, MemSizes
<1>4. MemTypes
  <2>1. 0 \in 0..MAXPAGES * PGSIZE
    BY MemSizes
  <2> QED
    BY <1>1, <1>2, <1>3, <2>1 DEF MemTypes
<1>5. PagesConserved
  <2>1. Held(build) = {}
    BY <1>1, PointersFinite DEF Held
  <2>2. HeldBut(space, initproc) = {}
    <3>1. \A q \in Procs \ {initproc} : Pointers(space[q]) = {}
      BY <1>1, PointersFinite
    <3> QED
      BY <3>1 DEF HeldBut
  <2>3. /\ space[initproc] = InitSpace
        /\ Cardinality(Held(space)) = Cardinality(HeldBut(space, initproc)) + PagesOf(space[initproc])
    BY <1>1, <1>4, HeldSplit DEF MemTypes
  <2>4. Cardinality(Held(build)) = 0 /\ Cardinality(mem) = 0 /\ Cardinality(kstack) = 1
    BY <1>1, <2>1, FS_EmptySet, FS_Singleton
  <2>5. Cardinality(Held(space)) = KTABS + 3
    <3>1. Cardinality(HeldBut(space, initproc)) = 0
      BY <2>2, FS_EmptySet
    <3> QED
      BY <1>2, <2>3, <3>1, MemSizes
  <2> QED
    BY <1>3, <2>4, <2>5, MemSizes DEF PagesConserved
<1>6. ASSUME NEW p \in Procs PROVE PagesSound(p)
  <2>1. SlotPages(p)
    BY <1>1, InitSpaceIs DEF SlotPages, InUse, Live
  <2>2. Mapped(p)
    <3>1. p \in InUse => space[p] = InitSpace
      BY <1>1 DEF InUse, Live
    <3>2. \A i \in Index : i * PGSIZE \in Nat
      BY MemSizes DEF Index
    <3> QED
      BY <3>1, <3>2, InitSpaceIs, MemSizes DEF Mapped
  <2>3. NoSpace.user = {}
    BY DEF NoSpace
  <2>4. CallPages(p)
    BY <1>1, <2>3 DEF CallPages
  <2> QED
    BY <2>1, <2>2, <2>4 DEF PagesSound
<1> QED
  BY <1>4, <1>5, <1>6 DEF MemInv

\* Every step keeps the memory in order, and leaves the users of the pipe and the
\* console alone.
LEMMA MemNextInv ==
    ASSUME ProcInv, MemInv, MemNext
    PROVE  ProcInv' /\ MemInv' /\ NotOfPipe /\ NotOfConsole
<1>1. ASSUME NEW p \in Procs, ProcCall(p)
      PROVE  ProcInv' /\ NotOfPipe /\ NotOfConsole
  BY <1>1, ProcCallApart
<1>2. ASSUME UNCHANGED procVars PROVE ProcInv' /\ NotOfPipe /\ NotOfConsole
  <2>1. CallOf(initproc)
    BY <1>2, InitProcIsProc DEF procVars, CallOf, ProcInv, ProcTypes
  <2>2. NotOfPipe /\ NotOfConsole
    BY <1>2 DEF procVars, NotOfPipe, NotOfConsole, NoneJoins, SleepersStay, Stays
  <2> QED
    BY <2>1, <2>2, CallKeeps, InitProcIsProc
<1>3. ASSUME NEW p \in Procs, MemWait(p)
      PROVE  ProcInv' /\ MemInv' /\ NotOfPipe /\ NotOfConsole
  <2>1. ProcCall(p)
    BY <1>3 DEF MemWait, ProcCall
  <2>2. MemInv'
    <3>1. CASE Zombies(p) # {}
      BY <1>3, <3>1, ReapMem
    <3>2. CASE Zombies(p) = {}
      BY <1>3, <3>2, ExitWaitMem DEF MemWait, memVars
    <3> QED
      BY <3>1, <3>2
  <2> QED
    BY <1>1, <2>1, <2>2
<1>4. ASSUME NEW p \in Procs, MemStep(p)
      PROVE  ProcInv' /\ MemInv' /\ NotOfPipe /\ NotOfConsole
  <2>1. CASE Kalloc(p)
    <3>1. UNCHANGED procVars
      BY <2>1 DEF Kalloc
    <3> QED
      BY <1>2, <2>1, <3>1, KallocMem
  <2>2. CASE ForkNoMemory(p)
    BY <1>1, <2>2, ForkNoMemoryMem DEF ForkNoMemory, ProcCall
  <2>3. CASE ForkDone(p)
    BY <1>1, <2>3, ForkDoneMem DEF ForkDone, ProcCall
  <2>4. CASE ExecBad(p)
    BY <2>4, ExecBadMem, BackCall DEF ExecBad
  <2>5. CASE ExecDone(p)
    BY <2>5, ExecDoneMem, BackCall DEF ExecDone
  <2>6. CASE SbrkNoMemory(p)
    BY <2>6, SbrkNoMemoryMem, BackCall DEF SbrkNoMemory
  <2>7. CASE SbrkDone(p)
    BY <2>7, SbrkDoneMem, BackCall DEF SbrkDone
  <2>8. CASE ExitZombie(p) /\ UNCHANGED memVars
    BY <1>1, <2>8, ExitWaitMem DEF ProcCall
  <2>9. CASE MemWait(p)
    BY <1>3, <2>9
  <2> QED
    BY <1>4, <2>1, <2>2, <2>3, <2>4, <2>5, <2>6, <2>7, <2>8, <2>9 DEF MemStep
<1>5. ASSUME NEW p \in Procs, ForkBegin(p)
      PROVE  ProcInv' /\ MemInv' /\ NotOfPipe /\ NotOfConsole
  BY <1>1, <1>5, ForkBeginMem DEF ForkBegin, ProcCall
<1>6. ASSUME NEW p \in Procs, ExecCall(p) \/ SbrkGrow(p)
      PROVE  ProcInv' /\ MemInv' /\ NotOfPipe /\ NotOfConsole
  BY <1>6, EnterMem, CallKeeps
<1>7. ASSUME NEW p \in Procs, SbrkShrink(p)
      PROVE  ProcInv' /\ MemInv' /\ NotOfPipe /\ NotOfConsole
  BY <1>2, <1>7, SbrkShrinkMem
<1>8. ASSUME NEW p \in Procs, ExitCall(p), UNCHANGED memVars
      PROVE  ProcInv' /\ MemInv' /\ NotOfPipe /\ NotOfConsole
  BY <1>1, <1>8, ExitWaitMem DEF ProcCall
<1> QED
  BY <1>3, <1>4, <1>5, <1>6, <1>7, <1>8 DEF MemNext

-----------------------------------------------------------------------------
(* The three workloads.                                                    *)

\* Memory counts in every workload; its processes follow it under its own.
WorkloadInv ==
    /\ PagesConserved
    /\ workload = "memory" => MemInv
    /\ workload # "pipe" => \A q \in Procs : ofile[q] = {}

KernelInv == PipeInv /\ ConsoleInv /\ WorkloadInv

\* A step that leaves all pages where they are.
LEMMA PagesRest == PagesConserved /\ UNCHANGED memVars => PagesConserved'
<1> SUFFICES ASSUME PagesConserved, UNCHANGED <<nfree, kstack, space, build, mem, goal>>
             PROVE  PagesConserved'
  BY DEF memVars
<1>1. Held(space)' = Held(space) /\ Held(build)' = Held(build)
  BY DEF Held
<1> QED
  BY <1>1 DEF PagesConserved

\* All is in order after boot, whatever the workload.
LEMMA KernelInitInv == KernelInit => KernelInv
<1> SUFFICES ASSUME KernelInit PROVE KernelInv
  OBVIOUS
<1>1. PipeInv /\ ConsoleInv /\ MemInv
  BY PipeInitInv, ConsoleInitInv, MemInitInv DEF KernelInit
<1>2. \A q \in Procs : ofile[q] = {}
  BY DEF KernelInit, PipeInit
<1> QED
  BY <1>1, <1>2 DEF KernelInv, WorkloadInv, MemInv

\* The users of the pipe.
LEMMA PipeWorkload == KernelInv /\ OnPipe /\ PipeNext => KernelInv'
<1> SUFFICES ASSUME KernelInv, OnPipe, PipeNext PROVE KernelInv'
  OBVIOUS
<1>1. PipeInv /\ ConsoleInv /\ PagesConserved
  BY DEF KernelInv, WorkloadInv
<1>2. UNCHANGED consoleVars /\ UNCHANGED memVars /\ workload = "pipe" /\ workload' = workload
  BY DEF OnPipe
<1>3. PipeInv'
  BY <1>1, PipeNextInv
<1>4. ConsoleInv'
  BY <1>1, <1>2, PipeNextApart, ConsoleRests
<1>5. PagesConserved'
  BY <1>1, <1>2, PagesRest
<1> QED
  BY <1>2, <1>3, <1>4, <1>5 DEF KernelInv, WorkloadInv

\* The readers of the console.
LEMMA ConsoleWorkload == KernelInv /\ OnConsole /\ ConsoleNext => KernelInv'
<1> SUFFICES ASSUME KernelInv, OnConsole, ConsoleNext PROVE KernelInv'
  OBVIOUS
<1>1. /\ PipeInv /\ ProcInv /\ ConsoleInv /\ PagesConserved
      /\ \A q \in Procs : ofile[q] = {}
  BY DEF KernelInv, WorkloadInv, PipeInv, OnConsole
<1>2. UNCHANGED pipeVars /\ UNCHANGED memVars /\ workload = "console" /\ workload' = workload
  BY DEF OnConsole
<1>3. ProcInv' /\ ConsoleInv' /\ NotOfPipe
  BY <1>1, ConsoleNextInv
<1>4. PipeInv'
  BY <1>1, <1>2, <1>3, NotOfPipeKeeps
<1>5. PagesConserved'
  BY <1>1, <1>2, PagesRest
<1>6. ofile' = ofile
  BY <1>2 DEF pipeVars
<1> QED
  BY <1>1, <1>2, <1>3, <1>4, <1>5, <1>6 DEF KernelInv, WorkloadInv

\* The processes that compete for memory.
LEMMA MemoryWorkload == KernelInv /\ OnMemory /\ MemNext => KernelInv'
<1> SUFFICES ASSUME KernelInv, OnMemory, MemNext PROVE KernelInv'
  OBVIOUS
<1>1. /\ PipeInv /\ ProcInv /\ ConsoleInv /\ MemInv
      /\ \A q \in Procs : ofile[q] = {}
  BY DEF KernelInv, WorkloadInv, PipeInv, OnMemory
<1>2. UNCHANGED pipeVars /\ UNCHANGED consoleVars /\ workload' = workload
      /\ workload = "memory"
  BY DEF OnMemory
<1>3. ProcInv' /\ MemInv' /\ NotOfPipe /\ NotOfConsole
  BY <1>1, MemNextInv
<1>4. PipeInv' /\ ConsoleInv'
  BY <1>1, <1>2, <1>3, NotOfPipeKeeps, ConsoleRests
<1>5. ofile' = ofile
  BY <1>2 DEF pipeVars
<1>6. PagesConserved'
  BY <1>3 DEF MemInv
<1> QED
  BY <1>1, <1>2, <1>3, <1>4, <1>5, <1>6 DEF KernelInv, WorkloadInv

\* Every step of the kernel keeps the invariant.
LEMMA KernelNextInv == KernelInv /\ [KernelNext]_kernelVars => KernelInv'
<1> SUFFICES ASSUME KernelInv, UNCHANGED kernelVars PROVE KernelInv'
  BY PipeWorkload, ConsoleWorkload, MemoryWorkload DEF KernelNext
<1>1. /\ UNCHANGED procVars /\ UNCHANGED pipeVars /\ UNCHANGED consoleVars
      /\ UNCHANGED memVars /\ workload' = workload
  BY DEF kernelVars
<1>2. PipeInv /\ ConsoleInv /\ WorkloadInv
  BY DEF KernelInv
<1>3. PipeInv'
  BY <1>1, <1>2, PipeNextInv
<1>4. ConsoleInv'
  <2>1. NotOfConsole
    BY <1>1 DEF procVars, NotOfConsole, NoneJoins, Stays
  <2> QED
    BY <1>1, <1>2, <2>1, ConsoleRests
<1>5. ASSUME MemInv PROVE MemInv'
  <2>1. UNCHANGED <<nfree, kstack, space, build, mem, goal>> /\ UNCHANGED <<state, pc, np>>
    BY <1>1 DEF memVars, procVars
  <2>2. ASSUME NEW q \in Procs PROVE PagesSound(q)'
    <3>1. StaysPut(q)
      BY <2>1 DEF StaysPut
    <3> QED
      BY <1>5, <3>1, PagesStay DEF MemInv
  <2> QED
    BY <1>5, <2>1, <2>2, NoPagesMove DEF MemInv, MemTypes
<1>6. PagesConserved'
  BY <1>1, <1>2, PagesRest DEF WorkloadInv
<1>7. ofile' = ofile
  BY <1>1 DEF pipeVars
<1> QED
  BY <1>1, <1>2, <1>3, <1>4, <1>5, <1>6, <1>7 DEF KernelInv, WorkloadInv

\* The invariant behind the theorems below: the process table, the pipe, the
\* console and the memory fit together in every state of every workload.
THEOREM KernelInvariant == KernelSpec => []KernelInv
  BY KernelInitInv, KernelNextInv, PTL DEF KernelSpec

\* The types of the four components.
THEOREM KernelTyped == KernelSpec => []KernelTypeOK
<1>1. ASSUME KernelInv PROVE KernelTypeOK
  <2>1. PipeInv /\ ConsoleInv /\ WorkloadInv
    BY <1>1 DEF KernelInv
  <2>2. ProcTypeOK /\ PipeTypeOK
    BY <2>1, ProcInvTypeOK DEF PipeInv, PipeTypes, Counters, PipeTypeOK
  <2>3. ConsoleTypeOK
    BY <2>1 DEF ConsoleInv, RingInv
  <2>4. ASSUME workload = "memory" PROVE MemTypeOK
    <3>1. MemInv
      BY <2>1, <2>4 DEF WorkloadInv
    <3>2. PICK ca, cb, ch, ck, n : /\ ca = Cardinality(kstack) /\ cb = Cardinality(mem)
                                   /\ ch = Cardinality(Held(space))
                                   /\ ck = Cardinality(Held(build)) /\ n = nfree
      OBVIOUS
    <3>3. ca \in Nat /\ cb \in Nat /\ n \in Nat
      BY <3>1, <3>2, SlotsCounted DEF MemInv, MemTypes
    <3>4. ch \in Nat /\ ck \in Nat
      BY <3>1, <3>2, InitProcIsProc, PointersFinite, HeldMoves DEF MemInv, MemTypes
    <3>5. NPAGES = n + ca + cb + ch + ck
      BY <3>1, <3>2 DEF MemInv, PagesConserved
    <3>6. n \in 0..NPAGES
      BY <3>3, <3>4, <3>5, MemSizes
    <3> QED
      BY <3>1, <3>2, <3>6 DEF MemTypeOK, MemInv, PagesSound, SlotPages
  <2> QED
    BY <2>2, <2>3, <2>4 DEF KernelTypeOK, MemoryTyped
<1> QED
  BY <1>1, KernelInvariant, PTL

\* No wakeup is lost: nobody sleeps in wait(), pipewrite() or consoleread()
\* although what it waits for has happened (proc.c, pipe.c, console.c).
THEOREM KernelSleepersWait == KernelSpec => []SleepersWait
<1>1. KernelInv => SleepersWait
  BY DEF KernelInv, PipeInv, ProcInv, ConsoleInv, SleepersWait
<1> QED
  BY <1>1, KernelInvariant, PTL

\* Whoever is alive or a zombie has a live parent, in every workload (proc.c).
THEOREM KernelParentsLive == KernelSpec => []ParentAlive
<1>1. KernelInv => ParentAlive
  BY DEF KernelInv, PipeInv, ProcInv
<1> QED
  BY <1>1, KernelInvariant, PTL

\* The references of the ends of the pipe are their holders (file.c, pipe.c).
THEOREM KernelPipeHeld == KernelSpec => []PipeHeld
<1>1. KernelInv => PipeHeld
  BY DEF KernelInv, PipeInv
<1> QED
  BY <1>1, KernelInvariant, PTL

\* Whichever sbrk, fork or exec fails for want of memory, at whichever page, no
\* page is lost or given back twice, and the pages of a process are those that
\* its size covers (kalloc.c, vm.c, exec.c, proc.c).
THEOREM KernelMemorySound == KernelSpec => []MemorySound
<1>1. ASSUME KernelInv PROVE MemorySound
  <2>1. PagesConserved /\ (workload = "memory" => MemInv)
    BY <1>1 DEF KernelInv, WorkloadInv
  <2>2. MemInv => SizeMapped
    BY DEF MemInv, PagesSound, Mapped, SizeMapped, InUse
  <2> QED
    BY <2>1, <2>2 DEF MemorySound
<1> QED
  BY <1>1, KernelInvariant, PTL

\* A reader asleep on an empty pipe is passed over by killed writers only
\* (pipe.c, pipewrite), and by no step of another component.
THEOREM KernelReadersWoken == KernelSpec => ReadersWoken
<1> DEFINE Passed(p) == state[p] = "SLEEPING" /\ chan[p] = NReadChan
                        /\ (Count' # 0 \/ "w" \notin opened') /\ state'[p] = "SLEEPING"
<1>1. ASSUME KernelInv, [KernelNext]_kernelVars, NEW p \in Procs, Passed(p), Count = 0
      PROVE  \E q \in Procs : /\ pc[q] = "write" /\ killed[q]
                              /\ pc'[q] = "user" /\ Count' = PIPESIZE
  <2>1. PipeInv
    BY <1>1 DEF KernelInv
  <2>2. CASE PipeNext \/ UNCHANGED kernelVars
    <3>1. [PipeNext]_<<procVars, pipeVars>>
      BY <2>2 DEF kernelVars
    <3> QED
      BY <1>1, <2>1, <3>1, ReadersStep
  <2>3. CASE UNCHANGED pipeVars
    <3>1. UNCHANGED <<opened, nread, nwrite>>
      BY <2>3 DEF pipeVars
    <3>2. "w" \in opened
      BY <1>1, <2>1 DEF PipeInv, ReaderInv
    <3> QED
      BY <1>1, <3>1, <3>2 DEF Count
  <2> QED
    BY <1>1, <2>2, <2>3 DEF KernelNext, OnConsole, OnMemory
<1>2. KernelInv /\ [KernelNext]_kernelVars =>
        [\A p \in Procs :
          /\ state[p] = "SLEEPING" /\ chan[p] = NReadChan
          /\ Count' # 0 \/ "w" \notin opened'
          /\ state'[p] = "SLEEPING"
          => \/ Count # 0
             \/ \E q \in Procs : /\ pc[q] = "write" /\ killed[q]
                                 /\ pc'[q] = "user" /\ Count' = PIPESIZE
        ]_<<procVars, pipeVars>>
  BY <1>1
<1> QED
  BY <1>2, KernelInvariant, PTL DEF KernelSpec, ReadersWoken

\* The pipe is the bounded queue of bytes in every workload (pipe.c).
THEOREM KernelPipeIsFifo == KernelSpec => PipeIsFifo
<1>1. KernelInit => F!FifoInit
  BY FifoInitial DEF KernelInit
<1>2. ASSUME KernelInv, KernelInv', [KernelNext]_kernelVars
      PROVE  [F!FifoNext]_F!fifoVars
  <2>1. PipeInv /\ PipeInv'
    BY <1>2 DEF KernelInv
  <2>2. CASE PipeNext \/ UNCHANGED kernelVars
    <3>1. [PipeNext]_<<procVars, pipeVars>>
      BY <2>2 DEF kernelVars
    <3> QED
      BY <2>1, <3>1, FifoSteps
  <2>3. CASE UNCHANGED pipeVars
    BY <2>3 DEF pipeVars, F!fifoVars, Contents, Count
  <2> QED
    BY <1>2, <2>2, <2>3 DEF KernelNext, OnConsole, OnMemory
<1> QED
  BY <1>1, <1>2, KernelInvariant, PTL DEF KernelSpec, PipeIsFifo, F!FifoSpec

\* The ring of console.c is a line discipline: only the line being typed can be
\* edited, what is committed is read once and in order, a read gets at most one
\* line, and a ^D ends exactly one read.
THEOREM ConsoleImplementsTty == KernelSpec => ConsoleIsTty
<1>1. KernelInit => T!TtyInit
  BY ConsoleInitInv DEF KernelInit
<1>2. ASSUME KernelInv, KernelInv', [KernelNext]_kernelVars
      PROVE  [T!TtyNext]_T!ttyVars
  <2>1. ProcInv /\ ConsoleInv /\ RingInv'
    BY <1>2 DEF KernelInv, PipeInv, ConsoleInv
  <2>2. CASE ConsoleNext
    BY <2>1, <2>2, ConsoleSteps
  <2>3. CASE UNCHANGED consoleVars
    BY <2>3 DEF consoleVars, T!ttyVars, Span
  <2> QED
    BY <1>2, <2>2, <2>3 DEF KernelNext, OnPipe, OnMemory, kernelVars
<1> QED
  BY <1>1, <1>2, KernelInvariant, PTL DEF KernelSpec, ConsoleIsTty, T!TtySpec
=============================================================================

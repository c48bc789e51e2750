------------------------------- MODULE Console -------------------------------
(***************************************************************************)
(* Console input, console.c of project3/xv6-public: the interrupt handler   *)
(* that edits and commits lines in a ring of INPUT_BUF characters, and      *)
(* consoleread, under processes that fork, exit, wait and are killed        *)
(* (Process).  A section under cons.lock is one action; consoleintr handles *)
(* one character per action.  r, w and e are uints that wrap at Uints.  The *)
(* inode's lock, which consoleread gives up and takes back, is left out.    *)
(***************************************************************************)
EXTENDS Process, Sequences

CONSTANTS
    INPUT_BUF,    \* console.c: the size of buf
    Uints,        \* 2^32, the number of values of an index
    Letters,      \* ordinary characters
    ReadSizes     \* the lengths that processes ask for

ASSUME ConsoleAssumption ==
    /\ INPUT_BUF \in Nat \ {0}
    /\ Uints \in Nat /\ Uints > INPUT_BUF /\ Uints % INPUT_BUF = 0
    /\ ReadSizes \subseteq Nat \ {0}

NL == "newline"
EOT == "C-D"
Chars == Letters \cup {NL, EOT}

VARIABLES
    input,        \* the struct: buf, r, w, e
    target,       \* consoleread: the length asked for
    copied        \* consoleread: target - n, the characters copied so far

consoleVars == <<input, target, copied>>

\* The address of input.r, on which readers sleep.
InputChan == -3

ConsoleInit ==
    /\ input = [buf |-> [i \in 0..INPUT_BUF - 1 |-> NL], r |-> 0, w |-> 0, e |-> 0]
    /\ target = [p \in Procs |-> 0]
    /\ copied = [p \in Procs |-> 0]

\* The characters from index i up to, not including, index j.
Span(i, j) ==
    [k \in 1..(j - i) % Uints |-> input.buf[((i + k - 1) % Uints) % INPUT_BUF]]

-----------------------------------------------------------------------------
(* consoleintr.                                                            *)

BufferFull == (input.e - input.r) % Uints >= INPUT_BUF

\* An ordinary character, newline or ^D; it is dropped when the buffer is full.
\* A newline, a ^D or the last place commits the line and wakes the readers.
ConsoleChar(c) ==
    /\ ~BufferFull
    /\ LET e == (input.e + 1) % Uints
           commit == c \in {NL, EOT} \/ e = (input.r + INPUT_BUF) % Uints
       IN  /\ input' = [input EXCEPT !.buf[input.e % INPUT_BUF] = c,
                                     !.e = e,
                                     !.w = IF commit THEN e ELSE @]
           /\ IF commit THEN Wakeup(InputChan) ELSE UNCHANGED <<state, chan>>
    /\ UNCHANGED <<parent, pid, killed, pc, np, target, copied>>

\* ^H
Backspace ==
    /\ input.e # input.w
    /\ input' = [input EXCEPT !.e = (@ - 1) % Uints]
    /\ UNCHANGED <<procVars, target, copied>>

\* ^U: back to the last newline that is not committed, or to w.
KillLine ==
    /\ input.e # input.w
    /\ LET line == Span(input.w, input.e)
           nls == {k \in DOMAIN line : line[k] = NL}
           keep == IF nls = {} THEN 0 ELSE CHOOSE k \in nls : \A l \in nls : k >= l
       IN  input' = [input EXCEPT !.e = (input.w + keep) % Uints]
    /\ UNCHANGED <<procVars, target, copied>>

ConsoleIntr == Backspace \/ KillLine \/ \E c \in Chars : ConsoleChar(c)

-----------------------------------------------------------------------------
(* consoleread.                                                            *)

ConsoleCall(p) ==
    /\ InUser(p)
    /\ \E n \in ReadSizes : target' = [target EXCEPT ![p] = n]
    /\ pc' = [pc EXCEPT ![p] = "consoleread"]
    /\ UNCHANGED <<state, parent, pid, killed, chan, np, input, copied>>

\* What one pass of the loop finds: the committed characters, cut at the
\* length that is still wanted.
Available(p) ==
    LET ready == Span(input.r, input.w)
        n == target[p] - copied[p]
    IN  SubSeq(ready, 1, IF n < Len(ready) THEN n ELSE Len(ready))

\* The place of the first newline or ^D in s, Len(s) + 1 if there is none.
StopAt(s) ==
    LET stops == {i \in DOMAIN s : s[i] \in {NL, EOT}}
    IN  IF stops = {} THEN Len(s) + 1 ELSE Lowest(stops)

\* Mutant of EofKept: the ^D after other characters is used up.
EofKeptNever(p, i) == FALSE

\* "Save ^D for next time": a ^D that is not the first character of the call
\* (n < target) is put back.
EofKept(p, i) == copied[p] > 0 \/ i > 1

\* One section of consoleread, up to a return or to sleep.
ConsoleRead(p) ==
    /\ Running(p, "consoleread")
    /\ LET s == Available(p)
           i == StopAt(s)
           eof == i <= Len(s) /\ s[i] = EOT
           give == IF i > Len(s) THEN Len(s) ELSE IF eof THEN i - 1 ELSE i
           used == IF eof /\ ~EofKept(p, i) THEN i ELSE give
           done == i <= Len(s) \/ copied[p] + Len(s) = target[p]
       IN  /\ input' = [input EXCEPT !.r = (@ + used) % Uints]
           /\ \/ /\ done \/ killed[p]
                 /\ pc' = [pc EXCEPT ![p] = "user"]
                 /\ target' = [target EXCEPT ![p] = 0]
                 /\ copied' = [copied EXCEPT ![p] = 0]
                 /\ UNCHANGED <<state, chan>>
              \/ /\ ~done /\ ~killed[p]
                 /\ Sleep(p, InputChan)
                 /\ copied' = [copied EXCEPT ![p] = @ + give]
                 /\ UNCHANGED <<pc, target>>
    /\ UNCHANGED <<parent, pid, killed, np>>

-----------------------------------------------------------------------------
(* The process calls leave the console alone.                              *)

ConsoleQuiet(p) ==
    /\ \/ ForkAlloc(p) \/ ForkFail(p) \/ ForkReturn(p) \/ ExitCall(p)
       \/ ExitZombie(p) \/ Wait(p)
    /\ UNCHANGED consoleVars
ConsoleKill == (\E q \in Killable : Kill(q)) /\ UNCHANGED consoleVars

\* init (init.c) does not read; the shell and its children do.
ConsoleNext ==
    \/ ConsoleIntr
    \/ ConsoleKill
    \/ \E p \in Procs : ConsoleQuiet(p) \/ ConsoleRead(p)
    \/ \E p \in Procs \ {initproc} : ConsoleCall(p)

\* The steps of a process that do not wait for its user program.
ConsoleStep(p) ==
    \/ ConsoleRead(p)
    \/ /\ \/ ForkFail(p) \/ ForkReturn(p) \/ ExitZombie(p)
          \/ (killed[p] /\ ExitCall(p)) \/ (Running(p, "wait") /\ Wait(p))
       /\ UNCHANGED consoleVars

ConsoleSpec ==
    ProcInit /\ ConsoleInit /\ [][ConsoleNext]_<<procVars, consoleVars>>

-----------------------------------------------------------------------------
(* Properties.                                                             *)

\* The three indices are in order round the ring, at most INPUT_BUF apart.
ConsoleTypeOK ==
    /\ {input.r, input.w, input.e} \subseteq 0..Uints - 1
    /\ (input.w - input.r) % Uints <= (input.e - input.r) % Uints
    /\ (input.e - input.r) % Uints <= INPUT_BUF
    /\ \A p \in Procs : copied[p] <= target[p]

\* No committed character and no kill is missed by a sleeping reader, also
\* when several readers share a line and the first of them takes it all.
ReadersSleepEmpty ==
    \A p \in Procs : state[p] = "SLEEPING" /\ chan[p] = InputChan =>
        input.r = input.w /\ ~killed[p]

T == INSTANCE Tty WITH Readers <- Procs, Cap <- INPUT_BUF,
                       edit <- Span(input.w, input.e),
                       ready <- Span(input.r, input.w)

\* The ring is a line discipline: only the line being typed can be edited,
\* what is committed is read once and in order, a read gets at most one line,
\* and a ^D ends exactly one read, with 0 characters.
ConsoleIsTty == T!TtySpec
=============================================================================

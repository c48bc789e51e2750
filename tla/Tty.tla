--------------------------------- MODULE Tty ---------------------------------
(***************************************************************************)
(* What console input promises (abstract).  A line is edited until it is    *)
(* committed by a newline, by ^D or by filling the buffer; from then on its *)
(* characters are only read, each once and in order.  ^D is the end of the  *)
(* file for one read.                                                       *)
(***************************************************************************)
EXTENDS Integers, Sequences

CONSTANTS Readers, Chars, NL, EOT, Cap

VARIABLES
    edit,         \* the line that is being typed
    ready,        \* the committed characters that nobody has read yet
    copied        \* how many characters the read under way has got

ttyVars == <<edit, ready, copied>>

TtyInit == edit = <<>> /\ ready = <<>> /\ copied = [p \in Readers |-> 0]

Type(c) ==
    /\ Len(edit) + Len(ready) < Cap
    /\ LET line == Append(edit, c)
       IN  IF c \in {NL, EOT} \/ Len(line) + Len(ready) = Cap
           THEN edit' = <<>> /\ ready' = ready \o line
           ELSE edit' = line /\ UNCHANGED ready
    /\ UNCHANGED copied

Erase ==
    /\ edit # <<>>
    /\ edit' \in {<<>>, SubSeq(edit, 1, Len(edit) - 1)}
    /\ UNCHANGED <<ready, copied>>

\* A read gets the next characters of one line at most; it goes on waiting or
\* returns (0).
Deliver(p, k) ==
    /\ \A i \in 1..k : ready[i] # EOT /\ (ready[i] = NL => i = k)
    /\ \E n \in {0, copied[p] + k} : copied' = [copied EXCEPT ![p] = n]
    /\ ready' = SubSeq(ready, k + 1, Len(ready))
    /\ UNCHANGED edit

\* ^D is taken by a read that has got nothing, and so returns 0.
Eof(p) ==
    /\ ready # <<>> /\ Head(ready) = EOT
    /\ copied[p] = 0
    /\ ready' = Tail(ready)
    /\ UNCHANGED <<edit, copied>>

TtyNext ==
    \/ \E c \in Chars : Type(c)
    \/ Erase
    \/ \E p \in Readers :
          Eof(p) \/ \E k \in 0..Len(ready) : Deliver(p, k)

TtySpec == TtyInit /\ [][TtyNext]_ttyVars
=============================================================================

-------------------------------- MODULE Fifo --------------------------------
(***************************************************************************)
(* What a pipe promises: a bounded queue of bytes.  A write hands its bytes *)
(* over in order, in one or more portions; a read takes a prefix of what is *)
(* there.  A write may be given up, which loses only bytes not yet handed   *)
(* over; the queue is emptied when the last user has closed it.             *)
(***************************************************************************)
EXTENDS Naturals, Sequences

CONSTANTS
    Writers,      \* the processes
    Inputs,       \* the byte strings that may be written
    Cap           \* the capacity

VARIABLES
    todo,         \* the bytes each process still has to hand over
    queue         \* the bytes in the pipe

fifoVars == <<todo, queue>>

FifoInit ==
    /\ todo = [p \in Writers |-> <<>>]
    /\ queue = <<>>

Begin(p) ==
    /\ todo[p] = <<>>
    /\ \E s \in Inputs : todo' = [todo EXCEPT ![p] = s]
    /\ UNCHANGED queue

Put(p) ==
    \E k \in 0..Len(todo[p]) :
        /\ Len(queue) + k <= Cap
        /\ queue' = queue \o SubSeq(todo[p], 1, k)
        /\ \/ todo' = [todo EXCEPT ![p] = SubSeq(@, k + 1, Len(@))]
           \/ todo' = [todo EXCEPT ![p] = <<>>]

\* A read, or the end of the pipe, which takes all.
Get ==
    \E k \in 0..Len(queue) :
        /\ queue' = SubSeq(queue, k + 1, Len(queue))
        /\ UNCHANGED todo

FifoNext == Get \/ \E p \in Writers : Begin(p) \/ Put(p)

FifoSpec == FifoInit /\ [][FifoNext]_fifoVars
=============================================================================

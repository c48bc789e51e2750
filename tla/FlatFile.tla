------------------------------ MODULE FlatFile ------------------------------
(***************************************************************************)
(* What the block map promises (abstract): a file is a sequence of disk     *)
(* blocks of its own, which grows at the end, keeps the blocks it has, and  *)
(* is discarded as a whole.                                                 *)
(***************************************************************************)
EXTENDS Integers, Sequences, SequencesExt

CONSTANTS Files, BlockIds

VARIABLE blocksOf

FlatInit == blocksOf = [f \in Files |-> <<>>]

Discard(now, f) == now = [blocksOf EXCEPT ![f] = <<>>]

Extend(now, f) ==
    /\ now[f] # <<>>
    /\ now = [blocksOf EXCEPT ![f] = Append(@, Last(now[f]))]
    /\ Last(now[f]) \in BlockIds
    /\ \A g \in Files : Last(now[f]) \notin Range(blocksOf[g])

\* now is the state after the step.
FlatNext ==
    \E now \in {blocksOf'} : \E f \in Files : Discard(now, f) \/ Extend(now, f)

FlatSpec == FlatInit /\ [][FlatNext]_blocksOf
=============================================================================

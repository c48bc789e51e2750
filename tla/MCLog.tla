--------------------------------- MODULE MCLog ---------------------------------
(* Small instances of the log for TLC.                                     *)
EXTENDS Log, TLC

Sym == Permutations(Procs) \cup Permutations(Blocks) \cup Permutations(Vals)

=============================================================================

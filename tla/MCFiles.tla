-------------------------------- MODULE MCFiles --------------------------------
(***************************************************************************)
(* Files from three sides: read and write calls on one file, the names and  *)
(* descriptors that lead to inodes, and the disk blocks beneath them.  A    *)
(* behaviour has one workload, chosen in its initial state.                 *)
(***************************************************************************)
EXTENDS MCFileIO, BlockMap, Inode

CONSTANT Workloads

VARIABLE workload

filesVars == <<vars, blockVars, inodeVars, workload>>

FilesInit ==
    /\ workload \in Workloads
    /\ Init /\ BlockMapInit /\ InodeInit

OnIO == workload = "io" /\ UNCHANGED <<blockVars, inodeVars, workload>>
OnBlocks == workload = "blocks" /\ UNCHANGED <<vars, inodeVars, workload>>
OnNames == workload = "names" /\ UNCHANGED <<vars, blockVars, workload>>

FilesNext ==
    \/ OnIO /\ Next
    \/ OnBlocks /\ BlockMapNext
    \/ OnNames /\ InodeNext

FilesSpec ==
    /\ FilesInit /\ [][FilesNext]_filesVars
    /\ \A p \in Procs : WF_filesVars(OnIO /\ Step(p))

\* The type invariants of names and blocks, with the reference counts of inodes
\* and files, and the absence of holes.
FilesTypeOK == BlockMapTypeOK /\ InodeTypeOK

\* The instance of the runs.
MCDataBlocks == 1..24
MCMaxLen == [i \in Inums |-> IF i = 1 THEN 10 ELSE 2]
================================================================================

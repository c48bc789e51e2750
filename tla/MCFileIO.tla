-------------------------------- MODULE MCFileIO -------------------------------
(* Small instances of FileIO for TLC.                                      *)
EXTENDS FileIO, TLC

Req(op, n, at) == [op |-> op, n |-> n, at |-> at]

\* Writes of one and of several chunks; positional requests inside the file,
\* across its end, beyond it, and at a negative offset.  No pread here
\* touches the end of a file of one byte.
Mixed ==
    {Req("read", 2, 0), Req("write", 1, 0), Req("write", 3, 0),
     Req("pwrite", 3, 1), Req("pwrite", 1, 9), Req("pwrite", 1, -1),
     Req("pread", 1, 0)}

\* One pread at the end of the file, one beyond it.
AtTheEnd == Mixed \cup {Req("pread", 1, 1), Req("pread", 2, 4)}

Sym == Permutations(Procs)

=============================================================================

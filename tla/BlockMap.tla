------------------------------ MODULE BlockMap ------------------------------
(***************************************************************************)
(* The block map of an inode and the block allocator of project3/xv6-public *)
(* (fs.c): balloc, bfree, bmap with direct, single, double and triple       *)
(* indirect blocks, and itrunc.  Each inode is worked on by the holder of   *)
(* its lock; different inodes are worked on concurrently, one section on a  *)
(* locked buffer at a time.  The contents of a block are the N numbers that *)
(* bmap and itrunc read in it.                                              *)
(***************************************************************************)
EXTENDS Integers, Sequences, FiniteSets, SequencesExt

CONSTANTS
    NDIRECT,      \* fs.h: the direct blocks of an inode
    NINDIRECT,    \* fs.h: the block numbers in a block (1 << 7)
    DataBlocks,   \* the numbers of the blocks that balloc hands out
    Inums,        \* the inodes
    MaxLen,       \* for each inode, the length in blocks it grows to
    Again,        \* the blocks that are mapped again once they are there
    MaxTruncs,    \* how often itrunc is called
    Junk          \* a word of file data, which is not 0

N == NINDIRECT
MAXFILE == NDIRECT + N + N * N + N * N * N

ASSUME BlockMapAssumption ==
    /\ NDIRECT \in Nat \ {0} /\ N \in Nat \ {0}
    /\ DataBlocks \subseteq Nat \ {0} /\ IsFiniteSet(DataBlocks)
    /\ Junk \in DataBlocks
    /\ MaxLen \in [Inums -> 0..MAXFILE] /\ Again \subseteq Nat
    /\ MaxTruncs \in Nat

VARIABLES
    addrs,        \* ip->addrs
    entry,        \* the numbers in each disk block
    used,         \* the bitmap
    len,          \* the blocks that ip->size covers
    job,          \* what the holder of the inode's lock is doing
    truncs        \* how often itrunc has been called

blockVars == <<addrs, entry, used, len, job, truncs>>

Zeroes == [j \in 0..N - 1 |-> 0]
Filled == [j \in 0..N - 1 |-> Junk]
Idle == [call |-> "none"]

\* Fresh inodes, on a disk whose free blocks hold old file data.
BlockMapInit ==
    /\ addrs = [i \in Inums |-> [a \in 0..NDIRECT + 2 |-> 0]]
    /\ entry = [b \in DataBlocks |-> Filled]
    /\ used = {}
    /\ len = [i \in Inums |-> 0]
    /\ job = [i \in Inums |-> Idle]
    /\ truncs = 0

-----------------------------------------------------------------------------
(* balloc and bfree.                                                       *)

\* Mutant of Balloc: the new block keeps what it contained.
BallocDirty(s) ==
    LET b == CHOOSE b \in DataBlocks \ s.used : \A c \in DataBlocks \ s.used : b <= c
    IN  [s EXCEPT !.used = @ \cup {b}, !.addr = b]

\* balloc takes the first free block and zeroes it (bzero).  s is a state of
\* the disk in the middle of bmap, with addr the block just reached.
Balloc(s) ==
    LET b == CHOOSE b \in DataBlocks \ s.used : \A c \in DataBlocks \ s.used : b <= c
    IN  [s EXCEPT !.used = @ \cup {b}, !.entry[b] = Zeroes, !.addr = b]

Bfree(b) == used' = used \ {b}

-----------------------------------------------------------------------------
(* bmap.                                                                   *)

\* Mutant of Path: two levels of a triple indirect block use the same index.
PathShort(bn) ==
    LET s == bn - NDIRECT
        d == s - N
        t == d - N * N
    IN  IF bn < NDIRECT THEN <<bn>>
        ELSE IF s < N THEN <<NDIRECT, s>>
        ELSE IF d < N * N THEN <<NDIRECT + 1, d \div N, d % N>>
        ELSE <<NDIRECT + 2, t \div (N * N), t \div (N * N), t % N>>

\* The places that lead to block bn: an index into addrs, then into blocks.
Path(bn) ==
    LET s == bn - NDIRECT
        d == s - N
        t == d - N * N
    IN  IF bn < NDIRECT THEN <<bn>>
        ELSE IF s < N THEN <<NDIRECT, s>>
        ELSE IF d < N * N THEN <<NDIRECT + 1, d \div N, d % N>>
        ELSE <<NDIRECT + 2, t \div (N * N), (t \div N) % N, t % N>>

\* One level of bmap: follow entry j of the inode (addr 0) or of block addr,
\* and allocate a block if it is 0.
Level(s, j) ==
    LET old == IF s.addr = 0 THEN s.addrs[j] ELSE s.entry[s.addr][j]
        new == Balloc(s)
    IN  IF old # 0 THEN [s EXCEPT !.addr = old]
        ELSE IF s.addr = 0 THEN [new EXCEPT !.addrs[j] = new.addr]
        ELSE [new EXCEPT !.entry[s.addr][j] = new.addr]

\* Level k of a path, if the path goes that deep.
Down(s, path, k) == IF k <= Len(path) THEN Level(s, path[k]) ELSE s

Start(i) == [addrs |-> addrs[i], entry |-> entry, used |-> used, addr |-> 0]

Bmap(i, bn) ==
    LET path == Path(bn)
    IN  Down(Down(Down(Down(Start(i), path, 1), path, 2), path, 3), path, 4)

\* writei: bmap for the block after the last, or for one that is there; copy
\* the data into it; the size covers it.  In one step, since bmap shares only
\* the bitmap with the work on other inodes.  balloc panics on a full disk.
WriteBlock(i, bn) ==
    /\ job[i] = Idle
    /\ bn = len[i] \/ (bn < len[i] /\ bn \in Again)
    /\ bn < MaxLen[i]
    /\ Cardinality(DataBlocks \ used) >= 4
    /\ LET s == Bmap(i, bn)
       IN  /\ addrs' = [addrs EXCEPT ![i] = s.addrs]
           /\ entry' = [s.entry EXCEPT ![s.addr] = Filled]
           /\ used' = s.used
    /\ len' = [len EXCEPT ![i] = IF bn = @ THEN @ + 1 ELSE @]
    /\ UNCHANGED <<job, truncs>>

-----------------------------------------------------------------------------
(* itrunc.  A frame is a block of block numbers whose entries before next   *)
(* are done with, depth levels above the data.                              *)

ItruncCall(i) ==
    /\ job[i] = Idle
    /\ len[i] > 0
    /\ truncs < MaxTruncs /\ truncs' = truncs + 1
    /\ job' = [job EXCEPT ![i] = [call |-> "itrunc", frames |-> <<>>]]
    /\ UNCHANGED <<addrs, entry, used, len>>

Frames(i) == job[i].frames
InTrunc(i) == job[i].call = "itrunc"
PopFrame(i) == job' = [job EXCEPT ![i].frames = Front(@)]

\* The first entry of the top frame that is not 0 yet looked at, N if none.
NextEntry(f) ==
    LET js == {j \in f.next..N - 1 : entry[f.block][j] # 0}
    IN  IF js = {} THEN N ELSE CHOOSE j \in js : \A l \in js : j <= l

\* The first address of the inode that is not cleared yet.
FirstAddr(i) ==
    LET as == {a \in 0..NDIRECT + 2 : addrs[i][a] # 0}
    IN  IF as = {} THEN NDIRECT + 3 ELSE CHOOSE a \in as : \A c \in as : a <= c

\* addrs[a]: free a direct block, or read an indirect one.
TruncAddr(i) ==
    /\ InTrunc(i) /\ Frames(i) = <<>>
    /\ LET a == FirstAddr(i)
       IN  \/ /\ a < NDIRECT
              /\ Bfree(addrs[i][a])
              /\ addrs' = [addrs EXCEPT ![i][a] = 0]
              /\ UNCHANGED job
           \/ /\ a \in NDIRECT..NDIRECT + 2
              /\ job' = [job EXCEPT ![i].frames =
                    <<[block |-> addrs[i][a], next |-> 0, depth |-> a - NDIRECT + 1]>>]
              /\ UNCHANGED <<addrs, used>>
    /\ UNCHANGED <<entry, len, truncs>>

\* An entry that is not 0: free the data block, or read the block below.
TruncEntry(i) ==
    /\ InTrunc(i) /\ Frames(i) # <<>>
    /\ LET f == Last(Frames(i))
           j == NextEntry(f)
           done == [f EXCEPT !.next = j + 1]
           below == [block |-> entry[f.block][j], next |-> 0, depth |-> f.depth - 1]
       IN  /\ j < N
           /\ \/ /\ f.depth = 1
                 /\ Bfree(entry[f.block][j])
                 /\ job' = [job EXCEPT ![i].frames = Append(Front(@), done)]
              \/ /\ f.depth > 1
                 /\ job' = [job EXCEPT ![i].frames = Append(Append(Front(@), done), below)]
                 /\ UNCHANGED used
    /\ UNCHANGED <<addrs, entry, len, truncs>>

\* All entries are done: free the block of numbers itself.
TruncBlock(i) ==
    /\ InTrunc(i) /\ Frames(i) # <<>>
    /\ NextEntry(Last(Frames(i))) = N
    /\ Bfree(Last(Frames(i)).block)
    /\ addrs' = IF Len(Frames(i)) > 1 THEN addrs
                ELSE [addrs EXCEPT ![i][FirstAddr(i)] = 0]
    /\ PopFrame(i)
    /\ UNCHANGED <<entry, len, truncs>>

TruncReturn(i) ==
    /\ InTrunc(i) /\ Frames(i) = <<>> /\ FirstAddr(i) = NDIRECT + 3
    /\ len' = [len EXCEPT ![i] = 0]
    /\ job' = [job EXCEPT ![i] = Idle]
    /\ UNCHANGED <<addrs, entry, used, truncs>>

-----------------------------------------------------------------------------
BlockMapNext ==
    \E i \in Inums :
        \/ \E bn \in 0..MAXFILE - 1 : WriteBlock(i, bn)
        \/ ItruncCall(i) \/ TruncAddr(i) \/ TruncEntry(i) \/ TruncBlock(i)
        \/ TruncReturn(i)

BlockMapSpec == BlockMapInit /\ [][BlockMapNext]_blockVars

-----------------------------------------------------------------------------
(* Properties.                                                             *)

\* From block b to the next on a path through the blocks of numbers en; 0
\* where the path is cut short.
Follow(en, b, path, k) ==
    IF k > Len(path) THEN b ELSE IF b = 0 THEN 0 ELSE en[b][path[k]]

\* The number at the end of a path from the addresses as of an inode.
LookIn(as, en, path) ==
    Follow(en, Follow(en, Follow(en, as[path[1]], path, 2), path, 3), path, 4)

Lookup(i, path) == LookIn(addrs[i], entry, path)

\* All the places from which inode i may point to a block.
BlockPlaces ==
    UNION {UNION {{<<i, SubSeq(Path(bn), 1, k)>> : k \in 1..Len(Path(bn))} :
                  bn \in 0..MaxLen[i] - 1} : i \in Inums}
Pointers == {p \in {<<pl, Lookup(pl[1], pl[2])>> : pl \in BlockPlaces} : p[2] # 0}

\* Types; every block that the size covers is there (files have no holes).
BlockMapTypeOK ==
    /\ addrs \in [Inums -> [0..NDIRECT + 2 -> DataBlocks \cup {0}]]
    /\ used \subseteq DataBlocks
    /\ \A i \in Inums : ~InTrunc(i) =>
          \A bn \in 0..len[i] - 1 : Lookup(i, Path(bn)) \in DataBlocks

\* bfree never finds its block free ("freeing free block"), and itrunc never
\* reads a block after it has given it up, when another file may have it.
FreesOnlyUsed ==
    \A i \in Inums : InTrunc(i) =>
        /\ \A n \in DOMAIN Frames(i) : Frames(i)[n].block \in used
        /\ Frames(i) # <<>> =>
              LET f == Last(Frames(i))
              IN  \A j \in f.next..N - 1 : entry[f.block][j] \in used \cup {0}
        /\ Frames(i) = <<>> =>
              \A a \in 0..NDIRECT + 2 : addrs[i][a] \in used \cup {0}

\* Outside itrunc each block in use is pointed to from one place, and each
\* pointer leads to a block in use: nothing is shared, lost or freed early,
\* and itrunc frees and reads only what is its own (FreesOnlyUsed).
BlocksOwned ==
    /\ (\A i \in Inums : ~InTrunc(i)) =>
          LET ps == Pointers
          IN  /\ {p[2] : p \in ps} = used
              /\ Cardinality(ps) = Cardinality(used)
    /\ FreesOnlyUsed

FF == INSTANCE FlatFile WITH
        Files <- Inums, BlockIds <- DataBlocks,
        blocksOf <- [i \in Inums |->
            IF InTrunc(i) THEN <<>>
            ELSE [n \in 1..len[i] |-> Lookup(i, Path(n - 1))]]

\* Through three levels of indirection a file is a sequence of blocks of its
\* own: block bn is found where it was put, growing a file disturbs neither
\* its other blocks nor another file, and bmap of a block it has changes
\* nothing.
MapIsFlat == FF!FlatSpec
=============================================================================

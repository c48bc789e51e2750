-------------------------------- MODULE Inode --------------------------------
(***************************************************************************)
(* Inodes and their users in project3/xv6-public: the inode cache (iget,    *)
(* ilock, iput, ialloc, iupdate of fs.c), one directory (dirlookup, dirlink,*)
(* namei), the file table (filealloc, filedup, fileclose of file.c) and the *)
(* calls open, link, unlink, dup and close (sysfile.c).                     *)
(*                                                                         *)
(* The directory is the root, whose own inode is always cached; the names   *)
(* "." and ".." are not among Names.  A step reaches to the next sleep lock *)
(* or to the next section under icache.lock that another step could get in  *)
(* before.  iput(dp) locks the directory once more; this is a step of its   *)
(* own where the caller has an inode locked meanwhile, and changes nothing  *)
(* where it has not.  The contents of a file are the subject of BlockMap,   *)
(* and transactions that of Log: here the log always has room.              *)
(***************************************************************************)
EXTENDS Integers, FiniteSets

CONSTANTS
    Callers,      \* the processes
    Names,        \* the names in the directory
    NINODES,      \* the inodes on the disk, besides the root
    NSLOT,        \* param.h NINODE: the entries of the inode cache
    NFILE,        \* param.h: the entries of the file table
    NOFILE        \* param.h: the descriptors of a process

ASSUME InodeAssumption ==
    /\ NINODES \in Nat \ {0} /\ NFILE \in Nat /\ NOFILE \in Nat
    /\ NSLOT \in Nat /\ NSLOT >= NINODES
    /\ IsFiniteSet(Callers) /\ IsFiniteSet(Names)
    /\ "nobody" \notin Callers

DInums == 1..NINODES
Slots == 1..NSLOT
Files == 1..NFILE
Fds == 1..NOFILE
Unheld == "nobody"

VARIABLES
    dinode,       \* the inodes on the disk: type (0 is free) and nlink
    dir,          \* the inode number of each name, 0 for none
    dirLock,      \* the holder of the directory's lock
    slot,         \* the cache: inum, ref, valid, and the copy of the dinode
    ilockedBy,    \* the holder of each cached inode's lock
    file,         \* ftable: ref and ip
    fds,          \* the file of each descriptor, 0 for none
    where,        \* where each process is
    ip,           \* the cached inode that its call is about, 0 for none
    put,          \* the cached inode that it is inside iput() with, 0 for none
    arg           \* the name that link() is to make

inodeVars == <<dinode, dir, dirLock, slot, ilockedBy, file, fds, where, ip,
               put, arg>>

FreeDinode == [type |-> 0, nlink |-> 0]
EmptySlot == [inum |-> 0, ref |-> 0, valid |-> FALSE, copy |-> FreeDinode]
AnyName == CHOOSE n \in Names : TRUE

InodeInit ==
    /\ dinode = [n \in DInums |-> FreeDinode]
    /\ dir = [n \in Names |-> 0]
    /\ dirLock = Unheld
    /\ slot = [s \in Slots |-> EmptySlot]
    /\ ilockedBy = [s \in Slots |-> Unheld]
    /\ file = [f \in Files |-> [ref |-> 0, ip |-> 0]]
    /\ fds = [c \in Callers |-> [d \in Fds |-> 0]]
    /\ where = [c \in Callers |-> "user"]
    /\ ip = [c \in Callers |-> 0]
    /\ put = [c \in Callers |-> 0]
    /\ arg = [c \in Callers |-> AnyName]

First(S) == CHOOSE x \in S : \A y \in S : x <= y
\* The name is used up (it is reset so as not to tell states apart).
DropName(c) == arg' = [arg EXCEPT ![c] = AnyName]
Goto(c, l) == where' = [where EXCEPT ![c] = l]

-----------------------------------------------------------------------------
(* The cache.                                                              *)

\* iget: the entry of the inode, or the first unused one.  (It panics when
\* there is none, which NSLOT >= NINODES rules out.)
IgetSlot(n) ==
    LET hits == {s \in Slots : slot[s].ref > 0 /\ slot[s].inum = n}
    IN  First(IF hits # {} THEN hits ELSE {s \in Slots : slot[s].ref = 0})

Iget(n) ==
    LET s == IgetSlot(n)
    IN  [slot EXCEPT ![s] =
            IF slot[s].ref > 0 THEN [slot[s] EXCEPT !.ref = @ + 1]
            ELSE [slot[s] EXCEPT !.inum = n, !.ref = 1, !.valid = FALSE]]

\* The entry as ilock() leaves it: read from the disk unless it is valid.
Loaded(s) ==
    IF slot[s].valid THEN slot[s]
    ELSE [slot[s] EXCEPT !.valid = TRUE, !.copy = dinode[slot[s].inum]]

Lockable(s) == ilockedBy[s] = Unheld

\* Change the link count of the inode in s, in the cache and on the disk
\* (iupdate).
Relink(s, n) ==
    /\ slot' = [slot EXCEPT ![s] = [Loaded(s) EXCEPT !.copy.nlink = n]]
    /\ dinode' = [dinode EXCEPT ![slot[s].inum].nlink = n]

-----------------------------------------------------------------------------
(* iput.  It begins with where = "iput" and put = the entry.               *)

LastUser(s) == slot[s].valid /\ slot[s].copy.nlink = 0 /\ slot[s].ref = 1

\* acquiresleep, and the test of nlink and ref.
IputLock(c) ==
    /\ where[c] = "iput"
    /\ Lockable(put[c])
    /\ IF LastUser(put[c])
       THEN Goto(c, "ifree") /\ ilockedBy' = [ilockedBy EXCEPT ![put[c]] = c]
       ELSE Goto(c, "iunref") /\ UNCHANGED ilockedBy
    /\ UNCHANGED <<dinode, dir, dirLock, slot, file, fds, ip, put, arg>>

\* itrunc, type = 0, iupdate: from here on ialloc may choose the inode again.
IputFree(c) ==
    /\ where[c] = "ifree"
    /\ slot' = [slot EXCEPT ![put[c]].copy.type = 0]
    /\ dinode' = [dinode EXCEPT ![slot[put[c]].inum] = FreeDinode]
    /\ Goto(c, "ivalid")
    /\ UNCHANGED <<dir, dirLock, ilockedBy, file, fds, ip, put, arg>>

\* Mutant of IputInvalid: the entry still counts as valid.
IputInvalidNot(c) ==
    /\ where[c] = "ivalid"
    /\ ilockedBy' = [ilockedBy EXCEPT ![put[c]] = Unheld]
    /\ Goto(c, "iunref")
    /\ UNCHANGED <<dinode, dir, dirLock, slot, file, fds, ip, put, arg>>

\* valid = 0, releasesleep.
IputInvalid(c) ==
    /\ where[c] = "ivalid"
    /\ slot' = [slot EXCEPT ![put[c]].valid = FALSE]
    /\ ilockedBy' = [ilockedBy EXCEPT ![put[c]] = Unheld]
    /\ Goto(c, "iunref")
    /\ UNCHANGED <<dinode, dir, dirLock, file, fds, ip, put, arg>>

\* ref--, and back to the caller: the call ends, or it was dirlink's iput of
\* a name that exists already, after which link() unlocks the directory and
\* takes back its link.  (What an unused entry holds is never read.)
IputUnref(c) ==
    /\ where[c] = "iunref"
    /\ slot' = [slot EXCEPT ![put[c]] =
                   IF slot[put[c]].ref > 1 THEN [slot[put[c]] EXCEPT !.ref = @ - 1]
                   ELSE EmptySlot]
    /\ put' = [put EXCEPT ![c] = 0]
    /\ IF dirLock = c
       THEN dirLock' = Unheld /\ Goto(c, "linkbad") /\ UNCHANGED ip
       ELSE Goto(c, "user") /\ ip' = [ip EXCEPT ![c] = 0] /\ UNCHANGED dirLock
    /\ UNCHANGED <<dinode, dir, ilockedBy, file, fds, arg>>

-----------------------------------------------------------------------------
(* open, with and without O_CREATE.                                        *)

\* namei(n): a lookup under the directory's lock.
Namei(c, n, next) ==
    /\ where[c] = "user"
    /\ dirLock = Unheld
    /\ dir[n] # 0
    /\ slot' = Iget(dir[n])
    /\ ip' = [ip EXCEPT ![c] = IgetSlot(dir[n])]
    /\ Goto(c, next)

\* open of a name that exists, also by create().
Open(c, n) ==
    /\ Namei(c, n, "open")
    /\ UNCHANGED <<dinode, dir, dirLock, ilockedBy, file, fds, put, arg>>

\* create: ialloc takes the first free inode; the directory stays locked.
Create(c, n) ==
    /\ where[c] = "user"
    /\ dirLock = Unheld
    /\ dir[n] = 0
    /\ LET free == {m \in DInums : dinode[m].type = 0}
       IN  /\ free # {}
           /\ dinode' = [dinode EXCEPT ![First(free)] = [type |-> 1, nlink |-> 0]]
           /\ slot' = Iget(First(free))
           /\ ip' = [ip EXCEPT ![c] = IgetSlot(First(free))]
    /\ dirLock' = c
    /\ arg' = [arg EXCEPT ![c] = n]
    /\ Goto(c, "create")
    /\ UNCHANGED <<dir, ilockedBy, file, fds, put>>

\* create: lock the new inode, set nlink, enter the name, unlock the directory.
\* The new inode stays locked.
CreateLink(c) ==
    /\ where[c] = "create"
    /\ Lockable(ip[c])
    /\ ilockedBy' = [ilockedBy EXCEPT ![ip[c]] = c]
    /\ Relink(ip[c], 1)
    /\ dir' = [dir EXCEPT ![arg[c]] = slot[ip[c]].inum]
    /\ dirLock' = Unheld
    /\ Goto(c, "createput")
    /\ DropName(c)
    /\ UNCHANGED <<file, fds, ip, put>>

\* create: the iput(dp) that follows takes the directory's lock and gives it back.
CreatePut(c) ==
    /\ where[c] = "createput"
    /\ dirLock = Unheld
    /\ Goto(c, "file")
    /\ UNCHANGED <<dinode, dir, dirLock, slot, ilockedBy, file, fds, ip, put, arg>>

OpenLock(c) ==
    /\ where[c] = "open"
    /\ Lockable(ip[c])
    /\ ilockedBy' = [ilockedBy EXCEPT ![ip[c]] = c]
    /\ slot' = [slot EXCEPT ![ip[c]] = Loaded(ip[c])]
    /\ Goto(c, "file")
    /\ UNCHANGED <<dinode, dir, dirLock, file, fds, ip, put, arg>>

FreeFiles == {f \in Files : file[f].ref = 0}
FreeFds(c) == {d \in Fds : fds[c][d] = 0}

\* filealloc and fdalloc; the file keeps the reference to the inode.
OpenFile(c) ==
    /\ where[c] = "file"
    /\ ilockedBy' = [ilockedBy EXCEPT ![ip[c]] = Unheld]
    /\ ip' = [ip EXCEPT ![c] = 0]
    /\ \/ /\ FreeFiles # {} /\ FreeFds(c) # {}
          /\ file' = [file EXCEPT ![First(FreeFiles)] = [ref |-> 1, ip |-> ip[c]]]
          /\ fds' = [fds EXCEPT ![c][First(FreeFds(c))] = First(FreeFiles)]
          /\ Goto(c, "user")
          /\ UNCHANGED put
       \/ /\ FreeFiles = {} \/ FreeFds(c) = {}
          /\ put' = [put EXCEPT ![c] = ip[c]]
          /\ Goto(c, "iput")
          /\ UNCHANGED <<file, fds>>
    /\ UNCHANGED <<dinode, dir, dirLock, slot, arg>>

-----------------------------------------------------------------------------
(* dup (and fork), close.                                                  *)

\* Mutant of Dup: the file does not learn of its second descriptor.
DupUncounted(c, d, e) ==
    /\ where[c] = "user"
    /\ fds[c][d] # 0
    /\ FreeFds(e) # {} /\ where[e] = "user"
    /\ fds' = [fds EXCEPT ![e][First(FreeFds(e))] = fds[c][d]]
    /\ UNCHANGED <<dinode, dir, dirLock, slot, ilockedBy, file, where, ip, put, arg>>

\* filedup: by dup into another descriptor, by fork into another process.
Dup(c, d, e) ==
    /\ where[c] = "user"
    /\ fds[c][d] # 0
    /\ FreeFds(e) # {} /\ where[e] = "user"
    /\ fds' = [fds EXCEPT ![e][First(FreeFds(e))] = fds[c][d]]
    /\ file' = [file EXCEPT ![fds[c][d]].ref = @ + 1]
    /\ UNCHANGED <<dinode, dir, dirLock, slot, ilockedBy, where, ip, put, arg>>

\* fileclose: the last reference to the file gives the inode up.
SysClose(c, d) ==
    /\ where[c] = "user"
    /\ fds[c][d] # 0
    /\ LET f == fds[c][d]
       IN  /\ fds' = [fds EXCEPT ![c][d] = 0]
           /\ \/ /\ file[f].ref > 1
                 /\ file' = [file EXCEPT ![f].ref = @ - 1]
                 /\ UNCHANGED <<put, where>>
              \/ /\ file[f].ref = 1
                 /\ file' = [file EXCEPT ![f] = [ref |-> 0, ip |-> 0]]
                 /\ put' = [put EXCEPT ![c] = file[f].ip]
                 /\ Goto(c, "iput")
    /\ UNCHANGED <<dinode, dir, dirLock, slot, ilockedBy, ip, arg>>

-----------------------------------------------------------------------------
(* unlink.                                                                 *)

Unlink(c, n) ==
    /\ Namei(c, n, "unlink")
    /\ dirLock' = c
    /\ arg' = [arg EXCEPT ![c] = n]
    /\ UNCHANGED <<dinode, dir, ilockedBy, file, fds, put>>

\* Lock the inode too, clear the entry, unlock the directory.
UnlinkEntry(c) ==
    /\ where[c] = "unlink"
    /\ Lockable(ip[c])
    /\ ilockedBy' = [ilockedBy EXCEPT ![ip[c]] = c]
    /\ slot' = [slot EXCEPT ![ip[c]] = Loaded(ip[c])]
    /\ dir' = [dir EXCEPT ![arg[c]] = 0]
    /\ dirLock' = Unheld
    /\ Goto(c, "unlinkput")
    /\ DropName(c)
    /\ UNCHANGED <<dinode, file, fds, ip, put>>

\* iput(dp) takes the directory's lock and gives it back; then nlink--, and
\* the inode is unlocked.
UnlinkPut(c) ==
    /\ where[c] = "unlinkput"
    /\ dirLock = Unheld
    /\ Relink(ip[c], Loaded(ip[c]).copy.nlink - 1)
    /\ ilockedBy' = [ilockedBy EXCEPT ![ip[c]] = Unheld]
    /\ put' = [put EXCEPT ![c] = ip[c]]
    /\ ip' = [ip EXCEPT ![c] = 0]
    /\ Goto(c, "iput")
    /\ UNCHANGED <<dir, dirLock, file, fds, arg>>

-----------------------------------------------------------------------------
(* link.                                                                   *)

Link(c, old, new) ==
    /\ Namei(c, old, "link")
    /\ arg' = [arg EXCEPT ![c] = new]
    /\ UNCHANGED <<dinode, dir, dirLock, ilockedBy, file, fds, put>>

\* Mutant of LinkCount: the inode stays locked while link waits for the directory.
LinkCountLocked(c) ==
    /\ where[c] = "link"
    /\ Lockable(ip[c])
    /\ Relink(ip[c], Loaded(ip[c]).copy.nlink + 1)
    /\ ilockedBy' = [ilockedBy EXCEPT ![ip[c]] = c]
    /\ Goto(c, "linkdir")
    /\ UNCHANGED <<dir, dirLock, file, fds, ip, put, arg>>

\* nlink++ comes before the entry, so that the inode is never named and freed.
LinkCount(c) ==
    /\ where[c] = "link"
    /\ Lockable(ip[c])
    /\ Relink(ip[c], Loaded(ip[c]).copy.nlink + 1)
    /\ Goto(c, "linkdir")
    /\ UNCHANGED <<dir, dirLock, ilockedBy, file, fds, ip, put, arg>>

\* dirlink: enter the name, or find that it exists (and iput what it names).
LinkDir(c) ==
    /\ where[c] = "linkdir"
    /\ dirLock = Unheld
    /\ \/ /\ dir[arg[c]] = 0
          /\ dir' = [dir EXCEPT ![arg[c]] = slot[ip[c]].inum]
          /\ put' = [put EXCEPT ![c] = ip[c]]
          /\ ip' = [ip EXCEPT ![c] = 0]
          /\ UNCHANGED <<slot, dirLock>>
       \/ /\ dir[arg[c]] # 0
          /\ slot' = Iget(dir[arg[c]])
          /\ put' = [put EXCEPT ![c] = IgetSlot(dir[arg[c]])]
          /\ dirLock' = c
          /\ UNCHANGED <<dir, ip>>
    /\ Goto(c, "iput")
    /\ DropName(c)
    /\ UNCHANGED <<dinode, ilockedBy, file, fds>>

\* nameiparent finds no directory for the new name.
LinkNoParent(c) ==
    /\ where[c] = "linkdir"
    /\ Goto(c, "linkbad")
    /\ DropName(c)
    /\ UNCHANGED <<dinode, dir, dirLock, slot, ilockedBy, file, fds, ip, put>>

\* Mutant of LinkBad: the link stays counted.
LinkBadKept(c) ==
    /\ where[c] = "linkbad"
    /\ Lockable(ip[c])
    /\ put' = [put EXCEPT ![c] = ip[c]]
    /\ ip' = [ip EXCEPT ![c] = 0]
    /\ Goto(c, "iput")
    /\ UNCHANGED <<dinode, dir, dirLock, slot, ilockedBy, file, fds, arg>>

\* bad: take the link back.
LinkBad(c) ==
    /\ where[c] = "linkbad"
    /\ Lockable(ip[c])
    /\ Relink(ip[c], Loaded(ip[c]).copy.nlink - 1)
    /\ put' = [put EXCEPT ![c] = ip[c]]
    /\ ip' = [ip EXCEPT ![c] = 0]
    /\ Goto(c, "iput")
    /\ UNCHANGED <<dir, dirLock, ilockedBy, file, fds, arg>>

-----------------------------------------------------------------------------
\* The rest of a call that has begun.
InodeStep(c) ==
    \/ IputLock(c) \/ IputFree(c) \/ IputInvalid(c) \/ IputUnref(c)
    \/ OpenLock(c) \/ CreateLink(c) \/ CreatePut(c) \/ OpenFile(c)
    \/ UnlinkEntry(c) \/ UnlinkPut(c)
    \/ LinkCount(c) \/ LinkDir(c) \/ LinkNoParent(c) \/ LinkBad(c)

InodeNext ==
    \E c \in Callers :
        \/ InodeStep(c)
        \/ \E n \in Names : Open(c, n) \/ Create(c, n) \/ Unlink(c, n)
        \/ \E n, m \in Names : Link(c, n, m)
        \/ \E d \in Fds : SysClose(c, d) \/ \E e \in Callers : Dup(c, d, e)

InodeSpec == InodeInit /\ [][InodeNext]_inodeVars

-----------------------------------------------------------------------------
(* Properties.                                                             *)

\* How many pointers there are to the cached inode s.
Holders(s) ==
    Cardinality({f \in Files : file[f].ref > 0 /\ file[f].ip = s})
    + Cardinality({c \in Callers : ip[c] = s})
    + Cardinality({c \in Callers : put[c] = s})

\* Types, and the two reference counts: of a cached inode, in memory, and of
\* a file, in the descriptors of all processes.
InodeTypeOK ==
    /\ dir \in [Names -> DInums \cup {0}]
    /\ \A s \in Slots : slot[s].ref = Holders(s)
    /\ \A f \in Files :
          file[f].ref = Cardinality({x \in Callers \X Fds : fds[x[1]][x[2]] = f})

\* The links in the directory, those that a link() has counted and not yet
\* entered or taken back, and those that an unlink() has cleared and still counts.
Links(n) ==
    Cardinality({m \in Names : dir[m] = n})
    + Cardinality({c \in Callers : where[c] \in {"linkdir", "linkbad", "unlinkput"}
                                   /\ slot[ip[c]].inum = n})
    + Cardinality({c \in Callers : dirLock = c /\ put[c] # 0 /\ slot[ip[c]].inum = n})

\* What a process, a file or a name still leads to is not freed: ilock finds
\* a type ("ilock: no type"), and ialloc hands out no inode that is in use.
UsedAllocated ==
    /\ \A f \in Files : file[f].ref > 0 => dinode[slot[file[f].ip].inum].type # 0
    /\ \A c \in Callers : ip[c] # 0 => dinode[slot[ip[c]].inum].type # 0

\* The link count on the disk is the number of links, however open, link,
\* unlink and the recycling of inodes interleave, and no name, file or process
\* leads to a free inode.
LinksCounted ==
    /\ \A n \in DInums :
          /\ dinode[n].nlink = Links(n)
          /\ Links(n) > 0 => dinode[n].type # 0
    /\ UsedAllocated

\* The cache is write-through: a valid copy that somebody may use is the
\* dinode, also when the inode was freed and allocated again meanwhile; and an
\* inode has one entry.
CopyCurrent ==
    \A s \in Slots : slot[s].ref > 0 =>
        /\ \/ ~slot[s].valid
           \/ slot[s].copy = dinode[slot[s].inum]
           \/ \E c \in Callers : where[c] = "ivalid" /\ put[c] = s
        /\ \A t \in Slots : slot[t].ref > 0 /\ slot[t].inum = slot[s].inum => s = t

\* fs.c:345: "If that was the last reference and the inode has no links to it,
\* free the inode (and its content) on disk."  So once all calls have returned
\* every allocated inode has a name or is open.
NoInodeLeak ==
    (\A c \in Callers : where[c] = "user") =>
        \A n \in DInums : dinode[n].type # 0 =>
            \/ \E m \in Names : dir[m] = n
            \/ \E f \in Files : file[f].ref > 0 /\ slot[file[f].ip].inum = n

\* In the middle of a call, c waits for a lock that e holds.
Blocks(e, c) ==
    \/ where[c] \in {"open", "create", "unlink", "link", "linkbad"} /\ ilockedBy[ip[c]] = e
    \/ where[c] = "iput" /\ ilockedBy[put[c]] = e
    \/ where[c] \in {"linkdir", "createput", "unlinkput"} /\ dirLock = e

\* Everyone in S waits for another of S.
Circle(S) == S # {} /\ \A c \in S : \E e \in S : Blocks(e, c)

\* usertests.c:855 tests link, unlink and create "to look for deadlocks": no
\* processes wait for each other's locks in a circle.
NoLockCircle == \A S \in SUBSET Callers : ~Circle(S)

\* What holds of the code: processes wait in a circle only where create or unlink
\* has released the directory and its iput(dp) takes it again with an inode
\* locked, and the directory's new holder waits for that inode.
CirclesThroughPut ==
    \A S \in SUBSET Callers : Circle(S) =>
        \E c \in S : /\ where[c] \in {"createput", "unlinkput"}
                     /\ dirLock \in S /\ Blocks(c, dirLock)
=============================================================================

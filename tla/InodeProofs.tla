---------------------------- MODULE InodeProofs ----------------------------
(***************************************************************************)
(* Proofs about the inode cache, the directory and the file table (Inode),  *)
(* for any number of processes, names, inodes, files and descriptors.       *)
(***************************************************************************)
EXTENDS Inode, TLAPS, WellFoundedInduction, FiniteSetTheorems

-----------------------------------------------------------------------------
(* The invariant.                                                          *)

Places == {"user", "open", "create", "createput", "file", "unlink", "unlinkput",
           "link", "linkdir", "linkbad", "iput", "ifree", "ivalid", "iunref"}
Dinodes == [type : {0, 1}, nlink : Nat]
Entries == [inum : DInums \cup {0}, ref : Nat, valid : BOOLEAN, copy : Dinodes]

InodeTypes ==
    /\ dinode \in [DInums -> Dinodes]
    /\ dir \in [Names -> DInums \cup {0}]
    /\ dirLock \in Callers \cup {Unheld}
    /\ slot \in [Slots -> Entries]
    /\ ilockedBy \in [Slots -> Callers \cup {Unheld}]
    /\ file \in [Files -> [ref : Nat, ip : Slots \cup {0}]]
    /\ fds \in [Callers -> [Fds -> Files \cup {0}]]
    /\ where \in [Callers -> Places]
    /\ ip \in [Callers -> Slots \cup {0}]
    /\ put \in [Callers -> Slots \cup {0}]
    /\ arg \in [Callers -> Names \cup {AnyName}]

\* The three kinds of pointers to a cached inode.
FileUsers(s) == {f \in Files : file[f].ref > 0 /\ file[f].ip = s}
IpUsers(s) == {c \in Callers : ip[c] = s}
PutUsers(s) == {c \in Callers : put[c] = s}

\* An entry in use is some inode's, and no other entry is.
SlotInv ==
    /\ \A s \in Slots : slot[s].ref > 0 => slot[s].inum \in DInums
    /\ \A s, t \in Slots :
          slot[s].ref > 0 /\ slot[t].ref > 0 /\ slot[s].inum = slot[t].inum => s = t

\* The references of an entry are the pointers to it.
RefInv ==
    \A s \in Slots : slot[s].ref = Cardinality(FileUsers(s)) + Cardinality(IpUsers(s))
                                   + Cardinality(PutUsers(s))

\* The references of a file are its descriptors; a file in use has an inode.
Descriptors(f) == {x \in Callers \X Fds : fds[x[1]][x[2]] = f}
FileInv ==
    \A f \in Files : /\ file[f].ref = Cardinality(Descriptors(f))
                     /\ file[f].ref > 0 => file[f].ip \in Slots

\* What a process holds at each place.
InIput(c) == where[c] \in {"iput", "ifree", "ivalid", "iunref"}
Place(c) ==
    /\ where[c] = "user" => ip[c] = 0
    /\ where[c] \notin {"user", "iput", "ifree", "ivalid", "iunref"} => ip[c] # 0
    /\ InIput(c) <=> put[c] # 0
    /\ InIput(c) => (dirLock = c <=> ip[c] # 0)
    /\ where[c] \in {"create", "unlink"} => dirLock = c
    /\ dirLock = c => where[c] \in {"create", "unlink"} \/ InIput(c)
    /\ where[c] \in {"create", "unlink", "link", "linkdir"} => arg[c] \in Names
PlaceInv == \A c \in Callers : Place(c)

\* A sleep lock's holder.
HasLock(c, s) == \/ where[c] \in {"ifree", "ivalid"} /\ put[c] = s
                 \/ where[c] \in {"createput", "file", "unlinkput"} /\ ip[c] = s
InodeLockInv ==
    \A c \in Callers, s \in Slots : ilockedBy[s] = c <=> HasLock(c, s)

\* A valid entry is its dinode, and allocated, except while iput is freeing it.
CopyAt(s) ==
    slot[s].ref > 0 =>
        \/ ~slot[s].valid
        \/ slot[s].copy = dinode[slot[s].inum] /\ slot[s].copy.type # 0
        \/ \E c \in Callers : where[c] = "ivalid" /\ put[c] = s
CopyInv == \A s \in Slots : CopyAt(s)

\* What iput found before it frees an inode stays true.
FreeInv == \A c \in Callers : where[c] = "ifree" => LastUser(put[c])

\* Names lead to allocated inodes (files and calls: UsedAllocated).
NamedAllocated == \A m \in Names : dir[m] # 0 => dinode[dir[m]].type # 0

\* The links that a call of link() has counted and not yet entered, or one of
\* unlink() cleared and not yet discounted.
Pending(c) == \/ where[c] \in {"linkdir", "linkbad", "unlinkput"}
              \/ dirLock = c /\ put[c] # 0
InFlight(n) == {c \in Callers : Pending(c) /\ slot[ip[c]].inum = n}
NameLinks(n) == {m \in Names : dir[m] = n}
LinkInv ==
    \A n \in DInums : dinode[n].nlink = Cardinality(NameLinks(n)) + Cardinality(InFlight(n))

\* create and unlink between their two locks: the new inode has no link and no
\* other user, the entry is still the one that was looked up.
DirAt(c) ==
    /\ where[c] = "unlink" => dir[arg[c]] = slot[ip[c]].inum
    /\ where[c] = "create" => /\ dir[arg[c]] = 0
                              /\ dinode[slot[ip[c]].inum].nlink = 0
                              /\ IpUsers(ip[c]) = {c} /\ FileUsers(ip[c]) = {}
DirInv == \A c \in Callers : DirAt(c)

InodeInv ==
    /\ InodeTypes /\ SlotInv /\ RefInv /\ FileInv /\ PlaceInv /\ InodeLockInv /\ CopyInv
    /\ FreeInv /\ NamedAllocated /\ UsedAllocated /\ LinkInv /\ DirInv

-----------------------------------------------------------------------------
(* Counting.                                                               *)

\* The sets that are counted are finite; 0 and Unheld are outside them.
LEMMA InodeFinite ==
    /\ IsFiniteSet(Callers) /\ IsFiniteSet(Names) /\ IsFiniteSet(Files)
    /\ IsFiniteSet(Slots) /\ IsFiniteSet(DInums) /\ IsFiniteSet(Callers \X Fds)
    /\ Cardinality(Slots) = NSLOT /\ Cardinality(DInums) = NINODES
    /\ Unheld \notin Callers /\ 0 \notin Slots /\ 0 \notin DInums /\ 0 \notin Files
    /\ Slots \subseteq Nat /\ DInums \subseteq Nat /\ Files \subseteq Nat /\ Fds \subseteq Nat
<1>1. /\ IsFiniteSet(Files) /\ IsFiniteSet(Slots) /\ IsFiniteSet(DInums) /\ IsFiniteSet(Fds)
      /\ Cardinality(Slots) = NSLOT /\ Cardinality(DInums) = NINODES
  BY InodeAssumption, FS_Interval DEF Files, Slots, DInums, Fds
<1>2. IsFiniteSet(Callers \X Fds)
  BY <1>1, InodeAssumption, FS_Product
<1>3. Slots \subseteq Nat /\ DInums \subseteq Nat /\ Files \subseteq Nat /\ Fds \subseteq Nat
  BY InodeAssumption DEF Files, Slots, DInums, Fds
<1>4. 0 \notin Slots /\ 0 \notin DInums /\ 0 \notin Files
  BY InodeAssumption DEF Files, Slots, DInums
<1> QED
  BY <1>1, <1>2, <1>3, <1>4, InodeAssumption DEF Unheld

\* First() finds the least member of a set of numbers.
LEMMA FirstIn ==
    ASSUME NEW T, T \subseteq Nat, T # {}
    PROVE  First(T) \in T
<1>1. IsWellFoundedOn(OpToRel(<,Nat), Nat)
  BY NatLessThanWellFounded
<1>2. \E x \in T : \A y \in T : ~ (<<y, x>> \in OpToRel(<,Nat))
  BY <1>1, WFMin, Zenon
<1>3. PICK x \in T : \A y \in T : ~ (<<y, x>> \in OpToRel(<,Nat))
  BY <1>2
<1>4. (\A y \in T : ~(y < x)) /\ x \in Nat /\ \A y \in T : y \in Nat
  BY <1>3 DEF OpToRel
<1>5. \A y \in T : x <= y
  BY <1>4, SMT
<1>6. \E m \in T : \A y \in T : m <= y
  BY <1>3, <1>5, Zenon
<1> QED
  BY <1>6 DEF First

\* Two sets that differ in x at most differ in size accordingly.
One(b) == IF b THEN 1 ELSE 0
LEMMA CountMoves ==
    ASSUME NEW A, NEW B, NEW x, IsFiniteSet(A), \A y : y # x => (y \in A <=> y \in B)
    PROVE  /\ Cardinality(A) \in Nat /\ Cardinality(B) \in Nat
           /\ Cardinality(B) = Cardinality(A) - One(x \in A) + One(x \in B)
<1> DEFINE R == A \ {x}
<1>0. IsFiniteSet(R) /\ Cardinality(R) \in Nat /\ Cardinality(A) \in Nat
  BY FS_RemoveElement, FS_CardinalityType
<1>1. IsFiniteSet(R) /\ Cardinality(A) = Cardinality(R) + One(x \in A) /\ Cardinality(A) \in Nat
  <2>1. Cardinality(R) = IF x \in A THEN Cardinality(A) - 1 ELSE Cardinality(A)
    BY FS_RemoveElement
  <2> HIDE DEF R
  <2> QED
    BY <1>0, <2>1 DEF One
<1>2. B = IF x \in B THEN R \cup {x} ELSE R
  OBVIOUS
<1>3. x \notin R
  OBVIOUS
<1> HIDE DEF R
<1>4. Cardinality(R) \in Nat
  BY <1>1, FS_CardinalityType
<1>5. Cardinality(B) = Cardinality(R) + One(x \in B)
  <2>1. CASE x \in B
    BY <1>1, <1>2, <1>3, <1>4, <2>1, FS_AddElement DEF One
  <2>2. CASE x \notin B
    BY <1>2, <1>4, <2>2 DEF One
  <2> QED
    BY <2>1, <2>2
<1> QED
  BY <1>1, <1>4, <1>5 DEF One

\* The sizes of the sets of pointers are numbers, and a pointer is counted.
LEMMA Counted ==
    ASSUME InodeTypes, NEW s
    PROVE  /\ IsFiniteSet(FileUsers(s)) /\ IsFiniteSet(IpUsers(s)) /\ IsFiniteSet(PutUsers(s))
           /\ Cardinality(FileUsers(s)) \in Nat /\ Cardinality(IpUsers(s)) \in Nat
           /\ Cardinality(PutUsers(s)) \in Nat
           /\ FileUsers(s) # {} => Cardinality(FileUsers(s)) > 0
           /\ IpUsers(s) # {} => Cardinality(IpUsers(s)) > 0
           /\ PutUsers(s) # {} => Cardinality(PutUsers(s)) > 0
<1>1. IsFiniteSet(FileUsers(s)) /\ IsFiniteSet(IpUsers(s)) /\ IsFiniteSet(PutUsers(s))
  BY InodeFinite, FS_Subset DEF FileUsers, IpUsers, PutUsers
<1> QED
  BY <1>1, FS_CardinalityType, FS_EmptySet

\* An entry with a pointer to it is in use.
PointersCounted ==
    /\ \A c \in Callers : ip[c] # 0 => ip[c] \in Slots /\ slot[ip[c]].ref > 0
    /\ \A c \in Callers : put[c] # 0 => put[c] \in Slots /\ slot[put[c]].ref > 0
    /\ \A f \in Files : file[f].ref > 0 /\ file[f].ip \in Slots => slot[file[f].ip].ref > 0

\* That follows from the counts.
LEMMA Referenced == InodeTypes /\ RefInv => PointersCounted
<1> SUFFICES ASSUME InodeTypes, RefInv PROVE PointersCounted
  OBVIOUS
<1>1. ASSUME NEW s \in Slots, FileUsers(s) # {} \/ IpUsers(s) # {} \/ PutUsers(s) # {}
      PROVE  slot[s].ref > 0
  BY <1>1, Counted DEF RefInv
<1>2. ASSUME NEW c \in Callers, ip[c] # 0 PROVE ip[c] \in Slots /\ slot[ip[c]].ref > 0
  BY <1>1, <1>2 DEF InodeTypes, IpUsers
<1>3. ASSUME NEW c \in Callers, put[c] # 0 PROVE put[c] \in Slots /\ slot[put[c]].ref > 0
  BY <1>1, <1>3 DEF InodeTypes, PutUsers
<1>4. ASSUME NEW f \in Files, file[f].ref > 0, file[f].ip \in Slots
      PROVE  slot[file[f].ip].ref > 0
  BY <1>1, <1>4 DEF FileUsers
<1> QED
  BY <1>2, <1>3, <1>4 DEF PointersCounted

\* The same of the next state.
LEMMA ReferencedNext == InodeTypes' /\ RefInv' => PointersCounted'
  BY Referenced, PTL

\* The pointers of one process move: what becomes of the counts.
LEMMA UsersMove ==
    ASSUME InodeTypes, NEW c \in Callers,
           \A e \in Callers \ {c} : ip'[e] = ip[e] /\ put'[e] = put[e],
           NEW s
    PROVE  /\ Cardinality(IpUsers(s)')
                 = Cardinality(IpUsers(s)) - One(ip[c] = s) + One(ip'[c] = s)
           /\ Cardinality(PutUsers(s)')
                 = Cardinality(PutUsers(s)) - One(put[c] = s) + One(put'[c] = s)
<1>1. Cardinality(IpUsers(s)')
        = Cardinality(IpUsers(s)) - One(c \in IpUsers(s)) + One(c \in IpUsers(s)')
  <2>1. \A y : y # c => (y \in IpUsers(s) <=> y \in IpUsers(s)')
    BY DEF IpUsers
  <2> QED
    BY <2>1, Counted, CountMoves
<1>2. Cardinality(PutUsers(s)')
        = Cardinality(PutUsers(s)) - One(c \in PutUsers(s)) + One(c \in PutUsers(s)')
  <2>1. \A y : y # c => (y \in PutUsers(s) <=> y \in PutUsers(s)')
    BY DEF PutUsers
  <2> QED
    BY <2>1, Counted, CountMoves
<1> QED
  BY <1>1, <1>2 DEF IpUsers, PutUsers

\* One file's pointer moves.
LEMMA FileMoves ==
    ASSUME InodeTypes, NEW f \in Files, \A g \in Files \ {f} : file'[g] = file[g], NEW s
    PROVE  Cardinality(FileUsers(s)')
             = Cardinality(FileUsers(s)) - One(file[f].ref > 0 /\ file[f].ip = s)
               + One(file'[f].ref > 0 /\ file'[f].ip = s)
<1>1. \A y : y # f => (y \in FileUsers(s) <=> y \in FileUsers(s)')
  BY DEF FileUsers
<1>2. Cardinality(FileUsers(s)')
        = Cardinality(FileUsers(s)) - One(f \in FileUsers(s)) + One(f \in FileUsers(s)')
  BY <1>1, Counted, CountMoves
<1> QED
  BY <1>2 DEF FileUsers

-----------------------------------------------------------------------------
(* iget.                                                                   *)

\* There is an unused entry for an inode that has none: the others have
\* different inodes, and there are as many entries as inodes.
LEMMA SlotLeft ==
    ASSUME InodeTypes, SlotInv, NEW n \in DInums,
           \A s \in Slots : slot[s].ref > 0 => slot[s].inum # n
    PROVE  \E s \in Slots : slot[s].ref = 0
<1> SUFFICES ASSUME \A s \in Slots : slot[s].ref # 0 PROVE FALSE
  OBVIOUS
<1> DEFINE inumOf == [s \in Slots |-> slot[s].inum]
           Rest == DInums \ {n}
<1>1. \A s \in Slots : slot[s].ref > 0
  BY DEF InodeTypes, Entries
<1>2. inumOf \in Injection(Slots, Rest)
  BY <1>1 DEF SlotInv, Injection, IsInjective
<1>3. IsFiniteSet(Rest) /\ Cardinality(Rest) = NINODES - 1
  BY InodeFinite, FS_RemoveElement
<1> HIDE DEF Rest, inumOf
<1>4. Cardinality(Slots) <= Cardinality(Rest)
  BY <1>2, <1>3, FS_Injection
<1> QED
  BY <1>3, <1>4, InodeFinite, InodeAssumption

\* iget finds the entry of the inode if there is one, and takes an unused one
\* otherwise; it counts the new pointer.
LEMMA IgetFacts ==
    ASSUME InodeTypes, SlotInv, NEW n \in DInums, NEW s, s = IgetSlot(n)
    PROVE  /\ s \in Slots
           /\ slot[s].ref > 0 => slot[s].inum = n
           /\ \A t \in Slots \ {s} : slot[t].ref > 0 => slot[t].inum # n
           /\ \E r \in Entries :
                /\ Iget(n) = [slot EXCEPT ![s] = r]
                /\ r.inum = n /\ r.ref = slot[s].ref + 1 /\ r.copy = slot[s].copy
                /\ r.valid <=> slot[s].ref > 0 /\ slot[s].valid
<1> DEFINE hits == {t \in Slots : slot[t].ref > 0 /\ slot[t].inum = n}
           free == {t \in Slots : slot[t].ref = 0}
<1>1. s = First(IF hits # {} THEN hits ELSE free)
  BY DEF IgetSlot
<1>2. hits \subseteq Nat /\ free \subseteq Nat
  BY InodeFinite
<1>3. hits # {} => s \in hits
  BY <1>1, <1>2, FirstIn
<1>4. hits = {} => s \in free
  <2> SUFFICES ASSUME hits = {} PROVE s \in free
    OBVIOUS
  <2>1. free # {}
    BY SlotLeft
  <2> QED
    BY <1>1, <1>2, <2>1, FirstIn
<1>5. s \in Slots /\ (slot[s].ref > 0 => slot[s].inum = n)
  BY <1>3, <1>4
<1>6. \A t \in Slots \ {s} : slot[t].ref > 0 => slot[t].inum # n
  BY <1>3, <1>4 DEF SlotInv
<1> DEFINE r == IF slot[s].ref > 0 THEN [slot[s] EXCEPT !.ref = @ + 1]
                ELSE [slot[s] EXCEPT !.inum = n, !.ref = 1, !.valid = FALSE]
<1>7. Iget(n) = [slot EXCEPT ![s] = r]
  BY DEF Iget
<1>8. slot[s] \in Entries
  BY <1>5 DEF InodeTypes
<1>9. /\ r \in Entries /\ r.inum = n /\ r.ref = slot[s].ref + 1 /\ r.copy = slot[s].copy
      /\ r.valid <=> slot[s].ref > 0 /\ slot[s].valid
  <2>1. CASE slot[s].ref > 0
    BY <1>5, <1>8, <2>1 DEF Entries
  <2>2. CASE slot[s].ref = 0
    <3>1. r = [slot[s] EXCEPT !.inum = n, !.ref = 1, !.valid = FALSE]
      BY <2>2
    <3> HIDE DEF r
    <3>2. r \in Entries
      BY <1>8, <3>1 DEF Entries
    <3>3. r.inum = n /\ r.ref = 1 /\ r.copy = slot[s].copy
      BY <1>8, <3>1 DEF Entries
    <3>4. r.valid = FALSE
      BY <1>8, <3>1 DEF Entries
    <3> QED
      BY <2>2, <3>2, <3>3, <3>4
  <2> QED
    BY <1>8, <2>1, <2>2 DEF Entries
<1> HIDE DEF r
<1> QED
  BY <1>5, <1>6, <1>7, <1>9

-----------------------------------------------------------------------------
(* What a step of one process leaves to the others.                        *)

OthersStay(c) ==
    \A e \in Callers \ {c} :
        /\ where'[e] = where[e] /\ ip'[e] = ip[e] /\ put'[e] = put[e] /\ arg'[e] = arg[e]
        /\ dirLock' = e <=> dirLock = e

\* An entry in use keeps its inode.
InumsStay ==
    \A s \in Slots : slot[s].ref > 0 /\ slot'[s].ref > 0 => slot'[s].inum = slot[s].inum

\* The process has the place that it is at.
LEMMA PlaceFrame ==
    ASSUME PlaceInv, NEW c \in Callers, OthersStay(c), Place(c)'
    PROVE  PlaceInv'
<1> SUFFICES ASSUME NEW e \in Callers PROVE Place(e)'
  BY DEF PlaceInv
<1>1. CASE e # c
  BY <1>1 DEF PlaceInv, OthersStay, Place, InIput
<1> QED
  BY <1>1

\* The inodes that the others use are still the same and allocated.
LEMMA AllocFrame ==
    ASSUME InodeInv, NEW c \in Callers, OthersStay(c), InumsStay, InodeTypes', RefInv',
           UNCHANGED file,
           \A s \in Slots : slot[s].ref > 0 /\ dinode[slot[s].inum].type # 0 =>
              \/ dinode'[slot[s].inum].type # 0
              \/ FileUsers(s) = {} /\ IpUsers(s) = {},
           ip'[c] # 0 => dinode'[slot'[ip'[c]].inum].type # 0
    PROVE  UsedAllocated'
<1>1. PointersCounted /\ PointersCounted'
  BY Referenced, ReferencedNext DEF InodeInv
<1>2. ASSUME NEW f \in Files, file'[f].ref > 0
      PROVE  dinode'[slot'[file'[f].ip].inum].type # 0
  <2>1. file[f].ip \in Slots /\ file[f].ref > 0
    BY <1>2 DEF InodeInv, FileInv
  <2>2. slot[file[f].ip].ref > 0 /\ slot'[file[f].ip].ref > 0
    BY <1>1, <1>2, <2>1 DEF PointersCounted
  <2>3. /\ slot'[file[f].ip].inum = slot[file[f].ip].inum
        /\ slot[file[f].ip].inum \in DInums
    BY <2>1, <2>2 DEF InumsStay, InodeInv, SlotInv
  <2>4. dinode[slot[file[f].ip].inum].type # 0
    BY <2>1 DEF InodeInv, UsedAllocated
  <2>5. FileUsers(file[f].ip) # {}
    BY <2>1 DEF FileUsers
  <2> QED
    BY <2>1, <2>2, <2>3, <2>4, <2>5
<1>3. ASSUME NEW e \in Callers \ {c}, ip'[e] # 0 PROVE dinode'[slot'[ip'[e]].inum].type # 0
  <2>1. ip'[e] = ip[e] /\ ip[e] # 0
    BY <1>3 DEF OthersStay
  <2>2. ip[e] \in Slots /\ slot[ip[e]].ref > 0 /\ slot'[ip[e]].ref > 0
    BY <1>1, <2>1 DEF PointersCounted
  <2>3. slot'[ip[e]].inum = slot[ip[e]].inum /\ slot[ip[e]].inum \in DInums
    BY <2>2 DEF InumsStay, InodeInv, SlotInv
  <2>4. dinode[slot[ip[e]].inum].type # 0
    BY <2>1 DEF InodeInv, UsedAllocated
  <2>5. IpUsers(ip[e]) # {}
    BY DEF IpUsers
  <2> QED
    BY <2>1, <2>2, <2>3, <2>4, <2>5
<1> QED
  BY <1>2, <1>3 DEF UsedAllocated

\* Links in flight: only those of the process that takes the step may change.
LEMMA FlightMoves ==
    ASSUME InodeInv, NEW c \in Callers, OthersStay(c), InumsStay, InodeTypes', RefInv', NEW n
    PROVE  /\ Cardinality(InFlight(n)) \in Nat
           /\ Cardinality(InFlight(n)')
                = Cardinality(InFlight(n)) - One(Pending(c) /\ slot[ip[c]].inum = n)
                  + One(Pending(c)' /\ slot'[ip'[c]].inum = n)
<1>1. PointersCounted /\ PointersCounted'
  BY Referenced, ReferencedNext DEF InodeInv
<1>2. ASSUME NEW e \in Callers \ {c} PROVE e \in InFlight(n) <=> e \in InFlight(n)'
  <2>1. Pending(e) <=> Pending(e)'
    BY DEF Pending, OthersStay
  <2>2. Pending(e) => slot'[ip'[e]].inum = slot[ip[e]].inum
    <3> SUFFICES ASSUME Pending(e) PROVE slot'[ip'[e]].inum = slot[ip[e]].inum
      OBVIOUS
    <3>1. ip[e] # 0
      BY DEF Pending, InodeInv, PlaceInv, Place, InIput
    <3>2. ip'[e] = ip[e]
      BY DEF OthersStay
    <3>3. ip[e] \in Slots /\ slot[ip[e]].ref > 0 /\ slot'[ip[e]].ref > 0
      BY <1>1, <3>1, <3>2 DEF PointersCounted
    <3> QED
      BY <3>2, <3>3 DEF InumsStay
  <2> QED
    BY <2>1, <2>2 DEF InFlight
<1>3. \A y : y # c => (y \in InFlight(n) <=> y \in InFlight(n)')
  BY <1>2 DEF InFlight
<1>4. IsFiniteSet(InFlight(n))
  BY InodeFinite, FS_Subset DEF InFlight
<1>5. /\ Cardinality(InFlight(n)) \in Nat
      /\ Cardinality(InFlight(n)')
           = Cardinality(InFlight(n)) - One(c \in InFlight(n)) + One(c \in InFlight(n)')
  BY <1>3, <1>4, CountMoves
<1> QED
  BY <1>5 DEF InFlight

\* The entry of one name may change.
LEMMA NamesMove ==
    ASSUME NEW m \in Names, \A k \in Names \ {m} : dir'[k] = dir[k], NEW n
    PROVE  /\ Cardinality(NameLinks(n)) \in Nat
           /\ Cardinality(NameLinks(n)')
                = Cardinality(NameLinks(n)) - One(dir[m] = n) + One(dir'[m] = n)
<1>1. \A y : y # m => (y \in NameLinks(n) <=> y \in NameLinks(n)')
  BY DEF NameLinks
<1>2. IsFiniteSet(NameLinks(n))
  BY InodeFinite, FS_Subset DEF NameLinks
<1>3. /\ Cardinality(NameLinks(n)) \in Nat
      /\ Cardinality(NameLinks(n)')
           = Cardinality(NameLinks(n)) - One(m \in NameLinks(n)) + One(m \in NameLinks(n)')
  BY <1>1, <1>2, CountMoves
<1> QED
  BY <1>3 DEF NameLinks

\* Links are counted if the step changes no name and no link count and the
\* process has a link in flight as before.
LEMMA LinkFrame ==
    ASSUME InodeInv, NEW c \in Callers, OthersStay(c), InumsStay, InodeTypes', RefInv',
           UNCHANGED dir, \A n \in DInums : dinode'[n].nlink = dinode[n].nlink,
           Pending(c) <=> Pending(c)', Pending(c) => ip'[c] = ip[c]
    PROVE  LinkInv'
<1> SUFFICES ASSUME NEW n \in DInums
             PROVE  dinode'[n].nlink = Cardinality(NameLinks(n)') + Cardinality(InFlight(n)')
  BY DEF LinkInv
<1>1. NameLinks(n)' = NameLinks(n)
  BY DEF NameLinks
<1>2. /\ Cardinality(InFlight(n)) \in Nat
      /\ Cardinality(InFlight(n)')
           = Cardinality(InFlight(n)) - One(Pending(c) /\ slot[ip[c]].inum = n)
             + One(Pending(c)' /\ slot'[ip'[c]].inum = n)
  BY FlightMoves
<1>3. Pending(c) => slot'[ip'[c]].inum = slot[ip[c]].inum
  <2> SUFFICES ASSUME Pending(c) PROVE slot'[ip'[c]].inum = slot[ip[c]].inum
    OBVIOUS
  <2>1. ip[c] # 0 /\ ip'[c] = ip[c]
    BY DEF Pending, InodeInv, PlaceInv, Place, InIput
  <2>2. PointersCounted /\ PointersCounted'
    BY Referenced, ReferencedNext DEF InodeInv
  <2> QED
    BY <2>1, <2>2 DEF InumsStay, PointersCounted
<1>4. Cardinality(InFlight(n)') = Cardinality(InFlight(n))
  BY <1>2, <1>3 DEF One
<1> QED
  BY <1>1, <1>4 DEF InodeInv, LinkInv

\* The others' create() and unlink() are not disturbed.
LEMMA DirFrame ==
    ASSUME InodeInv, NEW c \in Callers, OthersStay(c), InumsStay, InodeTypes', RefInv',
           \A e \in Callers \ {c} : where[e] \in {"create", "unlink"} => dir'[arg[e]] = dir[arg[e]],
           \A e \in Callers \ {c} : where[e] = "create" =>
              /\ dinode'[slot[ip[e]].inum].nlink = 0
              /\ ip'[c] # ip[e] /\ FileUsers(ip[e])' = {},
           DirAt(c)'
    PROVE  DirInv'
<1> SUFFICES ASSUME NEW e \in Callers \ {c} PROVE DirAt(e)'
  BY DEF DirInv
<1>1. where'[e] = where[e] /\ ip'[e] = ip[e] /\ arg'[e] = arg[e]
  BY DEF OthersStay
<1> SUFFICES ASSUME where[e] \in {"create", "unlink"} PROVE DirAt(e)'
  BY <1>1 DEF DirAt
<1>2. ip[e] # 0
  BY DEF InodeInv, PlaceInv, Place
<1>3. PointersCounted /\ PointersCounted'
  BY Referenced, ReferencedNext DEF InodeInv
<1>4. ip[e] \in Slots /\ slot'[ip[e]].inum = slot[ip[e]].inum
  BY <1>1, <1>2, <1>3 DEF InumsStay, PointersCounted
<1>5. CASE where[e] = "unlink"
  BY <1>1, <1>4, <1>5 DEF DirAt, InodeInv, DirInv
<1>6. CASE where[e] = "create"
  <2>1. IpUsers(ip[e]) = {e} /\ dir[arg[e]] = 0
    BY <1>6 DEF DirAt, InodeInv, DirInv
  <2>2. IpUsers(ip[e])' = {e}
    <3> SUFFICES \A d \in Callers : ip'[d] = ip'[e] <=> d = e
      BY DEF IpUsers
    <3>1. \A d \in Callers : ip[d] = ip[e] <=> d = e
      BY <2>1 DEF IpUsers
    <3> QED
      BY <1>1, <1>6, <3>1 DEF OthersStay
  <2>3. FileUsers(ip[e])' = {}
    BY <1>6
  <2>4. dir'[arg'[e]] = 0 /\ dinode'[slot'[ip'[e]].inum].nlink = 0
    BY <1>1, <1>4, <1>6, <2>1
  <2> QED
    BY <1>1, <1>6, <2>2, <2>3, <2>4 DEF DirAt
<1> QED
  BY <1>5, <1>6

\* No file and no descriptor changes.
LEMMA FileFrame ==
    ASSUME FileInv, UNCHANGED <<file, fds>>
    PROVE  FileInv' /\ \A s : FileUsers(s)' = FileUsers(s)
<1>1. \A f : Descriptors(f)' = Descriptors(f)
  BY DEF Descriptors
<1> QED
  BY <1>1 DEF FileInv, FileUsers

\* What iput knows about the inode that it frees.
LEMMA Freeing ==
    ASSUME InodeInv, NEW e \in Callers, where[e] = "ifree"
    PROVE  /\ put[e] \in Slots /\ slot[put[e]].ref = 1 /\ slot[put[e]].inum \in DInums
           /\ slot[put[e]].copy = dinode[slot[put[e]].inum]
           /\ dinode[slot[put[e]].inum].type # 0 /\ dinode[slot[put[e]].inum].nlink = 0
           /\ NameLinks(slot[put[e]].inum) = {} /\ InFlight(slot[put[e]].inum) = {}
           /\ FileUsers(put[e]) = {} /\ IpUsers(put[e]) = {} /\ PutUsers(put[e]) = {e}
<1> DEFINE s == put[e]
           n == slot[s].inum
<1>1. s # 0
  BY DEF InodeInv, PlaceInv, Place, InIput
<1>2. s \in Slots /\ slot[s].ref > 0
  BY <1>1, Referenced DEF InodeInv, PointersCounted
<1>3. slot[s].valid /\ slot[s].copy.nlink = 0 /\ slot[s].ref = 1 /\ n \in DInums
  BY <1>2 DEF InodeInv, FreeInv, LastUser, SlotInv
<1>4. ~\E d \in Callers : where[d] = "ivalid" /\ put[d] = s
  BY <1>2 DEF InodeInv, InodeLockInv, HasLock
<1>5. slot[s].copy = dinode[n] /\ slot[s].copy.type # 0
  BY <1>2, <1>3, <1>4 DEF InodeInv, CopyInv, CopyAt
<1>6. FileUsers(s) = {} /\ IpUsers(s) = {} /\ PutUsers(s) = {e}
  <2> HIDE DEF s
  <2>0. s = put[e]
    BY DEF s
  <2>1. /\ 1 = Cardinality(FileUsers(s)) + Cardinality(IpUsers(s)) + Cardinality(PutUsers(s))
        /\ IsFiniteSet(PutUsers(s))
        /\ Cardinality(FileUsers(s)) \in Nat /\ Cardinality(IpUsers(s)) \in Nat
        /\ Cardinality(PutUsers(s)) \in Nat
        /\ FileUsers(s) # {} => Cardinality(FileUsers(s)) > 0
        /\ IpUsers(s) # {} => Cardinality(IpUsers(s)) > 0
        /\ PutUsers(s) # {} => Cardinality(PutUsers(s)) > 0
    BY <1>2, <1>3, Counted DEF InodeInv, RefInv
  <2>2. e \in PutUsers(s)
    BY <2>0 DEF PutUsers
  <2>3. FileUsers(s) = {} /\ IpUsers(s) = {} /\ Cardinality(PutUsers(s)) = 1
    <3>1. PutUsers(s) # {}
      BY <2>2
    <3> QED
      BY <2>1, <3>1
  <2>4. PICK x : PutUsers(s) = {x}
    BY <2>1, <2>3, FS_Singleton
  <2> QED
    BY <2>2, <2>3, <2>4
<1>7. NameLinks(n) = {} /\ InFlight(n) = {}
  <2> HIDE DEF n
  <2>1. IsFiniteSet(NameLinks(n)) /\ IsFiniteSet(InFlight(n))
    BY InodeFinite, FS_Subset DEF NameLinks, InFlight
  <2>2. Cardinality(NameLinks(n)) + Cardinality(InFlight(n)) = 0
    BY <1>3, <1>5 DEF InodeInv, LinkInv
  <2>3. Cardinality(NameLinks(n)) \in Nat /\ Cardinality(InFlight(n)) \in Nat
    BY <2>1, FS_CardinalityType
  <2>4. Cardinality(NameLinks(n)) = 0 /\ Cardinality(InFlight(n)) = 0
    BY <2>2, <2>3
  <2> QED
    BY <2>1, <2>4, FS_EmptySet
<1> QED
  BY <1>2, <1>3, <1>5, <1>6, <1>7

\* A process that is freeing an inode is not disturbed by one with no pointer to it.
LEMMA FreeFrame ==
    ASSUME InodeInv, NEW c \in Callers, OthersStay(c),
           \A s \in Slots : slot'[s] = slot[s] \/ ip[c] = s \/ put[c] = s
                            \/ ~\E e \in Callers : where[e] = "ifree" /\ put[e] = s,
           where'[c] = "ifree" => LastUser(put[c])'
    PROVE  FreeInv'
<1> SUFFICES ASSUME NEW e \in Callers \ {c}, where'[e] = "ifree" PROVE LastUser(put[e])'
  BY DEF FreeInv
<1>1. where[e] = "ifree" /\ put'[e] = put[e]
  BY DEF OthersStay
<1>2. put[e] \in Slots /\ IpUsers(put[e]) = {} /\ PutUsers(put[e]) = {e}
  BY <1>1, Freeing
<1>3. ip[c] # put[e] /\ put[c] # put[e]
  BY <1>2 DEF IpUsers, PutUsers
<1>4. slot'[put[e]] = slot[put[e]]
  BY <1>1, <1>2, <1>3
<1> QED
  BY <1>1, <1>4 DEF LastUser, InodeInv, FreeInv

\* An entry stays current if neither it nor its dinode changes.
LEMMA CopyKept ==
    ASSUME InodeInv, NEW c \in Callers, OthersStay(c), NEW s \in Slots, slot[s].ref > 0,
           slot'[s].inum = slot[s].inum, slot'[s].valid = slot[s].valid,
           slot'[s].copy = slot[s].copy, dinode'[slot[s].inum] = dinode[slot[s].inum],
           where[c] = "ivalid" /\ put[c] = s => where'[c] = "ivalid" /\ put'[c] = s
    PROVE  CopyAt(s)'
<1>1. CASE \E e \in Callers : where[e] = "ivalid" /\ put[e] = s
  BY <1>1 DEF OthersStay, CopyAt
<1>2. CASE ~\E e \in Callers : where[e] = "ivalid" /\ put[e] = s
  BY <1>2 DEF CopyAt, InodeInv, CopyInv
<1> QED
  BY <1>1, <1>2

\* DirInv for a process that is in neither call.
LEMMA DirQuiet ==
    ASSUME InodeInv, NEW c \in Callers, OthersStay(c), InumsStay, InodeTypes', RefInv',
           UNCHANGED <<dir, file>>, \A n \in DInums : dinode'[n].nlink = dinode[n].nlink,
           ip'[c] \in {ip[c], 0}, where'[c] \notin {"create", "unlink"}
    PROVE  DirInv'
<1>1. ASSUME NEW e \in Callers \ {c}, where[e] = "create"
      PROVE  /\ dinode'[slot[ip[e]].inum].nlink = 0
             /\ ip'[c] # ip[e] /\ FileUsers(ip[e])' = {}
  <2>1. ip[e] # 0
    BY <1>1 DEF InodeInv, PlaceInv, Place
  <2>2. ip[e] \in Slots /\ slot[ip[e]].inum \in DInums
    BY <2>1, Referenced DEF InodeInv, SlotInv, PointersCounted
  <2>3. /\ dinode[slot[ip[e]].inum].nlink = 0
        /\ IpUsers(ip[e]) = {e} /\ FileUsers(ip[e]) = {}
    BY <1>1 DEF InodeInv, DirInv, DirAt
  <2>4. ip[c] # ip[e]
    BY <2>3 DEF IpUsers
  <2>5. ip'[e] = ip[e]
    BY DEF OthersStay
  <2>6. FileUsers(ip[e])' = {}
    BY <2>3, <2>5 DEF FileUsers
  <2> QED
    BY <2>1, <2>2, <2>3, <2>4, <2>6
<1>2. DirAt(c)'
  BY DEF DirAt
<1> QED
  BY <1>1, <1>2, DirFrame

\* The counts of pointers when none moves.
LEMMA PointersStay ==
    ASSUME InodeInv, UNCHANGED <<file, ip, put>>,
           \A s \in Slots : slot'[s].ref = slot[s].ref
    PROVE  RefInv'
<1>1. \A s : FileUsers(s)' = FileUsers(s) /\ IpUsers(s)' = IpUsers(s) /\ PutUsers(s)' = PutUsers(s)
  BY DEF FileUsers, IpUsers, PutUsers
<1> QED
  BY <1>1 DEF InodeInv, RefInv

-----------------------------------------------------------------------------
(* iput.                                                                   *)

\* iput takes the lock, looks at the entry, and keeps the lock if it will free.
LEMMA IputLockKeeps ==
    ASSUME InodeInv, NEW c \in Callers, IputLock(c)
    PROVE  InodeInv'
<1>1. /\ where[c] = "iput" /\ ilockedBy[put[c]] = Unheld
      /\ UNCHANGED <<dinode, dir, dirLock, slot, file, fds, ip, put, arg>>
      /\ \/ /\ LastUser(put[c]) /\ where' = [where EXCEPT ![c] = "ifree"]
            /\ ilockedBy' = [ilockedBy EXCEPT ![put[c]] = c]
         \/ where' = [where EXCEPT ![c] = "iunref"] /\ UNCHANGED ilockedBy
  BY DEF IputLock, Lockable, Goto
<1>2. put[c] \in Slots
  BY <1>1, Referenced DEF InodeInv, PlaceInv, Place, InIput, PointersCounted
<1>3. InodeTypes' /\ OthersStay(c) /\ InumsStay /\ SlotInv' /\ NamedAllocated'
  <2>4. where \in [Callers -> Places] /\ ilockedBy \in [Slots -> Callers \cup {Unheld}]
    BY DEF InodeInv, InodeTypes
  <2>5. where' \in [Callers -> Places]
    BY <1>1, <2>4 DEF Places
  <2>6. ilockedBy' \in [Slots -> Callers \cup {Unheld}]
    BY <1>1, <1>2, <2>4
  <2>1. InodeTypes'
    BY <1>1, <2>5, <2>6 DEF InodeInv, InodeTypes
  <2>2. OthersStay(c)
    BY <1>1 DEF InodeInv, InodeTypes, OthersStay
  <2>3. InumsStay /\ SlotInv' /\ NamedAllocated'
    BY <1>1 DEF InodeInv, InumsStay, SlotInv, NamedAllocated
  <2> QED
    BY <2>1, <2>2, <2>3
<1>4. RefInv' /\ FileInv'
  BY <1>1, PointersStay, FileFrame DEF InodeInv
<1>5. PlaceInv'
  <2>1. Place(c)'
    BY <1>1 DEF InodeInv, InodeTypes, PlaceInv, Place, InIput
  <2> QED
    BY <1>3, <2>1, PlaceFrame DEF InodeInv
<1>6. InodeLockInv'
  BY <1>1, <1>2, InodeFinite DEF InodeInv, InodeTypes, InodeLockInv, HasLock
<1>7. CopyInv'
  <2> SUFFICES ASSUME NEW s \in Slots PROVE CopyAt(s)'
    BY DEF CopyInv
  <2>1. CASE slot[s].ref > 0
    BY <1>1, <1>3, <2>1, CopyKept
  <2> QED
    BY <1>1, <2>1 DEF CopyAt
<1>8. FreeInv'
  <2>1. where'[c] = "ifree" => LastUser(put[c])'
    BY <1>1 DEF LastUser, InodeInv, InodeTypes
  <2> QED
    BY <1>1, <1>3, <2>1, FreeFrame
<1>9. UsedAllocated'
  BY <1>1 DEF InodeInv, UsedAllocated
<1>10. LinkInv' /\ DirInv'
  <2>1. where'[c] \in {"ifree", "iunref"}
    BY <1>1 DEF InodeInv, InodeTypes
  <2>2. Pending(c) <=> Pending(c)'
    BY <1>1, <2>1 DEF Pending
  <2> QED
    BY <1>1, <1>3, <1>4, <2>1, <2>2, LinkFrame, DirQuiet
<1> QED
  BY <1>3, <1>4, <1>5, <1>6, <1>7, <1>8, <1>9, <1>10 DEF InodeInv

\* Nobody but iput has a pointer to the inode that is freed, and no name leads
\* to it.
LEMMA IputFreeKeeps ==
    ASSUME InodeInv, NEW c \in Callers, IputFree(c)
    PROVE  InodeInv'
<1>0. PICK s, n : s = put[c] /\ n = slot[s].inum
  OBVIOUS
<1>1. /\ where[c] = "ifree" /\ where' = [where EXCEPT ![c] = "ivalid"]
      /\ slot' = [slot EXCEPT ![s].copy.type = 0]
      /\ dinode' = [dinode EXCEPT ![n] = FreeDinode]
      /\ UNCHANGED <<dir, dirLock, ilockedBy, file, fds, ip, put, arg>>
  BY <1>0 DEF IputFree, Goto
<1>2. /\ s \in Slots /\ slot[s].ref = 1 /\ n \in DInums /\ slot[s].copy = dinode[n]
      /\ dinode[n].type # 0 /\ dinode[n].nlink = 0 /\ NameLinks(n) = {} /\ InFlight(n) = {}
      /\ FileUsers(s) = {} /\ IpUsers(s) = {} /\ PutUsers(s) = {c}
  BY <1>0, <1>1, Freeing
<1>3. \A t \in Slots \ {s} : slot'[t] = slot[t] /\ (slot[t].ref > 0 => slot[t].inum # n)
  BY <1>0, <1>1, <1>2 DEF InodeInv, InodeTypes, SlotInv
<1>4. slot'[s] \in Entries /\ slot'[s].ref = slot[s].ref /\ slot'[s].inum = n
  <2>1. slot[s] \in Entries /\ slot[s].copy \in Dinodes
    BY <1>2 DEF InodeInv, InodeTypes, Entries
  <2>2. [slot[s].copy EXCEPT !.type = 0] \in Dinodes
    BY <2>1 DEF Dinodes
  <2>3. slot'[s] = [slot[s] EXCEPT !.copy = [slot[s].copy EXCEPT !.type = 0]]
    BY <1>1, <1>2 DEF InodeInv, InodeTypes
  <2> QED
    BY <1>0, <2>1, <2>2, <2>3 DEF Entries
<1>5. dinode' \in [DInums -> Dinodes] /\ \A k \in DInums : dinode'[k].nlink = dinode[k].nlink
  BY <1>1, <1>2 DEF InodeInv, InodeTypes, Dinodes, FreeDinode
<1>6. slot' \in [Slots -> Entries]
  BY <1>1, <1>3, <1>4 DEF InodeInv, InodeTypes
<1>7. InodeTypes' /\ OthersStay(c) /\ InumsStay
  BY <1>0, <1>1, <1>3, <1>4, <1>5, <1>6 DEF InodeInv, InodeTypes, Places, OthersStay, InumsStay
<1>8. SlotInv' /\ \A t \in Slots : slot'[t].ref = slot[t].ref /\ slot'[t].inum = slot[t].inum
  BY <1>0, <1>3, <1>4 DEF InodeInv, SlotInv
<1>9. NamedAllocated'
  BY <1>1, <1>2 DEF InodeInv, InodeTypes, NamedAllocated, NameLinks
<1>10. RefInv' /\ FileInv'
  BY <1>1, <1>8, PointersStay, FileFrame DEF InodeInv
<1>11. PlaceInv' /\ InodeLockInv'
  <2>1. Place(c)'
    BY <1>1 DEF InodeInv, InodeTypes, PlaceInv, Place, InIput
  <2>2. InodeLockInv'
    BY <1>1 DEF InodeInv, InodeTypes, InodeLockInv, HasLock
  <2> QED
    BY <1>7, <2>1, <2>2, PlaceFrame DEF InodeInv
<1>12. CopyInv'
  <2> SUFFICES ASSUME NEW t \in Slots PROVE CopyAt(t)'
    BY DEF CopyInv
  <2>1. CASE t = s
    BY <1>0, <1>1, <2>1 DEF CopyAt, InodeInv, InodeTypes
  <2>2. CASE t # s /\ slot[t].ref > 0
    <3>1. dinode'[slot[t].inum] = dinode[slot[t].inum]
      BY <1>1, <1>3, <2>2 DEF InodeInv, InodeTypes, SlotInv
    <3> QED
      BY <1>0, <1>1, <1>3, <1>7, <2>2, <3>1, CopyKept
  <2> QED
    BY <1>3, <2>1, <2>2 DEF CopyAt
<1>13. FreeInv'
  <2>1. where'[c] = "ivalid"
    BY <1>1 DEF InodeInv, InodeTypes
  <2> QED
    BY <1>0, <1>3, <1>7, <2>1, FreeFrame
<1>14. UsedAllocated'
  <2>1. \A t \in Slots : slot[t].ref > 0 /\ dinode[slot[t].inum].type # 0 =>
              \/ dinode'[slot[t].inum].type # 0
              \/ FileUsers(t) = {} /\ IpUsers(t) = {}
    BY <1>1, <1>2, <1>3 DEF InodeInv, InodeTypes, SlotInv
  <2>2. ip'[c] # 0 => dinode'[slot'[ip'[c]].inum].type # 0
    <3> SUFFICES ASSUME ip[c] # 0 PROVE dinode'[slot[ip[c]].inum].type # 0
      BY <1>1, <1>8, Referenced DEF InodeInv, PointersCounted
    <3>1. ip[c] \in Slots \ {s} /\ slot[ip[c]].ref > 0
      BY <1>2, Referenced DEF InodeInv, PointersCounted, IpUsers
    <3>2. dinode[slot[ip[c]].inum].type # 0 /\ slot[ip[c]].inum # n /\ slot[ip[c]].inum \in DInums
      BY <1>3, <3>1 DEF InodeInv, UsedAllocated, SlotInv
    <3> QED
      BY <1>1, <3>2 DEF InodeInv, InodeTypes
  <2> QED
    BY <1>1, <1>7, <1>10, <2>1, <2>2, AllocFrame
<1>15. LinkInv' /\ DirInv'
  <2>1. where'[c] = "ivalid"
    BY <1>1 DEF InodeInv, InodeTypes
  <2>2. Pending(c) <=> Pending(c)'
    BY <1>1, <2>1 DEF Pending
  <2> QED
    BY <1>1, <1>5, <1>7, <1>10, <2>1, <2>2, LinkFrame, DirQuiet
<1> QED
  BY <1>7, <1>8, <1>9, <1>10, <1>11, <1>12, <1>13, <1>14, <1>15 DEF InodeInv

\* The freed inode's entry is marked not valid before its lock is given up.
LEMMA IputInvalidKeeps ==
    ASSUME InodeInv, NEW c \in Callers, IputInvalid(c)
    PROVE  InodeInv'
<1>0. PICK s : s = put[c]
  OBVIOUS
<1>1. /\ where[c] = "ivalid" /\ where' = [where EXCEPT ![c] = "iunref"]
      /\ slot' = [slot EXCEPT ![s].valid = FALSE]
      /\ ilockedBy' = [ilockedBy EXCEPT ![s] = Unheld]
      /\ UNCHANGED <<dinode, dir, dirLock, file, fds, ip, put, arg>>
  BY <1>0 DEF IputInvalid, Goto
<1>2. s \in Slots
  BY <1>0, <1>1, Referenced DEF InodeInv, PlaceInv, Place, InIput, PointersCounted
<1>3. \A t \in Slots \ {s} : slot'[t] = slot[t]
  BY <1>1, <1>2 DEF InodeInv, InodeTypes
<1>4. /\ slot'[s] \in Entries /\ slot'[s].ref = slot[s].ref /\ slot'[s].inum = slot[s].inum
      /\ ~slot'[s].valid
  BY <1>1, <1>2 DEF InodeInv, InodeTypes, Entries
<1>5. \A t \in Slots : slot'[t].ref = slot[t].ref /\ slot'[t].inum = slot[t].inum
  BY <1>3, <1>4
<1>6. slot' \in [Slots -> Entries]
  BY <1>1, <1>3, <1>4 DEF InodeInv, InodeTypes
<1>7. InodeTypes' /\ OthersStay(c) /\ InumsStay /\ NamedAllocated'
  BY <1>1, <1>2, <1>5, <1>6 DEF InodeInv, InodeTypes, Places, OthersStay, InumsStay, NamedAllocated
<1>8. SlotInv'
  BY <1>5 DEF InodeInv, SlotInv
<1>9. RefInv' /\ FileInv'
  BY <1>1, <1>5, PointersStay, FileFrame DEF InodeInv
<1>10. PlaceInv' /\ InodeLockInv'
  <2>1. Place(c)'
    BY <1>1 DEF InodeInv, InodeTypes, PlaceInv, Place, InIput
  <2>2. InodeLockInv'
    BY <1>0, <1>1, <1>2, InodeFinite DEF InodeInv, InodeTypes, InodeLockInv, HasLock
  <2> QED
    BY <1>7, <2>1, <2>2, PlaceFrame DEF InodeInv
<1>11. CopyInv'
  <2> SUFFICES ASSUME NEW t \in Slots PROVE CopyAt(t)'
    BY DEF CopyInv
  <2>1. CASE t = s
    BY <1>4, <2>1 DEF CopyAt
  <2>2. CASE t # s /\ slot[t].ref > 0
    BY <1>0, <1>1, <1>3, <1>7, <2>2, CopyKept
  <2> QED
    BY <1>3, <2>1, <2>2 DEF CopyAt
<1>12. where'[c] = "iunref"
  BY <1>1 DEF InodeInv, InodeTypes
<1>13. FreeInv'
  BY <1>0, <1>3, <1>7, <1>12, FreeFrame
<1>14. UsedAllocated'
  <2>1. ip'[c] # 0 => dinode'[slot'[ip'[c]].inum].type # 0
    BY <1>1, <1>5, Referenced DEF InodeInv, PointersCounted, UsedAllocated
  <2> QED
    BY <1>1, <1>7, <1>9, <2>1, AllocFrame
<1>15. LinkInv' /\ DirInv'
  <2>1. Pending(c) <=> Pending(c)'
    BY <1>1, <1>12 DEF Pending
  <2> QED
    BY <1>1, <1>7, <1>9, <1>12, <2>1, LinkFrame, DirQuiet
<1> QED
  BY <1>7, <1>8, <1>9, <1>10, <1>11, <1>13, <1>14, <1>15 DEF InodeInv

\* ref--: an entry that nobody points to any more is unused.
LEMMA IputUnrefKeeps ==
    ASSUME InodeInv, NEW c \in Callers, IputUnref(c)
    PROVE  InodeInv'
<1>0. PICK s : s = put[c]
  OBVIOUS
<1>1. /\ where[c] = "iunref"
      /\ slot' = [slot EXCEPT ![s] = IF slot[s].ref > 1 THEN [slot[s] EXCEPT !.ref = @ - 1]
                                     ELSE EmptySlot]
      /\ put' = [put EXCEPT ![c] = 0]
      /\ \/ dirLock = c /\ dirLock' = Unheld /\ where' = [where EXCEPT ![c] = "linkbad"]
            /\ ip' = ip
         \/ dirLock # c /\ where' = [where EXCEPT ![c] = "user"]
            /\ ip' = [ip EXCEPT ![c] = 0] /\ UNCHANGED dirLock
      /\ UNCHANGED <<dinode, dir, ilockedBy, file, fds, arg>>
  BY <1>0 DEF IputUnref, Goto
<1>2. s \in Slots /\ s # 0 /\ slot[s].ref > 0 /\ slot[s] \in Entries
  BY <1>0, <1>1, Referenced DEF InodeInv, PlaceInv, Place, InIput, PointersCounted, InodeTypes
<1>3. ip' = ip
  BY <1>1 DEF InodeInv, InodeTypes, PlaceInv, Place, InIput
<1>4. \A t \in Slots \ {s} : slot'[t] = slot[t]
  BY <1>1, <1>2 DEF InodeInv, InodeTypes
<1>5. /\ slot'[s] \in Entries /\ slot'[s].ref = slot[s].ref - 1
      /\ slot'[s].ref > 0 => /\ slot'[s].inum = slot[s].inum
                             /\ slot'[s].valid = slot[s].valid /\ slot'[s].copy = slot[s].copy
  <2>1. CASE slot[s].ref > 1
    <3>1. slot'[s] = [slot[s] EXCEPT !.ref = @ - 1]
      BY <1>1, <1>2, <2>1 DEF InodeInv, InodeTypes
    <3>2. slot[s].ref - 1 \in Nat
      BY <1>2, <2>1 DEF Entries
    <3> QED
      BY <1>2, <2>1, <3>1, <3>2 DEF Entries
  <2>2. CASE ~(slot[s].ref > 1)
    <3>1. slot'[s] = EmptySlot
      BY <1>1, <1>2, <2>2 DEF InodeInv, InodeTypes
    <3>2. slot[s].ref = 1
      BY <1>2, <2>2 DEF Entries
    <3>3. EmptySlot \in Entries /\ EmptySlot.ref = 0
      BY DEF EmptySlot, Entries, FreeDinode, Dinodes
    <3> QED
      BY <3>1, <3>2, <3>3
  <2> QED
    BY <2>1, <2>2
<1>6. slot' \in [Slots -> Entries]
  BY <1>1, <1>4, <1>5 DEF InodeInv, InodeTypes
<1>7. InodeTypes'
  BY <1>1, <1>3, <1>6 DEF InodeInv, InodeTypes, Places
<1>8. OthersStay(c)
  BY <1>1, <1>3, InodeFinite DEF InodeInv, InodeTypes, OthersStay
<1>9. InumsStay /\ SlotInv'
  BY <1>4, <1>5, <1>2 DEF InodeInv, InumsStay, SlotInv
<1>10. RefInv'
  <2> SUFFICES ASSUME NEW t \in Slots
               PROVE  slot'[t].ref = Cardinality(FileUsers(t)') + Cardinality(IpUsers(t)')
                                     + Cardinality(PutUsers(t)')
    BY DEF RefInv
  <2>1. FileUsers(t)' = FileUsers(t) /\ IpUsers(t)' = IpUsers(t)
    BY <1>1, <1>3 DEF FileUsers, IpUsers
  <2>2. Cardinality(PutUsers(t)') = Cardinality(PutUsers(t)) - One(put[c] = t) + One(put'[c] = t)
    BY <1>1, <1>3, <1>8, UsersMove DEF InodeInv, OthersStay
  <2>3. put'[c] # t /\ (put[c] = t <=> t = s)
    BY <1>0, <1>1, InodeFinite DEF InodeInv, InodeTypes
  <2>4. slot[t].ref = Cardinality(FileUsers(t)) + Cardinality(IpUsers(t))
                      + Cardinality(PutUsers(t))
    BY DEF InodeInv, RefInv
  <2>5. /\ Cardinality(FileUsers(t)) \in Nat /\ Cardinality(IpUsers(t)) \in Nat
        /\ Cardinality(PutUsers(t)) \in Nat
    BY Counted DEF InodeInv
  <2>6. slot'[t].ref = slot[t].ref - One(t = s)
    BY <1>2, <1>4, <1>5, <2>4, <2>5 DEF One
  <2> QED
    BY <2>1, <2>2, <2>3, <2>4, <2>5, <2>6 DEF One
<1>11. FileInv' /\ NamedAllocated'
  BY <1>1, FileFrame DEF InodeInv, NamedAllocated
<1>12. PlaceInv'
  <2>1. Place(c)'
    BY <1>1, <1>3, InodeFinite DEF InodeInv, InodeTypes, PlaceInv, Place, InIput
  <2> QED
    BY <1>8, <2>1, PlaceFrame DEF InodeInv
<1>13. InodeLockInv'
  <2> SUFFICES ASSUME NEW e \in Callers, NEW t \in Slots
               PROVE  ilockedBy'[t] = e <=> HasLock(e, t)'
    BY DEF InodeLockInv
  <2>1. where'[c] \in {"linkbad", "user"}
    BY <1>1 DEF InodeInv, InodeTypes
  <2>2. HasLock(e, t) <=> HasLock(e, t)'
    BY <1>1, <1>8, <2>1 DEF OthersStay, HasLock
  <2> QED
    BY <1>1, <2>2 DEF InodeInv, InodeLockInv
<1>14. CopyInv'
  <2> SUFFICES ASSUME NEW t \in Slots, slot'[t].ref > 0 PROVE CopyAt(t)'
    BY DEF CopyInv, CopyAt
  <2>1. slot[t].ref > 0
    BY <1>2, <1>4 
  <2> QED
    BY <1>1, <1>4, <1>5, <1>8, <2>1, CopyKept
<1>15. FreeInv'
  BY <1>0, <1>1, <1>4, <1>8, FreeFrame DEF InodeInv, InodeTypes
<1>16. UsedAllocated'
  <2>1. ip'[c] # 0 => dinode'[slot'[ip'[c]].inum].type # 0
    <3> SUFFICES ASSUME ip[c] # 0 PROVE dinode[slot'[ip[c]].inum].type # 0
      BY <1>1, <1>3
    <3>1. ip[c] \in Slots /\ slot[ip[c]].ref > 0 /\ slot'[ip[c]].ref > 0
      BY <1>3, <1>7, <1>10, Referenced, ReferencedNext DEF InodeInv, PointersCounted
    <3> QED
      BY <1>9, <3>1 DEF InumsStay, InodeInv, UsedAllocated
  <2> QED
    BY <1>1, <1>7, <1>8, <1>9, <1>10, <2>1, AllocFrame
<1>17. LinkInv' /\ DirInv'
  <2>1. where'[c] \in {"linkbad", "user"}
    BY <1>1 DEF InodeInv, InodeTypes
  <2>2. Pending(c) <=> Pending(c)'
    BY <1>0, <1>1, <1>2, InodeFinite DEF InodeInv, InodeTypes, Pending
  <2> QED
    BY <1>1, <1>3, <1>7, <1>8, <1>9, <1>10, <2>1, <2>2, LinkFrame, DirQuiet
<1> QED
  BY <1>7, <1>9, <1>10, <1>11, <1>12, <1>13, <1>14, <1>15, <1>16, <1>17 DEF InodeInv

-----------------------------------------------------------------------------
(* Lookups.                                                                *)

\* A name's inode has a link.
LEMMA NamedLinked ==
    ASSUME InodeInv, NEW m \in Names, dir[m] # 0
    PROVE  dir[m] \in DInums /\ dinode[dir[m]].nlink > 0 /\ dinode[dir[m]].type # 0
<1>1. dir[m] \in DInums
  BY DEF InodeInv, InodeTypes
<1>2. IsFiniteSet(NameLinks(dir[m])) /\ IsFiniteSet(InFlight(dir[m]))
  BY InodeFinite, FS_Subset DEF NameLinks, InFlight
<1>3. NameLinks(dir[m]) # {}
  BY DEF NameLinks
<1>4. /\ Cardinality(NameLinks(dir[m])) \in Nat /\ Cardinality(InFlight(dir[m])) \in Nat
      /\ Cardinality(NameLinks(dir[m])) # 0
  BY <1>2, <1>3, FS_EmptySet, FS_CardinalityType
<1>5. dinode[dir[m]].nlink = Cardinality(NameLinks(dir[m])) + Cardinality(InFlight(dir[m]))
  BY <1>1 DEF InodeInv, LinkInv
<1> QED
  BY <1>1, <1>4, <1>5 DEF InodeInv, NamedAllocated

\* The cache after iget, with one more pointer to the entry.
LEMMA IgetKeeps ==
    ASSUME InodeInv, NEW n \in DInums, NEW s, s = IgetSlot(n), slot' = Iget(n)
    PROVE  /\ s \in Slots /\ slot'[s].inum = n
           /\ slot' \in [Slots -> Entries] /\ SlotInv' /\ InumsStay
           /\ \A t \in Slots : slot'[t].ref = slot[t].ref + One(t = s)
           /\ \A t \in Slots \ {s} : slot'[t] = slot[t] /\ (slot[t].ref > 0 => slot[t].inum # n)
           /\ slot[s].ref > 0 => /\ slot[s].inum = n
                                 /\ slot'[s].valid = slot[s].valid /\ slot'[s].copy = slot[s].copy
           /\ ~(slot[s].ref > 0) => ~slot'[s].valid
<1>1. /\ s \in Slots /\ (slot[s].ref > 0 => slot[s].inum = n)
      /\ \A t \in Slots \ {s} : slot[t].ref > 0 => slot[t].inum # n
      /\ \E r \in Entries :
            /\ Iget(n) = [slot EXCEPT ![s] = r]
            /\ r.inum = n /\ r.ref = slot[s].ref + 1 /\ r.copy = slot[s].copy
            /\ r.valid <=> slot[s].ref > 0 /\ slot[s].valid
  BY IgetFacts DEF InodeInv
<1>2. PICK r \in Entries :
            /\ Iget(n) = [slot EXCEPT ![s] = r]
            /\ r.inum = n /\ r.ref = slot[s].ref + 1 /\ r.copy = slot[s].copy
            /\ r.valid <=> slot[s].ref > 0 /\ slot[s].valid
  BY <1>1
<1>3. slot'[s] = r /\ \A t \in Slots \ {s} : slot'[t] = slot[t]
  BY <1>1, <1>2 DEF InodeInv, InodeTypes
<1>4. slot' \in [Slots -> Entries] /\ slot \in [Slots -> Entries]
  BY <1>2 DEF InodeInv, InodeTypes
<1>5. \A t \in Slots : slot[t].ref \in Nat /\ slot'[t].ref = slot[t].ref + One(t = s)
  BY <1>2, <1>3, <1>4 DEF One, Entries
<1>6. SlotInv' /\ InumsStay
  BY <1>1, <1>2, <1>3 DEF InodeInv, SlotInv, InumsStay
<1>7. slot[s].ref > 0 => slot'[s].valid = slot[s].valid
  <2>1. slot[s].valid \in BOOLEAN /\ r.valid \in BOOLEAN
    BY <1>1, <1>4 DEF Entries
  <2> QED
    BY <1>2, <1>3, <2>1
<1>8. slot[s].ref > 0 => slot'[s].copy = slot[s].copy
  BY <1>2, <1>3
<1> QED
  BY <1>1, <1>2, <1>3, <1>4, <1>5, <1>6, <1>7, <1>8

\* The counts after iget gave the process a pointer that it did not have.
LEMMA IgetCounted ==
    ASSUME InodeInv, NEW c \in Callers, NEW s \in Slots, OthersStay(c), UNCHANGED file,
           \A t \in Slots : slot'[t].ref = slot[t].ref + One(t = s),
           \/ ip[c] = 0 /\ ip'[c] = s /\ put'[c] = put[c]
           \/ put[c] = 0 /\ put'[c] = s /\ ip'[c] = ip[c]
    PROVE  RefInv'
<1> SUFFICES ASSUME NEW t \in Slots
             PROVE  slot'[t].ref = Cardinality(FileUsers(t)') + Cardinality(IpUsers(t)')
                                   + Cardinality(PutUsers(t)')
  BY DEF RefInv
<1>1. FileUsers(t)' = FileUsers(t)
  BY DEF FileUsers
<1>2. /\ Cardinality(IpUsers(t)')
           = Cardinality(IpUsers(t)) - One(ip[c] = t) + One(ip'[c] = t)
      /\ Cardinality(PutUsers(t)')
           = Cardinality(PutUsers(t)) - One(put[c] = t) + One(put'[c] = t)
  BY UsersMove DEF InodeInv, OthersStay
<1>3. slot[t].ref = Cardinality(FileUsers(t)) + Cardinality(IpUsers(t))
                      + Cardinality(PutUsers(t))
  BY DEF InodeInv, RefInv
<1>4. /\ Cardinality(FileUsers(t)) \in Nat /\ Cardinality(IpUsers(t)) \in Nat
      /\ Cardinality(PutUsers(t)) \in Nat
  BY Counted DEF InodeInv
<1>5. t # 0 /\ s # 0
  BY InodeFinite
<1> QED
  BY <1>1, <1>2, <1>3, <1>4, <1>5 DEF One

\* The copies after iget.
LEMMA IgetCopies ==
    ASSUME InodeInv, NEW n \in DInums, NEW s \in Slots, NEW c \in Callers, OthersStay(c),
           \A t \in Slots \ {s} : slot'[t] = slot[t] /\ (slot[t].ref > 0 => slot[t].inum # n),
           slot'[s].inum = n,
           slot[s].ref > 0 => /\ slot[s].inum = n
                              /\ slot'[s].valid = slot[s].valid /\ slot'[s].copy = slot[s].copy,
           ~(slot[s].ref > 0) => ~slot'[s].valid,
           \A k \in DInums \ {n} : dinode'[k] = dinode[k],
           dinode'[n] = dinode[n] \/ dinode[n].type = 0,
           where[c] # "ivalid"
    PROVE  CopyInv'
<1> SUFFICES ASSUME NEW t \in Slots, slot'[t].ref > 0 PROVE CopyAt(t)'
  BY DEF CopyInv, CopyAt
<1>1. CASE t # s
  <2>1. slot[t].ref > 0 /\ slot[t].inum \in DInums \ {n}
    BY <1>1 DEF InodeInv, SlotInv
  <2> QED
    BY <1>1, <2>1, CopyKept
<1>2. CASE t = s /\ slot[s].ref > 0 /\ dinode'[n] = dinode[n]
  BY <1>2, CopyKept
<1>3. CASE t = s /\ slot[s].ref > 0 /\ dinode[n].type = 0
  <2>1. ~slot[s].valid \/ \E e \in Callers : where[e] = "ivalid" /\ put[e] = s
    BY <1>3 DEF InodeInv, CopyInv, CopyAt
  <2> QED
    BY <1>3, <2>1 DEF OthersStay, CopyAt
<1>4. CASE t = s /\ ~(slot[s].ref > 0)
  BY <1>4 DEF CopyAt
<1> QED
  BY <1>1, <1>2, <1>3, <1>4

\* open, link and unlink look a name up: they get a pointer to an allocated
\* inode that nobody is freeing.
LEMMA NameiKeeps ==
    ASSUME InodeInv, NEW c \in Callers, NEW m \in Names, NEW next \in {"open", "link", "unlink"},
           Namei(c, m, next), UNCHANGED <<dinode, dir, ilockedBy, file, fds, put>>,
           IF next = "unlink" THEN dirLock' = c ELSE dirLock' = dirLock,
           \/ next = "open" /\ arg' = arg
           \/ next = "link" /\ \E k \in Names : arg' = [arg EXCEPT ![c] = k]
           \/ next = "unlink" /\ arg' = [arg EXCEPT ![c] = m]
    PROVE  InodeInv'
<1>0. PICK n, s : n = dir[m] /\ s = IgetSlot(n)
  OBVIOUS
<1>1. /\ where[c] = "user" /\ dirLock = Unheld /\ n # 0 /\ slot' = Iget(n)
      /\ ip' = [ip EXCEPT ![c] = s] /\ where' = [where EXCEPT ![c] = next]
  BY <1>0 DEF Namei, Goto
<1>2. n \in DInums /\ dinode[n].nlink > 0 /\ dinode[n].type # 0
  BY <1>0, <1>1, NamedLinked
<1>3. /\ s \in Slots /\ slot'[s].inum = n
      /\ slot' \in [Slots -> Entries] /\ SlotInv' /\ InumsStay
      /\ \A t \in Slots : slot'[t].ref = slot[t].ref + One(t = s)
      /\ \A t \in Slots \ {s} : slot'[t] = slot[t] /\ (slot[t].ref > 0 => slot[t].inum # n)
      /\ slot[s].ref > 0 => /\ slot[s].inum = n
                            /\ slot'[s].valid = slot[s].valid /\ slot'[s].copy = slot[s].copy
      /\ ~(slot[s].ref > 0) => ~slot'[s].valid
  BY <1>0, <1>1, <1>2, IgetKeeps
<1>4. ip[c] = 0 /\ put[c] = 0 /\ dirLock # c /\ \A e \in Callers : dirLock # e
  BY <1>1, InodeFinite DEF InodeInv, PlaceInv, Place, InIput
<1>5. /\ where'[c] = next /\ ip'[c] = s /\ put'[c] = 0
      /\ next # "open" => arg'[c] \in Names
      /\ next = "unlink" => arg'[c] = m /\ dirLock' = c
      /\ next # "unlink" => dirLock' # c
  BY <1>1, <1>4 DEF InodeInv, InodeTypes
<1>6. OthersStay(c)
  BY <1>1, <1>4 DEF InodeInv, InodeTypes, OthersStay
<1>7. InodeTypes'
  <2>1. /\ where' \in [Callers -> Places] /\ ip' \in [Callers -> Slots \cup {0}]
        /\ dirLock' \in Callers \cup {Unheld}
    BY <1>1, <1>3 DEF InodeInv, InodeTypes, Places
  <2>2. arg' \in [Callers -> Names \cup {AnyName}]
    BY DEF InodeInv, InodeTypes
  <2> QED
    BY <1>3, <2>1, <2>2 DEF InodeInv, InodeTypes
<1>8. RefInv'
  BY <1>3, <1>4, <1>5, <1>6, IgetCounted
<1>9. FileInv' /\ NamedAllocated'
  BY FileFrame DEF InodeInv, NamedAllocated
<1>10. PlaceInv'
  <2>1. Place(c)'
    BY <1>3, <1>5, InodeFinite DEF Place, InIput
  <2> QED
    BY <1>6, <2>1, PlaceFrame DEF InodeInv
<1>11. InodeLockInv'
  <2> SUFFICES ASSUME NEW e \in Callers, NEW t \in Slots
               PROVE  ilockedBy'[t] = e <=> HasLock(e, t)'
    BY DEF InodeLockInv
  <2>1. HasLock(e, t) <=> HasLock(e, t)'
    BY <1>1, <1>5, <1>6 DEF OthersStay, HasLock
  <2> QED
    BY <2>1 DEF InodeInv, InodeLockInv
<1>12. CopyInv'
  BY <1>1, <1>2, <1>3, <1>6, IgetCopies
<1>13. FreeInv'
  <2>1. ~\E e \in Callers : where[e] = "ifree" /\ put[e] = s
    <3> SUFFICES ASSUME NEW e \in Callers, where[e] = "ifree", put[e] = s PROVE FALSE
      OBVIOUS
    <3>1. slot[s].ref = 1 /\ dinode[slot[s].inum].nlink = 0
      BY Freeing
    <3> QED
      BY <1>2, <1>3, <3>1
  <2> QED
    BY <1>3, <1>5, <1>6, <2>1, FreeFrame
<1>14. UsedAllocated'
  BY <1>2, <1>3, <1>5, <1>6, <1>7, <1>8, AllocFrame
<1>15. LinkInv'
  <2>1. ~Pending(c) /\ ~Pending(c)'
    BY <1>1, <1>4, <1>5 DEF Pending
  <2> QED
    BY <1>3, <1>6, <1>7, <1>8, <2>1, LinkFrame
<1>16. DirInv'
  <2>1. \A e \in Callers : where[e] \notin {"create", "unlink"}
    BY <1>4 DEF InodeInv, PlaceInv, Place
  <2>2. DirAt(c)'
    BY <1>0, <1>3, <1>5 DEF DirAt
  <2> QED
    BY <1>3, <1>6, <1>7, <1>8, <2>1, <2>2, DirFrame
<1> QED
  BY <1>3, <1>7, <1>8, <1>9, <1>10, <1>11, <1>12, <1>13, <1>14, <1>15, <1>16 DEF InodeInv

\* A free inode has no link and no user.
LEMMA FreeInode ==
    ASSUME InodeInv, NEW n \in DInums, dinode[n].type = 0
    PROVE  /\ dinode[n].nlink = 0 /\ \A m \in Names : dir[m] # n
           /\ \A s \in Slots : slot[s].ref > 0 /\ slot[s].inum = n =>
                 FileUsers(s) = {} /\ IpUsers(s) = {}
<1>1. \A m \in Names : dir[m] # n
  BY InodeFinite DEF InodeInv, NamedAllocated
<1>2. ASSUME NEW s \in Slots, slot[s].ref > 0, slot[s].inum = n
      PROVE  FileUsers(s) = {} /\ IpUsers(s) = {}
  <2>1. \A f \in Files : file[f].ref > 0 => file[f].ip # s
    BY <1>2 DEF InodeInv, UsedAllocated
  <2>2. \A c \in Callers : ip[c] # s
    BY <1>2, InodeFinite DEF InodeInv, UsedAllocated
  <2> QED
    BY <2>1, <2>2 DEF FileUsers, IpUsers
<1>3. InFlight(n) = {}
  <2> SUFFICES ASSUME NEW c \in Callers, Pending(c), slot[ip[c]].inum = n PROVE FALSE
    BY DEF InFlight
  <2>1. ip[c] # 0
    BY DEF Pending, InodeInv, PlaceInv, Place, InIput
  <2> QED
    BY <2>1 DEF InodeInv, UsedAllocated
<1>4. NameLinks(n) = {}
  BY <1>1 DEF NameLinks
<1>5. Cardinality({}) = 0
  BY FS_EmptySet
<1>6. dinode[n].nlink = 0
  BY <1>3, <1>4, <1>5 DEF InodeInv, LinkInv
<1> QED
  BY <1>1, <1>2, <1>6

\* create allocates an inode that nobody uses, although its old entry may not
\* be gone yet.
LEMMA CreateKeeps ==
    ASSUME InodeInv, NEW c \in Callers, NEW m \in Names, Create(c, m)
    PROVE  InodeInv'
<1>0. PICK n, s : n = First({k \in DInums : dinode[k].type = 0}) /\ s = IgetSlot(n)
  OBVIOUS
<1>1. /\ where[c] = "user" /\ dirLock = Unheld /\ dir[m] = 0
      /\ {k \in DInums : dinode[k].type = 0} # {}
      /\ dinode' = [dinode EXCEPT ![n] = [type |-> 1, nlink |-> 0]]
      /\ slot' = Iget(n) /\ ip' = [ip EXCEPT ![c] = s]
      /\ dirLock' = c /\ arg' = [arg EXCEPT ![c] = m]
      /\ where' = [where EXCEPT ![c] = "create"]
      /\ UNCHANGED <<dir, ilockedBy, file, fds, put>>
  BY <1>0 DEF Create, Goto
<1>2. n \in DInums /\ dinode[n].type = 0
  <2>1. {k \in DInums : dinode[k].type = 0} \subseteq Nat
    BY InodeFinite
  <2> QED
    BY <1>0, <1>1, <2>1, FirstIn
<1>3. /\ s \in Slots /\ slot'[s].inum = n
      /\ slot' \in [Slots -> Entries] /\ SlotInv' /\ InumsStay
      /\ \A t \in Slots : slot'[t].ref = slot[t].ref + One(t = s)
      /\ \A t \in Slots \ {s} : slot'[t] = slot[t] /\ (slot[t].ref > 0 => slot[t].inum # n)
      /\ slot[s].ref > 0 => /\ slot[s].inum = n
                            /\ slot'[s].valid = slot[s].valid /\ slot'[s].copy = slot[s].copy
      /\ ~(slot[s].ref > 0) => ~slot'[s].valid
  <2>1. s = IgetSlot(n) /\ slot' = Iget(n)
    BY <1>0, <1>1
  <2> QED
    BY <1>2, <2>1, IgetKeeps
<1>4. ip[c] = 0 /\ put[c] = 0 /\ dirLock # c /\ \A e \in Callers : dirLock # e
  BY <1>1, InodeFinite DEF InodeInv, PlaceInv, Place, InIput
<1>5. where'[c] = "create" /\ ip'[c] = s /\ put'[c] = 0 /\ arg'[c] = m
  BY <1>1, <1>4 DEF InodeInv, InodeTypes
<1>6. OthersStay(c)
  BY <1>1, <1>4 DEF InodeInv, InodeTypes, OthersStay
<1>7. /\ dinode' \in [DInums -> Dinodes] /\ dinode'[n].type # 0
      /\ \A k \in DInums \ {n} : dinode'[k] = dinode[k]
      /\ \A k \in DInums : dinode'[k].nlink = dinode[k].nlink
      /\ dinode'[n].nlink = 0
  <2>1. dinode[n].nlink = 0
    BY <1>2, FreeInode
  <2> QED
    BY <1>1, <1>2, <2>1 DEF InodeInv, InodeTypes, Dinodes
<1>8. InodeTypes'
  <2>1. /\ where' \in [Callers -> Places] /\ ip' \in [Callers -> Slots \cup {0}]
        /\ arg' \in [Callers -> Names \cup {AnyName}]
    BY <1>1, <1>3 DEF InodeInv, InodeTypes, Places
  <2> QED
    BY <1>1, <1>3, <1>7, <2>1 DEF InodeInv, InodeTypes
<1>9. RefInv'
  BY <1>1, <1>3, <1>4, <1>5, <1>6, IgetCounted
<1>10. FileInv' /\ NamedAllocated' /\ \A t : FileUsers(t)' = FileUsers(t)
  <2>1. FileInv' /\ \A t : FileUsers(t)' = FileUsers(t)
    BY <1>1, FileFrame DEF InodeInv
  <2>2. NamedAllocated'
    BY <1>1, <1>7 DEF InodeInv, InodeTypes, NamedAllocated
  <2> QED
    BY <2>1, <2>2
<1>11. PlaceInv'
  <2>1. Place(c)'
    BY <1>1, <1>3, <1>5, InodeFinite DEF Place, InIput
  <2> QED
    BY <1>6, <2>1, PlaceFrame DEF InodeInv
<1>12. InodeLockInv'
  <2> SUFFICES ASSUME NEW e \in Callers, NEW t \in Slots
               PROVE  ilockedBy'[t] = e <=> HasLock(e, t)'
    BY DEF InodeLockInv
  <2>1. HasLock(e, t) <=> HasLock(e, t)'
    BY <1>1, <1>5, <1>6 DEF OthersStay, HasLock
  <2> QED
    BY <1>1, <2>1 DEF InodeInv, InodeLockInv
<1>13. CopyInv'
  BY <1>1, <1>2, <1>3, <1>6, <1>7, IgetCopies
<1>14. FreeInv'
  <2>1. ~\E e \in Callers : where[e] = "ifree" /\ put[e] = s
    <3> SUFFICES ASSUME NEW e \in Callers, where[e] = "ifree", put[e] = s PROVE FALSE
      OBVIOUS
    <3>1. slot[s].ref = 1 /\ dinode[slot[s].inum].type # 0
      BY Freeing
    <3> QED
      BY <1>2, <1>3, <3>1
  <2> QED
    BY <1>3, <1>5, <1>6, <2>1, FreeFrame
<1>15. UsedAllocated'
  <2>1. \A k \in DInums : dinode[k].type # 0 => dinode'[k].type # 0
    BY <1>7
  <2>2. \A t \in Slots : slot[t].ref > 0 => slot[t].inum \in DInums
    BY DEF InodeInv, SlotInv
  <2> QED
    BY <1>1, <1>3, <1>5, <1>6, <1>7, <1>8, <1>9, <2>1, <2>2, AllocFrame
<1>16. LinkInv'
  <2>1. ~Pending(c) /\ ~Pending(c)'
    BY <1>1, <1>4, <1>5 DEF Pending
  <2> QED
    BY <1>1, <1>3, <1>6, <1>7, <1>8, <1>9, <2>1, LinkFrame
<1>17. FileUsers(s) = {} /\ IpUsers(s) = {}
  <2>1. CASE slot[s].ref > 0
    BY <1>2, <1>3, <2>1, FreeInode
  <2>2. CASE ~(slot[s].ref > 0)
    <3>1. \A f \in Files : file[f].ref > 0 => file[f].ip \in Slots
      BY DEF InodeInv, FileInv
    <3>2. PointersCounted
      BY Referenced DEF InodeInv
    <3>3. s # 0
      BY <1>3, InodeFinite
    <3> QED
      BY <1>3, <2>2, <3>1, <3>2, <3>3 DEF PointersCounted, FileUsers, IpUsers
  <2> QED
    BY <2>1, <2>2
<1>18. DirInv'
  <2>1. \A e \in Callers : where[e] \notin {"create", "unlink"}
    BY <1>4 DEF InodeInv, PlaceInv, Place
  <2>2. DirAt(c)'
    <3>1. IpUsers(s)' = {c}
      <4>1. \A e \in Callers \ {c} : ip'[e] # s
        BY <1>6, <1>17 DEF OthersStay, IpUsers
      <4> QED
        BY <1>5, <4>1 DEF IpUsers
    <3>2. FileUsers(s)' = {}
      BY <1>10, <1>17
    <3>3. IpUsers(ip[c])' = {c} /\ FileUsers(ip[c])' = {}
      BY <1>5, <3>1, <3>2 DEF IpUsers, FileUsers
    <3> QED
      BY <1>1, <1>3, <1>5, <1>7, <3>3 DEF DirAt
  <2> QED
    BY <1>3, <1>6, <1>8, <1>9, <2>1, <2>2, DirFrame
<1> QED
  BY <1>3, <1>8, <1>9, <1>10, <1>11, <1>12, <1>13, <1>14, <1>15, <1>16, <1>18 DEF InodeInv

-----------------------------------------------------------------------------
(* Locked inodes.                                                          *)

\* The entry that a process locks: what ilock loads is the dinode.
LEMMA LockedEntry ==
    ASSUME InodeInv, NEW c \in Callers, ip[c] # 0,
           Lockable(ip[c]) \/ (where[c] = "unlinkput" /\ ilockedBy[ip[c]] = c)
    PROVE  /\ ip[c] \in Slots /\ slot[ip[c]].ref > 0 /\ slot[ip[c]].inum \in DInums
           /\ dinode[slot[ip[c]].inum].type # 0
           /\ Loaded(ip[c]).copy = dinode[slot[ip[c]].inum]
           /\ Loaded(ip[c]) \in Entries /\ Loaded(ip[c]).inum = slot[ip[c]].inum
           /\ Loaded(ip[c]).ref = slot[ip[c]].ref /\ Loaded(ip[c]).valid
           /\ ~\E e \in Callers : where[e] \in {"ifree", "ivalid"} /\ put[e] = ip[c]
<1>0. PICK s : s = ip[c]
  OBVIOUS
<1>1. s \in Slots /\ slot[s].ref > 0 /\ slot[s].inum \in DInums
  BY <1>0, Referenced DEF InodeInv, PointersCounted, SlotInv
<1>2. dinode[slot[s].inum].type # 0
  BY <1>0 DEF InodeInv, UsedAllocated
<1>3. ~\E e \in Callers : where[e] \in {"ifree", "ivalid"} /\ put[e] = s
  BY <1>0, <1>1, InodeFinite DEF InodeInv, InodeLockInv, HasLock, Lockable
<1>4. slot[s] \in Entries /\ dinode[slot[s].inum] \in Dinodes
  BY <1>1 DEF InodeInv, InodeTypes
<1>5. slot[s].valid => slot[s].copy = dinode[slot[s].inum]
  BY <1>1, <1>3 DEF InodeInv, CopyInv, CopyAt
<1>6. /\ Loaded(s).copy = dinode[slot[s].inum] /\ Loaded(s) \in Entries
      /\ Loaded(s).inum = slot[s].inum /\ Loaded(s).ref = slot[s].ref /\ Loaded(s).valid
  <2>1. CASE slot[s].valid
    BY <1>4, <1>5, <2>1 DEF Loaded
  <2>2. CASE ~slot[s].valid
    <3>1. Loaded(s) = [slot[s] EXCEPT !.valid = TRUE, !.copy = dinode[slot[s].inum]]
      BY <2>2 DEF Loaded
    <3>2. Loaded(s) \in Entries
      BY <1>4, <3>1 DEF Entries
    <3>3. /\ Loaded(s).copy = dinode[slot[s].inum]
          /\ Loaded(s).inum = slot[s].inum /\ Loaded(s).ref = slot[s].ref
      BY <1>4, <3>1 DEF Entries
    <3>4. Loaded(s).valid = TRUE
      BY <1>4, <3>1 DEF Entries
    <3> QED
      BY <3>2, <3>3, <3>4
  <2> QED
    BY <2>1, <2>2
<1> QED
  BY <1>0, <1>1, <1>2, <1>3, <1>6

\* The entry s and its dinode, and no others, may change, and agree.
Refreshed(s) ==
    /\ \A t \in Slots \ {s} : slot'[t] = slot[t]
    /\ \A t \in Slots : slot'[t].ref = slot[t].ref /\ slot'[t].inum = slot[t].inum
    /\ slot'[s].copy = dinode'[slot[s].inum] /\ slot'[s].copy.type # 0
    /\ \A n \in DInums : dinode'[n].type = dinode[n].type
    /\ \A n \in DInums \ {slot[s].inum} : dinode'[n] = dinode[n]

\* The new link count is the same in the entry and on the disk.
LEMMA RelinkFacts ==
    ASSUME InodeInv, NEW c \in Callers, ip[c] # 0,
           Lockable(ip[c]) \/ (where[c] = "unlinkput" /\ ilockedBy[ip[c]] = c),
           NEW k \in Nat, Relink(ip[c], k), NEW s, s = ip[c]
    PROVE  /\ slot' \in [Slots -> Entries] /\ dinode' \in [DInums -> Dinodes]
           /\ Refreshed(s) /\ dinode'[slot[s].inum].nlink = k
<1>1. /\ s \in Slots /\ slot[s].ref > 0 /\ slot[s].inum \in DInums
      /\ dinode[slot[s].inum].type # 0
      /\ Loaded(s).copy = dinode[slot[s].inum]
      /\ Loaded(s) \in Entries /\ Loaded(s).inum = slot[s].inum
      /\ Loaded(s).ref = slot[s].ref /\ Loaded(s).valid
  BY LockedEntry
<1>2. PICK n : n = slot[s].inum
  OBVIOUS
<1>3. /\ slot' = [slot EXCEPT ![s] = [Loaded(s) EXCEPT !.copy.nlink = k]]
      /\ dinode' = [dinode EXCEPT ![n].nlink = k]
  BY <1>2 DEF Relink
<1>4. dinode \in [DInums -> Dinodes] /\ dinode[n] \in Dinodes /\ n \in DInums
      /\ slot \in [Slots -> Entries]
  BY <1>1, <1>2 DEF InodeInv, InodeTypes
<1>5. PICK d : d = [dinode[n] EXCEPT !.nlink = k]
  OBVIOUS
<1>6. d \in Dinodes /\ d.nlink = k /\ d.type = dinode[n].type
  BY <1>4, <1>5 DEF Dinodes
<1>7. dinode'[n] = d /\ \A j \in DInums \ {n} : dinode'[j] = dinode[j]
  BY <1>3, <1>4, <1>5
<1>8. dinode' \in [DInums -> Dinodes]
  <2>1. dinode' = [dinode EXCEPT ![n] = d]
    BY <1>3, <1>5
  <2> QED
    BY <1>4, <1>6, <2>1
<1>9. PICK r : r = [Loaded(s) EXCEPT !.copy = d]
  OBVIOUS
<1>10. r \in Entries /\ r.copy = d /\ r.inum = n /\ r.ref = slot[s].ref
  BY <1>1, <1>2, <1>6, <1>9 DEF Entries
<1>11. slot' = [slot EXCEPT ![s] = r]
  BY <1>1, <1>2, <1>3, <1>5, <1>9
<1>12. slot'[s] = r /\ slot' \in [Slots -> Entries] /\ \A t \in Slots \ {s} : slot'[t] = slot[t]
  BY <1>1, <1>4, <1>10, <1>11
<1> QED
  BY <1>1, <1>2, <1>6, <1>7, <1>8, <1>10, <1>12 DEF Refreshed

\* What holds after a process has locked its inode and maybe changed the link
\* count; what remains is its own place and the links.
LEMMA LockedStep ==
    ASSUME InodeInv, NEW c \in Callers, NEW s, s = ip[c], s # 0, OthersStay(c),
           Lockable(s) \/ (where[c] = "unlinkput" /\ ilockedBy[s] = c),
           Refreshed(s), where[c] \notin {"ifree", "ivalid"}, where'[c] \notin {"ifree", "ivalid"},
           file' = file, put[c] = 0,
           (ip'[c] = s /\ put'[c] = 0) \/ (ip'[c] = 0 /\ put'[c] = s),
           InodeTypes'
    PROVE  /\ SlotInv' /\ InumsStay /\ RefInv' /\ CopyInv' /\ FreeInv' /\ UsedAllocated'
           /\ \A n \in DInums : dinode'[n].type # 0 <=> dinode[n].type # 0
<1> USE DEF Refreshed
<1>1. s \in Slots /\ slot[s].ref > 0 /\ slot[s].inum \in DInums /\ dinode[slot[s].inum].type # 0
  BY LockedEntry
<1>2. SlotInv' /\ InumsStay
  BY DEF InodeInv, SlotInv, InumsStay
<1>3. RefInv'
  <2> SUFFICES ASSUME NEW t \in Slots
               PROVE  slot'[t].ref = Cardinality(FileUsers(t)') + Cardinality(IpUsers(t)')
                                     + Cardinality(PutUsers(t)')
    BY DEF RefInv
  <2>1. FileUsers(t)' = FileUsers(t)
    BY DEF FileUsers
  <2>2. /\ Cardinality(IpUsers(t)')
             = Cardinality(IpUsers(t)) - One(ip[c] = t) + One(ip'[c] = t)
        /\ Cardinality(PutUsers(t)')
             = Cardinality(PutUsers(t)) - One(put[c] = t) + One(put'[c] = t)
    BY UsersMove DEF InodeInv, OthersStay
  <2>3. slot[t].ref = Cardinality(FileUsers(t)) + Cardinality(IpUsers(t))
                        + Cardinality(PutUsers(t))
    BY DEF InodeInv, RefInv
  <2>4. /\ Cardinality(FileUsers(t)) \in Nat /\ Cardinality(IpUsers(t)) \in Nat
        /\ Cardinality(PutUsers(t)) \in Nat
    BY Counted DEF InodeInv
  <2>5. t # 0 /\ slot'[t].ref = slot[t].ref
    BY InodeFinite
  <2> QED
    BY <2>1, <2>2, <2>3, <2>4, <2>5 DEF One
<1>4. CopyInv'
  <2> SUFFICES ASSUME NEW t \in Slots PROVE CopyAt(t)'
    BY DEF CopyInv
  <2>1. CASE t = s
    BY <1>1, <2>1 DEF CopyAt
  <2>2. CASE t # s /\ slot[t].ref > 0
    <3>1. slot[t].inum \in DInums \ {slot[s].inum}
      BY <1>1, <2>2 DEF InodeInv, SlotInv
    <3> QED
      BY <2>2, <3>1, CopyKept
  <2> QED
    BY <2>1, <2>2 DEF CopyAt
<1>5. FreeInv'
  BY FreeFrame
<1>6. UsedAllocated'
  <2>1. \A t \in Slots : slot[t].ref > 0 => slot[t].inum \in DInums
    BY DEF InodeInv, SlotInv
  <2>2. ip'[c] # 0 => dinode'[slot'[ip'[c]].inum].type # 0
    BY <1>1
  <2> QED
    BY <1>2, <1>3, <2>1, <2>2, AllocFrame
<1> QED
  BY <1>2, <1>3, <1>4, <1>5, <1>6

\* ilock in open: the entry is read from the disk if need be.
LEMMA OpenLockKeeps ==
    ASSUME InodeInv, NEW c \in Callers, OpenLock(c)
    PROVE  InodeInv'
<1>0. PICK s : s = ip[c]
  OBVIOUS
<1>1. /\ where[c] = "open" /\ Lockable(s) /\ where' = [where EXCEPT ![c] = "file"]
      /\ ilockedBy' = [ilockedBy EXCEPT ![s] = c]
      /\ slot' = [slot EXCEPT ![s] = Loaded(s)]
      /\ UNCHANGED <<dinode, dir, dirLock, file, fds, ip, put, arg>>
  BY <1>0 DEF OpenLock, Goto
<1>2. s # 0 /\ put[c] = 0 /\ dirLock # c
  BY <1>0, <1>1 DEF InodeInv, PlaceInv, Place, InIput
<1>3. /\ s \in Slots /\ slot[s].ref > 0 /\ slot[s].inum \in DInums
      /\ dinode[slot[s].inum].type # 0
      /\ Loaded(s).copy = dinode[slot[s].inum]
      /\ Loaded(s) \in Entries /\ Loaded(s).inum = slot[s].inum
      /\ Loaded(s).ref = slot[s].ref
      /\ ~\E e \in Callers : where[e] \in {"ifree", "ivalid"} /\ put[e] = s
  BY <1>0, <1>1, <1>2, LockedEntry
<1>4. /\ slot' \in [Slots -> Entries] /\ slot'[s] = Loaded(s)
      /\ \A t \in Slots \ {s} : slot'[t] = slot[t]
  BY <1>1, <1>3 DEF InodeInv, InodeTypes
<1>5. OthersStay(c)
  BY <1>1 DEF InodeInv, InodeTypes, OthersStay
<1>6. InodeTypes'
  <2>1. where' \in [Callers -> Places] /\ ilockedBy' \in [Slots -> Callers \cup {Unheld}]
    BY <1>1, <1>3 DEF InodeInv, InodeTypes, Places
  <2> QED
    BY <1>1, <1>4, <2>1 DEF InodeInv, InodeTypes
<1>7. where'[c] = "file" /\ ip'[c] = s /\ put'[c] = 0
  BY <1>0, <1>1, <1>2 DEF InodeInv, InodeTypes
<1>8. SlotInv' /\ InumsStay /\ RefInv' /\ CopyInv' /\ FreeInv' /\ UsedAllocated'
  <2>1. Refreshed(s)
    BY <1>1, <1>3, <1>4 DEF Refreshed
  <2>2. /\ where[c] \notin {"ifree", "ivalid"} /\ where'[c] \notin {"ifree", "ivalid"}
        /\ file' = file /\ ((ip'[c] = s /\ put'[c] = 0) \/ (ip'[c] = 0 /\ put'[c] = s))
    BY <1>1, <1>7
  <2>3. s = ip[c] /\ s # 0 /\ Lockable(s) /\ put[c] = 0
    BY <1>0, <1>1, <1>2
  <2> QED
    BY <1>5, <1>6, <2>1, <2>2, <2>3, LockedStep
<1>9. FileInv' /\ NamedAllocated'
  BY <1>1, FileFrame DEF InodeInv, NamedAllocated
<1>10. PlaceInv'
  <2>1. Place(c)'
    BY <1>1, <1>2, <1>7 DEF Place, InIput
  <2> QED
    BY <1>5, <2>1, PlaceFrame DEF InodeInv
<1>11. InodeLockInv'
  <2> SUFFICES ASSUME NEW e \in Callers, NEW t \in Slots
               PROVE  ilockedBy'[t] = e <=> HasLock(e, t)'
    BY DEF InodeLockInv
  <2>1. e # c => (HasLock(e, t) <=> HasLock(e, t)')
    BY <1>5 DEF OthersStay, HasLock
  <2>2. HasLock(c, t)' <=> t = s
    BY <1>7 DEF HasLock
  <2>3. ~HasLock(c, t) /\ (ilockedBy[t] = e <=> HasLock(e, t)) /\ ilockedBy[s] = Unheld
    BY <1>1 DEF InodeInv, InodeLockInv, HasLock, Lockable
  <2>4. ilockedBy'[t] = IF t = s THEN c ELSE ilockedBy[t]
    BY <1>1, <1>3 DEF InodeInv, InodeTypes
  <2> QED
    BY <2>1, <2>2, <2>3, <2>4, InodeFinite
<1>12. LinkInv' /\ DirInv'
  <2>1. ~Pending(c) /\ ~Pending(c)'
    BY <1>1, <1>2, <1>7 DEF Pending
  <2> QED
    BY <1>0, <1>1, <1>5, <1>6, <1>7, <1>8, <2>1, LinkFrame, DirQuiet
<1> QED
  BY <1>6, <1>8, <1>9, <1>10, <1>11, <1>12 DEF InodeInv

\* The step of c enters or removes one name m of inode n, or none, and the link
\* count goes with that and with the link that c has in flight.
Counts(c, n, m) ==
    \/ /\ UNCHANGED dir
       /\ dinode'[n].nlink = dinode[n].nlink - One(Pending(c)) + One(Pending(c)')
    \/ /\ m \in Names /\ dir' = [dir EXCEPT ![m] = n] /\ dir[m] = 0
       /\ dinode'[n].nlink = dinode[n].nlink + 1 - One(Pending(c)) + One(Pending(c)')
    \/ /\ m \in Names /\ dir' = [dir EXCEPT ![m] = 0] /\ dir[m] = n
       /\ dinode'[n].nlink = dinode[n].nlink - 1 - One(Pending(c)) + One(Pending(c)')

\* Then the link counts are the numbers of links again.
LEMMA RelinkLinks ==
    ASSUME InodeInv, NEW c \in Callers, OthersStay(c), InumsStay, InodeTypes', RefInv',
           NEW n \in DInums, NEW m, slot[ip[c]].inum = n, Pending(c)' => slot'[ip'[c]].inum = n,
           \A j \in DInums \ {n} : dinode'[j] = dinode[j], Counts(c, n, m)
    PROVE  LinkInv'
<1> SUFFICES ASSUME NEW j \in DInums
             PROVE  dinode'[j].nlink = Cardinality(NameLinks(j)') + Cardinality(InFlight(j)')
  BY DEF LinkInv
<1>1. /\ Cardinality(InFlight(j)) \in Nat
      /\ Cardinality(InFlight(j)')
           = Cardinality(InFlight(j)) - One(Pending(c) /\ slot[ip[c]].inum = j)
             + One(Pending(c)' /\ slot'[ip'[c]].inum = j)
  BY FlightMoves
<1>3. dinode[j].nlink = Cardinality(NameLinks(j)) + Cardinality(InFlight(j))
  BY DEF InodeInv, LinkInv
<1>4. Cardinality(NameLinks(j)) \in Nat
  <2>1. IsFiniteSet(NameLinks(j))
    BY InodeFinite, FS_Subset DEF NameLinks
  <2> QED
    BY <2>1, FS_CardinalityType
<1>5. j # 0 /\ n # 0
  BY InodeFinite
<1>6. CASE UNCHANGED dir /\ dinode'[n].nlink = dinode[n].nlink - One(Pending(c)) + One(Pending(c)')
  <2>1. NameLinks(j)' = NameLinks(j)
    BY <1>6 DEF NameLinks
  <2>2. CASE j = n
    BY <1>1, <1>3, <1>4, <1>6, <2>1, <2>2 DEF One
  <2>3. CASE j # n
    BY <1>1, <1>3, <1>4, <1>6, <2>1, <2>3 DEF One
  <2> QED
    BY <2>2, <2>3
<1>7. CASE /\ m \in Names /\ dir' = [dir EXCEPT ![m] = n] /\ dir[m] = 0
           /\ dinode'[n].nlink = dinode[n].nlink + 1 - One(Pending(c)) + One(Pending(c)')
  <2>1. dir'[m] = n /\ \A i \in Names \ {m} : dir'[i] = dir[i]
    BY <1>7 DEF InodeInv, InodeTypes
  <2>2. Cardinality(NameLinks(j)')
          = Cardinality(NameLinks(j)) - One(dir[m] = j) + One(dir'[m] = j)
    BY <1>7, <2>1, NamesMove
  <2>3. CASE j = n
    BY <1>1, <1>3, <1>4, <1>5, <1>7, <2>1, <2>2, <2>3 DEF One
  <2>4. CASE j # n
    BY <1>1, <1>3, <1>4, <1>5, <1>7, <2>1, <2>2, <2>4 DEF One
  <2> QED
    BY <2>3, <2>4
<1>8. CASE /\ m \in Names /\ dir' = [dir EXCEPT ![m] = 0] /\ dir[m] = n
           /\ dinode'[n].nlink = dinode[n].nlink - 1 - One(Pending(c)) + One(Pending(c)')
  <2>1. dir'[m] = 0 /\ \A i \in Names \ {m} : dir'[i] = dir[i]
    BY <1>8 DEF InodeInv, InodeTypes
  <2>2. Cardinality(NameLinks(j)')
          = Cardinality(NameLinks(j)) - One(dir[m] = j) + One(dir'[m] = j)
    BY <1>8, <2>1, NamesMove
  <2>3. CASE j = n
    BY <1>1, <1>3, <1>4, <1>5, <1>8, <2>1, <2>2, <2>3 DEF One
  <2>4. CASE j # n
    BY <1>1, <1>3, <1>4, <1>5, <1>8, <2>1, <2>2, <2>4 DEF One
  <2> QED
    BY <2>3, <2>4
<1> QED
  BY <1>6, <1>7, <1>8 DEF Counts

\* create enters the name of an inode that has none, and counts it.
LEMMA CreateLinkKeeps ==
    ASSUME InodeInv, NEW c \in Callers, CreateLink(c)
    PROVE  InodeInv'
<1>0. PICK s, n, m : s = ip[c] /\ n = slot[s].inum /\ m = arg[c]
  OBVIOUS
<1>1. /\ where[c] = "create" /\ Lockable(s) /\ where' = [where EXCEPT ![c] = "createput"]
      /\ ilockedBy' = [ilockedBy EXCEPT ![s] = c]
      /\ Relink(s, 1)
      /\ dir' = [dir EXCEPT ![m] = n] /\ dirLock' = Unheld
      /\ arg' = [arg EXCEPT ![c] = AnyName]
      /\ UNCHANGED <<file, fds, ip, put>>
  BY <1>0 DEF CreateLink, Goto, DropName
<1>2. /\ s # 0 /\ put[c] = 0 /\ dirLock = c /\ m \in Names /\ dir[m] = 0 /\ dinode[n].nlink = 0
  BY <1>0, <1>1 DEF InodeInv, PlaceInv, Place, InIput, DirInv, DirAt
<1>3. s \in Slots /\ slot[s].ref > 0 /\ n \in DInums /\ dinode[n].type # 0
  BY <1>0, <1>1, <1>2, LockedEntry
<1>4. /\ slot' \in [Slots -> Entries] /\ dinode' \in [DInums -> Dinodes]
      /\ Refreshed(s) /\ dinode'[slot[s].inum].nlink = 1
  BY <1>0, <1>1, <1>2, RelinkFacts
<1>5. OthersStay(c)
  BY <1>1, <1>2, InodeFinite DEF InodeInv, InodeTypes, OthersStay
<1>6. InodeTypes'
  <2>1. where' \in [Callers -> Places] /\ ilockedBy' \in [Slots -> Callers \cup {Unheld}]
    BY <1>1, <1>3 DEF InodeInv, InodeTypes, Places
  <2>2. /\ arg' \in [Callers -> Names \cup {AnyName}] /\ dir' \in [Names -> DInums \cup {0}]
        /\ dirLock' \in Callers \cup {Unheld}
    BY <1>1, <1>3 DEF InodeInv, InodeTypes
  <2> QED
    BY <1>1, <1>4, <2>1, <2>2 DEF InodeInv, InodeTypes
<1>7. where'[c] = "createput" /\ ip'[c] = s /\ put'[c] = 0
  BY <1>0, <1>1, <1>2 DEF InodeInv, InodeTypes
<1>8. SlotInv' /\ InumsStay /\ RefInv' /\ CopyInv' /\ FreeInv' /\ UsedAllocated'
  <2>1. /\ where[c] \notin {"ifree", "ivalid"} /\ where'[c] \notin {"ifree", "ivalid"}
        /\ file' = file /\ ((ip'[c] = s /\ put'[c] = 0) \/ (ip'[c] = 0 /\ put'[c] = s))
    BY <1>1, <1>7
  <2>2. s = ip[c] /\ s # 0 /\ Lockable(s) /\ put[c] = 0
    BY <1>0, <1>1, <1>2
  <2> QED
    BY <1>4, <1>5, <1>6, <2>1, <2>2, LockedStep
<1>9. FileInv' /\ NamedAllocated'
  <2>1. FileInv'
    BY <1>1, FileFrame DEF InodeInv
  <2>2. NamedAllocated'
    BY <1>1, <1>2, <1>3, <1>4, SMTT(20) DEF InodeInv, InodeTypes, NamedAllocated, Refreshed
  <2> QED
    BY <2>1, <2>2
<1>10. PlaceInv'
  <2>1. Place(c)'
    BY <1>1, <1>2, <1>7, InodeFinite DEF Place, InIput
  <2> QED
    BY <1>5, <2>1, PlaceFrame DEF InodeInv
<1>11. InodeLockInv'
  <2> SUFFICES ASSUME NEW e \in Callers, NEW t \in Slots
               PROVE  ilockedBy'[t] = e <=> HasLock(e, t)'
    BY DEF InodeLockInv
  <2>1. e # c => (HasLock(e, t) <=> HasLock(e, t)')
    BY <1>5 DEF OthersStay, HasLock
  <2>2. HasLock(c, t)' <=> t = s
    BY <1>7 DEF HasLock
  <2>3. ~HasLock(c, t) /\ (ilockedBy[t] = e <=> HasLock(e, t)) /\ ilockedBy[s] = Unheld
    BY <1>1 DEF InodeInv, InodeLockInv, HasLock, Lockable
  <2>4. ilockedBy'[t] = IF t = s THEN c ELSE ilockedBy[t]
    BY <1>1, <1>3 DEF InodeInv, InodeTypes
  <2> QED
    BY <2>1, <2>2, <2>3, <2>4, InodeFinite
<1>12. LinkInv'
  <2>1. ~Pending(c) /\ ~Pending(c)'
    BY <1>1, <1>2, <1>7 DEF Pending
  <2>2. One(Pending(c)) = 0 /\ One(Pending(c)') = 0
    BY <2>1 DEF One
  <2>3. Counts(c, n, m)
    BY <1>0, <1>1, <1>2, <1>4, <2>2 DEF Counts
  <2>4. \A j \in DInums \ {n} : dinode'[j] = dinode[j]
    BY <1>0, <1>4 DEF Refreshed
  <2> QED
    BY <1>0, <1>3, <1>5, <1>6, <1>8, <2>1, <2>3, <2>4, RelinkLinks
<1>13. DirInv'
  <2>1. \A e \in Callers \ {c} : where[e] \notin {"create", "unlink"}
    BY <1>2 DEF InodeInv, PlaceInv, Place
  <2>2. DirAt(c)'
    BY <1>7 DEF DirAt
  <2> QED
    BY <1>5, <1>6, <1>8, <2>1, <2>2, DirFrame
<1> QED
  BY <1>6, <1>8, <1>9, <1>10, <1>11, <1>12, <1>13 DEF InodeInv

\* create's iput(dp) changes nothing: the new inode stays locked.
LEMMA CreatePutKeeps ==
    ASSUME InodeInv, NEW c \in Callers, CreatePut(c)
    PROVE  InodeInv'
<1>1. /\ where[c] = "createput" /\ where' = [where EXCEPT ![c] = "file"]
      /\ UNCHANGED <<dinode, dir, dirLock, slot, ilockedBy, file, fds, ip, put, arg>>
  BY DEF CreatePut, Goto
<1>2. ip[c] # 0 /\ put[c] = 0 /\ dirLock # c /\ where'[c] = "file"
  BY <1>1 DEF InodeInv, InodeTypes, PlaceInv, Place, InIput
<1>3. OthersStay(c) /\ InumsStay /\ SlotInv' /\ NamedAllocated' /\ UsedAllocated'
  <2>1. OthersStay(c)
    BY <1>1 DEF InodeInv, InodeTypes, OthersStay
  <2> QED
    BY <1>1, <2>1 DEF InodeInv, InumsStay, SlotInv, NamedAllocated, UsedAllocated
<1>4. InodeTypes'
  <2>1. where' \in [Callers -> Places]
    BY <1>1 DEF InodeInv, InodeTypes, Places
  <2> QED
    BY <1>1, <2>1 DEF InodeInv, InodeTypes
<1>5. RefInv' /\ FileInv'
  BY <1>1, PointersStay, FileFrame DEF InodeInv
<1>6. PlaceInv'
  <2>1. Place(c)'
    BY <1>1, <1>2 DEF Place, InIput
  <2> QED
    BY <1>3, <2>1, PlaceFrame DEF InodeInv
<1>7. InodeLockInv'
  <2> SUFFICES ASSUME NEW e \in Callers, NEW t \in Slots
               PROVE  ilockedBy'[t] = e <=> HasLock(e, t)'
    BY DEF InodeLockInv
  <2>1. HasLock(e, t) <=> HasLock(e, t)'
    BY <1>1, <1>2, <1>3 DEF OthersStay, HasLock
  <2> QED
    BY <1>1, <2>1 DEF InodeInv, InodeLockInv
<1>8. CopyInv'
  <2> SUFFICES ASSUME NEW s \in Slots PROVE CopyAt(s)'
    BY DEF CopyInv
  <2>1. CASE slot[s].ref > 0
    BY <1>1, <1>3, <2>1, CopyKept
  <2> QED
    BY <1>1, <2>1 DEF CopyAt
<1>9. FreeInv'
  BY <1>1, <1>2, <1>3, FreeFrame
<1>10. LinkInv' /\ DirInv'
  <2>1. ~Pending(c) /\ ~Pending(c)'
    BY <1>1, <1>2 DEF Pending
  <2> QED
    BY <1>1, <1>2, <1>3, <1>4, <1>5, <2>1, LinkFrame, DirQuiet
<1> QED
  BY <1>3, <1>4, <1>5, <1>6, <1>7, <1>8, <1>9, <1>10 DEF InodeInv

\* unlink after its iput(dp), link and its failure path: the process changes the
\* link count of an inode that it has locked, or locks meanwhile, and goes on to
\* iput or to the directory.
LEMMA RelinkKeeps ==
    ASSUME InodeInv, NEW c \in Callers, NEW s, s = ip[c], s # 0, put[c] = 0, dirLock # c,
           NEW n, n = slot[s].inum, NEW k \in Nat, Relink(s, k),
           \/ where[c] \in {"link", "linkbad"} /\ Lockable(s) /\ ilockedBy' = ilockedBy
           \/ /\ where[c] = "unlinkput" /\ ilockedBy[s] = c
              /\ ilockedBy' = [ilockedBy EXCEPT ![s] = Unheld],
           \/ /\ where' = [where EXCEPT ![c] = "iput"]
              /\ put' = [put EXCEPT ![c] = s] /\ ip' = [ip EXCEPT ![c] = 0]
           \/ /\ where' = [where EXCEPT ![c] = "linkdir"]
              /\ put' = put /\ ip' = ip /\ arg[c] \in Names,
           OthersStay(c), UNCHANGED <<dir, dirLock, file, fds, arg>>,
           dinode'[n].nlink = dinode[n].nlink - One(Pending(c)) + One(Pending(c)')
    PROVE  InodeInv'
<1>1. s \in Slots /\ slot[s].ref > 0 /\ n \in DInums /\ dinode[n].type # 0
  BY LockedEntry
<1>2. /\ slot' \in [Slots -> Entries] /\ dinode' \in [DInums -> Dinodes]
      /\ Refreshed(s) /\ dinode'[slot[s].inum].nlink = k
  BY RelinkFacts
<1>3. \/ where'[c] = "iput" /\ ip'[c] = 0 /\ put'[c] = s
      \/ where'[c] = "linkdir" /\ ip'[c] = s /\ put'[c] = 0 /\ arg[c] \in Names
  BY DEF InodeInv, InodeTypes
<1>4. InodeTypes'
  <2>1. /\ where' \in [Callers -> Places] /\ ip' \in [Callers -> Slots \cup {0}]
        /\ put' \in [Callers -> Slots \cup {0}]
    BY <1>1 DEF InodeInv, InodeTypes, Places
  <2>2. ilockedBy' \in [Slots -> Callers \cup {Unheld}]
    BY <1>1 DEF InodeInv, InodeTypes
  <2> QED
    BY <1>2, <2>1, <2>2 DEF InodeInv, InodeTypes
<1>5. SlotInv' /\ InumsStay /\ RefInv' /\ CopyInv' /\ FreeInv' /\ UsedAllocated'
  <2>1. /\ where[c] \notin {"ifree", "ivalid"} /\ where'[c] \notin {"ifree", "ivalid"}
        /\ (ip'[c] = s /\ put'[c] = 0) \/ (ip'[c] = 0 /\ put'[c] = s)
    BY <1>3
  <2> QED
    BY <1>2, <1>4, <2>1, LockedStep
<1>6. FileInv' /\ NamedAllocated'
  <2>1. FileInv'
    BY FileFrame DEF InodeInv
  <2>2. \A j \in DInums : dinode'[j].type = dinode[j].type
    BY <1>2 DEF Refreshed
  <2> QED
    BY <2>1, <2>2 DEF NamedAllocated, InodeInv, InodeTypes
<1>7. PlaceInv'
  <2>1. Place(c)'
    BY <1>3 DEF Place, InIput
  <2> QED
    BY <2>1, PlaceFrame DEF InodeInv
<1>8. InodeLockInv'
  <2> SUFFICES ASSUME NEW e \in Callers, NEW t \in Slots
               PROVE  ilockedBy'[t] = e <=> HasLock(e, t)'
    BY DEF InodeLockInv
  <2>1. e # c => (HasLock(e, t) <=> HasLock(e, t)')
    BY DEF OthersStay, HasLock
  <2>2. ~HasLock(c, t)' /\ (HasLock(c, t) <=> where[c] = "unlinkput" /\ t = s)
    BY <1>3 DEF HasLock
  <2>3. ilockedBy[t] = e <=> HasLock(e, t)
    BY DEF InodeInv, InodeLockInv
  <2>4. CASE ilockedBy' = ilockedBy /\ where[c] # "unlinkput"
    BY <2>1, <2>2, <2>3, <2>4
  <2>5. CASE /\ where[c] = "unlinkput" /\ ilockedBy[s] = c
             /\ ilockedBy' = [ilockedBy EXCEPT ![s] = Unheld]
    <3>1. ilockedBy'[t] = IF t = s THEN Unheld ELSE ilockedBy[t]
      BY <1>1, <2>5 DEF InodeInv, InodeTypes
    <3> QED
      BY <2>1, <2>2, <2>3, <2>5, <3>1, InodeFinite
  <2> QED
    BY <2>4, <2>5
<1>9. LinkInv'
  <2>1. Pending(c)' => slot'[ip'[c]].inum = n
    <3>1. slot'[s].inum = n
      BY <1>1, <1>2 DEF Refreshed
    <3> QED
      BY <1>3, <3>1 DEF Pending
  <2>2. \A j \in DInums \ {n} : dinode'[j] = dinode[j]
    BY <1>2 DEF Refreshed
  <2>3. slot[ip[c]].inum = n
    OBVIOUS
  <2>4. Counts(c, n, AnyName)
    BY DEF Counts
  <2> QED
    BY <1>1, <1>4, <1>5, <2>1, <2>2, <2>3, <2>4, RelinkLinks
<1>10. DirInv'
  <2>1. DirAt(c)'
    BY <1>3 DEF DirAt
  <2>2. ASSUME NEW e \in Callers \ {c}, where[e] = "create"
        PROVE  /\ dinode'[slot[ip[e]].inum].nlink = 0
               /\ ip'[c] # ip[e] /\ FileUsers(ip[e])' = {}
    <3>1. ip[e] # 0 /\ dinode[slot[ip[e]].inum].nlink = 0
          /\ IpUsers(ip[e]) = {e} /\ FileUsers(ip[e]) = {}
      BY <2>2 DEF InodeInv, PlaceInv, Place, DirInv, DirAt
    <3>2. ip[e] \in Slots /\ slot[ip[e]].ref > 0
      BY <3>1, Referenced DEF InodeInv, PointersCounted
    <3>3. ip[e] # s
      BY <3>1 DEF IpUsers
    <3>4. slot[ip[e]].inum \in DInums \ {n}
      BY <1>1, <3>2, <3>3 DEF InodeInv, SlotInv
    <3>5. dinode'[slot[ip[e]].inum] = dinode[slot[ip[e]].inum]
      BY <1>2, <3>4 DEF Refreshed
    <3>6. FileUsers(ip[e])' = {}
      <4>1. ip'[e] = ip[e]
        BY DEF OthersStay
      <4> QED
        BY <3>1, <4>1 DEF FileUsers
    <3> QED
      BY <1>3, <3>1, <3>3, <3>5, <3>6
  <2> QED
    BY <1>4, <1>5, <2>1, <2>2, DirFrame
<1> QED
  BY <1>4, <1>5, <1>6, <1>7, <1>8, <1>9, <1>10 DEF InodeInv

\* unlink removes the name that it looked up, which still names its inode; the
\* link is in flight until nlink-- follows.
LEMMA UnlinkEntryKeeps ==
    ASSUME InodeInv, NEW c \in Callers, UnlinkEntry(c)
    PROVE  InodeInv'
<1>0. PICK s, n, m : s = ip[c] /\ n = slot[s].inum /\ m = arg[c]
  OBVIOUS
<1>1. /\ where[c] = "unlink" /\ Lockable(s) /\ where' = [where EXCEPT ![c] = "unlinkput"]
      /\ ilockedBy' = [ilockedBy EXCEPT ![s] = c]
      /\ slot' = [slot EXCEPT ![s] = Loaded(s)]
      /\ dir' = [dir EXCEPT ![m] = 0] /\ dirLock' = Unheld
      /\ arg' = [arg EXCEPT ![c] = AnyName]
      /\ UNCHANGED <<dinode, file, fds, ip, put>>
  BY <1>0 DEF UnlinkEntry, Goto, DropName
<1>2. s # 0 /\ put[c] = 0 /\ dirLock = c /\ m \in Names /\ dir[m] = n
  BY <1>0, <1>1 DEF InodeInv, PlaceInv, Place, InIput, DirInv, DirAt
<1>3. /\ s \in Slots /\ slot[s].ref > 0 /\ n \in DInums /\ dinode[n].type # 0
      /\ Loaded(s).copy = dinode[n]
      /\ Loaded(s) \in Entries /\ Loaded(s).inum = n /\ Loaded(s).ref = slot[s].ref
  BY <1>0, <1>1, <1>2, LockedEntry
<1>4. /\ slot' \in [Slots -> Entries] /\ slot'[s] = Loaded(s)
      /\ \A t \in Slots \ {s} : slot'[t] = slot[t]
  BY <1>1, <1>3 DEF InodeInv, InodeTypes
<1>5. OthersStay(c)
  BY <1>1, <1>2, InodeFinite DEF InodeInv, InodeTypes, OthersStay
<1>6. InodeTypes'
  <2>1. where' \in [Callers -> Places] /\ ilockedBy' \in [Slots -> Callers \cup {Unheld}]
    BY <1>1, <1>3 DEF InodeInv, InodeTypes, Places
  <2>2. /\ arg' \in [Callers -> Names \cup {AnyName}] /\ dir' \in [Names -> DInums \cup {0}]
        /\ dirLock' \in Callers \cup {Unheld}
    BY <1>1 DEF InodeInv, InodeTypes
  <2> QED
    BY <1>1, <1>4, <2>1, <2>2 DEF InodeInv, InodeTypes
<1>7. where'[c] = "unlinkput" /\ ip'[c] = s /\ put'[c] = 0 /\ dirLock' # c
  BY <1>0, <1>1, <1>2, InodeFinite DEF InodeInv, InodeTypes
<1>8. SlotInv' /\ InumsStay /\ RefInv' /\ CopyInv' /\ FreeInv' /\ UsedAllocated'
  <2>1. Refreshed(s)
    BY <1>0, <1>1, <1>3, <1>4 DEF Refreshed
  <2>2. /\ where[c] \notin {"ifree", "ivalid"} /\ where'[c] \notin {"ifree", "ivalid"}
        /\ file' = file /\ ((ip'[c] = s /\ put'[c] = 0) \/ (ip'[c] = 0 /\ put'[c] = s))
    BY <1>1, <1>7
  <2>3. s = ip[c] /\ s # 0 /\ Lockable(s) /\ put[c] = 0
    BY <1>0, <1>1, <1>2
  <2> QED
    BY <1>5, <1>6, <2>1, <2>2, <2>3, LockedStep
<1>9. FileInv' /\ NamedAllocated'
  <2>1. FileInv'
    BY <1>1, FileFrame DEF InodeInv
  <2>2. \A i \in Names : dir'[i] \in {dir[i], 0}
    BY <1>1 DEF InodeInv, InodeTypes
  <2> QED
    BY <1>1, <2>1, <2>2 DEF InodeInv, NamedAllocated
<1>10. PlaceInv'
  <2>1. Place(c)'
    BY <1>2, <1>7 DEF Place, InIput
  <2> QED
    BY <1>5, <2>1, PlaceFrame DEF InodeInv
<1>11. InodeLockInv'
  <2> SUFFICES ASSUME NEW e \in Callers, NEW t \in Slots
               PROVE  ilockedBy'[t] = e <=> HasLock(e, t)'
    BY DEF InodeLockInv
  <2>1. e # c => (HasLock(e, t) <=> HasLock(e, t)')
    BY <1>5 DEF OthersStay, HasLock
  <2>2. HasLock(c, t)' <=> t = s
    BY <1>7 DEF HasLock
  <2>3. ~HasLock(c, t) /\ (ilockedBy[t] = e <=> HasLock(e, t)) /\ ilockedBy[s] = Unheld
    BY <1>1 DEF InodeInv, InodeLockInv, HasLock, Lockable
  <2>4. ilockedBy'[t] = IF t = s THEN c ELSE ilockedBy[t]
    BY <1>1, <1>3 DEF InodeInv, InodeTypes
  <2> QED
    BY <2>1, <2>2, <2>3, <2>4, InodeFinite
<1>12. LinkInv'
  <2>1. ~Pending(c) /\ Pending(c)'
    BY <1>1, <1>2, <1>7 DEF Pending
  <2>2. One(Pending(c)) = 0 /\ One(Pending(c)') = 1
    BY <2>1 DEF One
  <2>3. dinode'[n].nlink = dinode[n].nlink /\ dinode[n].nlink \in Nat
    BY <1>1, <1>3 DEF InodeInv, InodeTypes, Dinodes
  <2>4. Counts(c, n, m)
    BY <1>1, <1>2, <2>2, <2>3 DEF Counts
  <2>5. slot[ip[c]].inum = n /\ slot'[ip'[c]].inum = n /\ \A j \in DInums \ {n} : dinode'[j] = dinode[j]
    BY <1>0, <1>1, <1>3, <1>4, <1>7
  <2> QED
    BY <1>3, <1>5, <1>6, <1>8, <2>4, <2>5, RelinkLinks
<1>13. DirInv'
  <2>1. \A e \in Callers \ {c} : where[e] \notin {"create", "unlink"}
    BY <1>2 DEF InodeInv, PlaceInv, Place
  <2>2. DirAt(c)'
    BY <1>7 DEF DirAt
  <2> QED
    BY <1>5, <1>6, <1>8, <2>1, <2>2, DirFrame
<1> QED
  BY <1>6, <1>8, <1>9, <1>10, <1>11, <1>12, <1>13 DEF InodeInv

\* A link in flight is counted in the inode that its process has.
LEMMA FlightCounted ==
    ASSUME InodeInv, NEW c \in Callers, NEW n \in DInums, Pending(c), slot[ip[c]].inum = n
    PROVE  dinode[n].nlink \in Nat /\ dinode[n].nlink - 1 \in Nat
<1>1. c \in InFlight(n)
  BY DEF InFlight
<1>2. IsFiniteSet(NameLinks(n)) /\ IsFiniteSet(InFlight(n))
  BY InodeFinite, FS_Subset DEF NameLinks, InFlight
<1>3. /\ Cardinality(NameLinks(n)) \in Nat /\ Cardinality(InFlight(n)) \in Nat
      /\ Cardinality(InFlight(n)) # 0
  BY <1>1, <1>2, FS_EmptySet, FS_CardinalityType
<1>4. dinode[n].nlink = Cardinality(NameLinks(n)) + Cardinality(InFlight(n))
  BY DEF InodeInv, LinkInv
<1> QED
  BY <1>3, <1>4

\* unlink discounts the link, and unlocks the inode.
LEMMA UnlinkPutKeeps ==
    ASSUME InodeInv, NEW c \in Callers, UnlinkPut(c)
    PROVE  InodeInv'
<1>0. PICK s, n, k : s = ip[c] /\ n = slot[s].inum /\ k = Loaded(s).copy.nlink - 1
  OBVIOUS
<1>1. /\ where[c] = "unlinkput" /\ Relink(s, k)
      /\ ilockedBy' = [ilockedBy EXCEPT ![s] = Unheld]
      /\ where' = [where EXCEPT ![c] = "iput"]
      /\ put' = [put EXCEPT ![c] = s] /\ ip' = [ip EXCEPT ![c] = 0]
      /\ UNCHANGED <<dir, dirLock, file, fds, arg>>
  BY <1>0 DEF UnlinkPut, Goto
<1>2. s # 0 /\ put[c] = 0 /\ dirLock # c
  BY <1>0, <1>1 DEF InodeInv, PlaceInv, Place, InIput
<1>3. ilockedBy[s] = c
  <2>1. s \in Slots
    BY <1>0, <1>2 DEF InodeInv, InodeTypes
  <2> QED
    BY <1>0, <1>1, <2>1 DEF InodeInv, InodeLockInv, HasLock
<1>4. n \in DInums /\ Loaded(s).copy = dinode[n]
  BY <1>0, <1>1, <1>2, <1>3, LockedEntry
<1>5. dinode[n].nlink \in Nat /\ k \in Nat /\ k = dinode[n].nlink - 1
  <2>1. Pending(c)
    BY <1>1 DEF Pending
  <2> QED
    BY <1>0, <1>4, <2>1, FlightCounted
<1>6. OthersStay(c)
  BY <1>1 DEF InodeInv, InodeTypes, OthersStay
<1>7. dinode'[n].nlink = dinode[n].nlink - One(Pending(c)) + One(Pending(c)')
  <2>1. where'[c] = "iput" /\ Pending(c) /\ ~Pending(c)'
    BY <1>1, <1>2 DEF Pending, InodeInv, InodeTypes
  <2>2. One(Pending(c)) = 1 /\ One(Pending(c)') = 0
    BY <2>1 DEF One
  <2>3. dinode'[n].nlink = k
    BY <1>0, <1>1, <1>2, <1>3, <1>5, RelinkFacts
  <2> QED
    BY <1>5, <2>2, <2>3
<1> QED
  BY <1>0, <1>1, <1>2, <1>3, <1>5, <1>6, <1>7, RelinkKeeps

\* link counts the new link before it is entered.
LEMMA LinkCountKeeps ==
    ASSUME InodeInv, NEW c \in Callers, LinkCount(c)
    PROVE  InodeInv'
<1>0. PICK s, n, k : s = ip[c] /\ n = slot[s].inum /\ k = Loaded(s).copy.nlink + 1
  OBVIOUS
<1>1. /\ where[c] = "link" /\ Lockable(s) /\ Relink(s, k)
      /\ where' = [where EXCEPT ![c] = "linkdir"]
      /\ dir' = dir /\ dirLock' = dirLock /\ put' = put /\ ip' = ip /\ arg' = arg
      /\ ilockedBy' = ilockedBy /\ file' = file /\ fds' = fds
  BY <1>0 DEF LinkCount, Goto
<1>2. s # 0 /\ put[c] = 0 /\ dirLock # c /\ arg[c] \in Names
  BY <1>0, <1>1 DEF InodeInv, PlaceInv, Place, InIput
<1>3. n \in DInums /\ Loaded(s).copy = dinode[n]
  BY <1>0, <1>1, <1>2, LockedEntry
<1>4. dinode[n].nlink \in Nat /\ k \in Nat /\ k = dinode[n].nlink + 1
  BY <1>0, <1>3 DEF InodeInv, InodeTypes, Dinodes
<1>5. OthersStay(c)
  BY <1>1 DEF InodeInv, InodeTypes, OthersStay
<1>6. dinode'[n].nlink = dinode[n].nlink - One(Pending(c)) + One(Pending(c)')
  <2>1. where'[c] = "linkdir" /\ ~Pending(c) /\ Pending(c)'
    BY <1>1, <1>2 DEF Pending, InodeInv, InodeTypes
  <2>2. One(Pending(c)) = 0 /\ One(Pending(c)') = 1
    BY <2>1 DEF One
  <2>3. dinode'[n].nlink = k
    BY <1>0, <1>1, <1>2, <1>4, RelinkFacts
  <2> QED
    BY <1>4, <2>2, <2>3
<1> QED
  BY <1>0, <1>1, <1>2, <1>4, <1>5, <1>6, RelinkKeeps

\* link takes back what it has counted.
LEMMA LinkBadKeeps ==
    ASSUME InodeInv, NEW c \in Callers, LinkBad(c)
    PROVE  InodeInv'
<1>0. PICK s, n, k : s = ip[c] /\ n = slot[s].inum /\ k = Loaded(s).copy.nlink - 1
  OBVIOUS
<1>1. /\ where[c] = "linkbad" /\ Lockable(s) /\ Relink(s, k)
      /\ where' = [where EXCEPT ![c] = "iput"]
      /\ put' = [put EXCEPT ![c] = s] /\ ip' = [ip EXCEPT ![c] = 0]
      /\ dir' = dir /\ dirLock' = dirLock /\ arg' = arg
      /\ ilockedBy' = ilockedBy /\ file' = file /\ fds' = fds
  BY <1>0 DEF LinkBad, Goto
<1>2. s # 0 /\ put[c] = 0 /\ dirLock # c
  BY <1>0, <1>1 DEF InodeInv, PlaceInv, Place, InIput
<1>3. n \in DInums /\ Loaded(s).copy = dinode[n]
  BY <1>0, <1>1, <1>2, LockedEntry
<1>4. dinode[n].nlink \in Nat /\ k \in Nat /\ k = dinode[n].nlink - 1
  <2>1. Pending(c)
    BY <1>1 DEF Pending
  <2> QED
    BY <1>0, <1>3, <2>1, FlightCounted
<1>5. OthersStay(c)
  BY <1>1 DEF InodeInv, InodeTypes, OthersStay
<1>6. dinode'[n].nlink = dinode[n].nlink - One(Pending(c)) + One(Pending(c)')
  <2>1. where'[c] = "iput" /\ Pending(c) /\ ~Pending(c)'
    BY <1>1, <1>2 DEF Pending, InodeInv, InodeTypes
  <2>2. One(Pending(c)) = 1 /\ One(Pending(c)') = 0
    BY <2>1 DEF One
  <2>3. dinode'[n].nlink = k
    BY <1>0, <1>1, <1>2, <1>4, RelinkFacts
  <2> QED
    BY <1>4, <2>2, <2>3
<1> QED
  BY <1>0, <1>1, <1>2, <1>4, <1>5, <1>6, RelinkKeeps

-----------------------------------------------------------------------------
(* link in the directory.                                                  *)

\* There is no directory for the new name: the link stays in flight.
LEMMA LinkNoParentKeeps ==
    ASSUME InodeInv, NEW c \in Callers, LinkNoParent(c)
    PROVE  InodeInv'
<1>1. /\ where[c] = "linkdir" /\ where' = [where EXCEPT ![c] = "linkbad"]
      /\ arg' = [arg EXCEPT ![c] = AnyName]
      /\ UNCHANGED <<dinode, dir, dirLock, slot, ilockedBy, file, fds, ip, put>>
  BY DEF LinkNoParent, Goto, DropName
<1>2. ip[c] # 0 /\ put[c] = 0 /\ dirLock # c /\ where'[c] = "linkbad"
  BY <1>1 DEF InodeInv, InodeTypes, PlaceInv, Place, InIput
<1>3. OthersStay(c) /\ InumsStay /\ SlotInv' /\ NamedAllocated' /\ UsedAllocated'
  <2>1. OthersStay(c)
    BY <1>1 DEF InodeInv, InodeTypes, OthersStay
  <2> QED
    BY <1>1, <2>1 DEF InodeInv, InumsStay, SlotInv, NamedAllocated, UsedAllocated
<1>4. InodeTypes'
  <2>1. where' \in [Callers -> Places]
    BY <1>1 DEF InodeInv, InodeTypes, Places
  <2>2. arg' \in [Callers -> Names \cup {AnyName}]
    BY <1>1 DEF InodeInv, InodeTypes
  <2> QED
    BY <1>1, <2>1, <2>2 DEF InodeInv, InodeTypes
<1>5. RefInv' /\ FileInv'
  BY <1>1, PointersStay, FileFrame DEF InodeInv
<1>6. PlaceInv'
  <2>1. Place(c)'
    BY <1>1, <1>2 DEF Place, InIput
  <2> QED
    BY <1>3, <2>1, PlaceFrame DEF InodeInv
<1>7. InodeLockInv'
  <2> SUFFICES ASSUME NEW e \in Callers, NEW t \in Slots
               PROVE  ilockedBy'[t] = e <=> HasLock(e, t)'
    BY DEF InodeLockInv
  <2>1. HasLock(e, t) <=> HasLock(e, t)'
    BY <1>1, <1>2, <1>3 DEF OthersStay, HasLock
  <2> QED
    BY <1>1, <2>1 DEF InodeInv, InodeLockInv
<1>8. CopyInv'
  <2> SUFFICES ASSUME NEW s \in Slots PROVE CopyAt(s)'
    BY DEF CopyInv
  <2>1. CASE slot[s].ref > 0
    BY <1>1, <1>3, <2>1, CopyKept
  <2> QED
    BY <1>1, <2>1 DEF CopyAt
<1>9. FreeInv'
  BY <1>1, <1>2, <1>3, FreeFrame
<1>10. LinkInv' /\ DirInv'
  <2>1. Pending(c) /\ Pending(c)'
    BY <1>1, <1>2 DEF Pending
  <2> QED
    BY <1>1, <1>2, <1>3, <1>4, <1>5, <2>1, LinkFrame, DirQuiet
<1> QED
  BY <1>3, <1>4, <1>5, <1>6, <1>7, <1>8, <1>9, <1>10 DEF InodeInv

\* The name is entered: the link is no longer in flight.
LEMMA LinkEnterKeeps ==
    ASSUME InodeInv, NEW c \in Callers, LinkDir(c), dir[arg[c]] = 0
    PROVE  InodeInv'
<1>0. PICK s, n, m : s = ip[c] /\ n = slot[s].inum /\ m = arg[c]
  OBVIOUS
<1>1. /\ where[c] = "linkdir" /\ dirLock = Unheld
      /\ dir' = [dir EXCEPT ![m] = n] /\ put' = [put EXCEPT ![c] = s]
      /\ ip' = [ip EXCEPT ![c] = 0] /\ where' = [where EXCEPT ![c] = "iput"]
      /\ arg' = [arg EXCEPT ![c] = AnyName]
      /\ UNCHANGED <<slot, dirLock, dinode, ilockedBy, file, fds>>
  BY <1>0 DEF LinkDir, Goto, DropName
<1>2. /\ s # 0 /\ put[c] = 0 /\ dirLock # c /\ m \in Names /\ dir[m] = 0
      /\ where'[c] = "iput" /\ ip'[c] = 0 /\ put'[c] = s
  BY <1>0, <1>1 DEF InodeInv, InodeTypes, PlaceInv, Place, InIput
<1>3. s \in Slots /\ slot[s].ref > 0 /\ n \in DInums /\ dinode[n].type # 0
  <2>1. s \in Slots /\ slot[s].ref > 0 /\ n \in DInums
    BY <1>0, <1>2, Referenced DEF InodeInv, PointersCounted, SlotInv
  <2> QED
    BY <1>0, <1>2, <2>1 DEF InodeInv, UsedAllocated
<1>4. OthersStay(c) /\ InumsStay /\ SlotInv'
  <2>1. OthersStay(c)
    BY <1>1 DEF InodeInv, InodeTypes, OthersStay
  <2> QED
    BY <1>1, <2>1 DEF InodeInv, InumsStay, SlotInv
<1>5. InodeTypes'
  <2>1. /\ where' \in [Callers -> Places] /\ put' \in [Callers -> Slots \cup {0}]
        /\ ip' \in [Callers -> Slots \cup {0}]
    BY <1>1, <1>3 DEF InodeInv, InodeTypes, Places
  <2>2. arg' \in [Callers -> Names \cup {AnyName}] /\ dir' \in [Names -> DInums \cup {0}]
    BY <1>1, <1>3 DEF InodeInv, InodeTypes
  <2> QED
    BY <1>1, <2>1, <2>2 DEF InodeInv, InodeTypes
<1>6. RefInv'
  <2> SUFFICES ASSUME NEW t \in Slots
               PROVE  slot'[t].ref = Cardinality(FileUsers(t)') + Cardinality(IpUsers(t)')
                                     + Cardinality(PutUsers(t)')
    BY DEF RefInv
  <2>1. FileUsers(t)' = FileUsers(t)
    BY <1>1 DEF FileUsers
  <2>2. /\ Cardinality(IpUsers(t)')
             = Cardinality(IpUsers(t)) - One(ip[c] = t) + One(ip'[c] = t)
        /\ Cardinality(PutUsers(t)')
             = Cardinality(PutUsers(t)) - One(put[c] = t) + One(put'[c] = t)
    BY <1>4, UsersMove DEF InodeInv, OthersStay
  <2>3. slot[t].ref = Cardinality(FileUsers(t)) + Cardinality(IpUsers(t))
                        + Cardinality(PutUsers(t))
    BY DEF InodeInv, RefInv
  <2>4. /\ Cardinality(FileUsers(t)) \in Nat /\ Cardinality(IpUsers(t)) \in Nat
        /\ Cardinality(PutUsers(t)) \in Nat
    BY Counted DEF InodeInv
  <2>5. t # 0 /\ slot'[t].ref = slot[t].ref
    BY <1>1, InodeFinite
  <2> QED
    BY <1>0, <1>2, <2>1, <2>2, <2>3, <2>4, <2>5 DEF One
<1>7. FileInv' /\ NamedAllocated' /\ UsedAllocated'
  <2>1. FileInv'
    BY <1>1, FileFrame DEF InodeInv
  <2>2. NamedAllocated'
    BY <1>1, <1>3 DEF InodeInv, InodeTypes, NamedAllocated
  <2>3. UsedAllocated'
    BY <1>1 DEF InodeInv, InodeTypes, UsedAllocated
  <2> QED
    BY <2>1, <2>2, <2>3
<1>8. PlaceInv'
  <2>1. Place(c)'
    BY <1>1, <1>2 DEF Place, InIput
  <2> QED
    BY <1>4, <2>1, PlaceFrame DEF InodeInv
<1>9. InodeLockInv'
  <2> SUFFICES ASSUME NEW e \in Callers, NEW t \in Slots
               PROVE  ilockedBy'[t] = e <=> HasLock(e, t)'
    BY DEF InodeLockInv
  <2>1. HasLock(e, t) <=> HasLock(e, t)'
    BY <1>1, <1>2, <1>4 DEF OthersStay, HasLock
  <2> QED
    BY <1>1, <2>1 DEF InodeInv, InodeLockInv
<1>10. CopyInv'
  <2> SUFFICES ASSUME NEW t \in Slots PROVE CopyAt(t)'
    BY DEF CopyInv
  <2>1. CASE slot[t].ref > 0
    BY <1>1, <1>4, <2>1, CopyKept
  <2> QED
    BY <1>1, <2>1 DEF CopyAt
<1>11. FreeInv'
  BY <1>1, <1>2, <1>4, FreeFrame
<1>12. LinkInv'
  <2>1. Pending(c) /\ ~Pending(c)'
    BY <1>1, <1>2 DEF Pending
  <2>2. One(Pending(c)) = 1 /\ One(Pending(c)') = 0 /\ dinode[n].nlink \in Nat
    BY <1>3, <2>1 DEF One, InodeInv, InodeTypes, Dinodes
  <2>3. dinode'[n].nlink = dinode[n].nlink + 1 - One(Pending(c)) + One(Pending(c)')
    BY <1>1, <2>2
  <2>4. Counts(c, n, m)
    BY <1>1, <1>2, <2>3 DEF Counts
  <2> QED
    BY <1>0, <1>1, <1>3, <1>4, <1>5, <1>6, <2>1, <2>4, RelinkLinks
<1>13. DirInv'
  <2>1. \A e \in Callers : where[e] \notin {"create", "unlink"}
    BY <1>1, InodeFinite DEF InodeInv, PlaceInv, Place
  <2>2. DirAt(c)'
    BY <1>2 DEF DirAt
  <2> QED
    BY <1>4, <1>5, <1>6, <2>1, <2>2, DirFrame
<1> QED
  BY <1>4, <1>5, <1>6, <1>7, <1>8, <1>9, <1>10, <1>11, <1>12, <1>13 DEF InodeInv

\* The name exists: dirlink gets its inode, to give it up with iput.
LEMMA LinkExistsKeeps ==
    ASSUME InodeInv, NEW c \in Callers, LinkDir(c), dir[arg[c]] # 0
    PROVE  InodeInv'
<1>0. PICK n, s : n = dir[arg[c]] /\ s = IgetSlot(n)
  OBVIOUS
<1>1. /\ where[c] = "linkdir" /\ dirLock = Unheld /\ slot' = Iget(n)
      /\ put' = [put EXCEPT ![c] = s] /\ dirLock' = c
      /\ where' = [where EXCEPT ![c] = "iput"] /\ arg' = [arg EXCEPT ![c] = AnyName]
      /\ UNCHANGED <<dir, ip, dinode, ilockedBy, file, fds>>
  BY <1>0 DEF LinkDir, Goto, DropName
<1>2. n \in DInums /\ dinode[n].nlink > 0 /\ dinode[n].type # 0
  <2>1. arg[c] \in Names
    BY <1>1 DEF InodeInv, PlaceInv, Place
  <2> QED
    BY <1>0, <2>1, NamedLinked
<1>3. /\ s \in Slots /\ slot'[s].inum = n
      /\ slot' \in [Slots -> Entries] /\ SlotInv' /\ InumsStay
      /\ \A t \in Slots : slot'[t].ref = slot[t].ref + One(t = s)
      /\ \A t \in Slots \ {s} : slot'[t] = slot[t] /\ (slot[t].ref > 0 => slot[t].inum # n)
      /\ slot[s].ref > 0 => /\ slot[s].inum = n
                            /\ slot'[s].valid = slot[s].valid /\ slot'[s].copy = slot[s].copy
      /\ ~(slot[s].ref > 0) => ~slot'[s].valid
  BY <1>0, <1>1, <1>2, IgetKeeps
<1>4. ip[c] # 0 /\ put[c] = 0 /\ \A e \in Callers : dirLock # e
  BY <1>1, InodeFinite DEF InodeInv, PlaceInv, Place, InIput
<1>5. where'[c] = "iput" /\ ip'[c] = ip[c] /\ put'[c] = s /\ s # 0
  BY <1>1, <1>3, InodeFinite DEF InodeInv, InodeTypes
<1>6. OthersStay(c)
  BY <1>1, <1>4 DEF InodeInv, InodeTypes, OthersStay
<1>7. InodeTypes'
  <2>1. /\ where' \in [Callers -> Places] /\ put' \in [Callers -> Slots \cup {0}]
        /\ dirLock' \in Callers \cup {Unheld}
    BY <1>1, <1>3 DEF InodeInv, InodeTypes, Places
  <2>2. arg' \in [Callers -> Names \cup {AnyName}]
    BY <1>1 DEF InodeInv, InodeTypes
  <2> QED
    BY <1>1, <1>3, <2>1, <2>2 DEF InodeInv, InodeTypes
<1>8. RefInv'
  BY <1>1, <1>3, <1>4, <1>5, <1>6, IgetCounted
<1>9. FileInv' /\ NamedAllocated'
  BY <1>1, FileFrame DEF InodeInv, NamedAllocated
<1>10. PlaceInv'
  <2>1. Place(c)'
    BY <1>1, <1>4, <1>5 DEF Place, InIput
  <2> QED
    BY <1>6, <2>1, PlaceFrame DEF InodeInv
<1>11. InodeLockInv'
  <2> SUFFICES ASSUME NEW e \in Callers, NEW t \in Slots
               PROVE  ilockedBy'[t] = e <=> HasLock(e, t)'
    BY DEF InodeLockInv
  <2>1. HasLock(e, t) <=> HasLock(e, t)'
    BY <1>1, <1>5, <1>6 DEF OthersStay, HasLock
  <2> QED
    BY <1>1, <2>1 DEF InodeInv, InodeLockInv
<1>12. CopyInv'
  BY <1>1, <1>2, <1>3, <1>6, IgetCopies
<1>13. FreeInv'
  <2>1. ~\E e \in Callers : where[e] = "ifree" /\ put[e] = s
    <3> SUFFICES ASSUME NEW e \in Callers, where[e] = "ifree", put[e] = s PROVE FALSE
      OBVIOUS
    <3>1. slot[s].ref = 1 /\ dinode[slot[s].inum].nlink = 0
      BY Freeing
    <3> QED
      BY <1>2, <1>3, <3>1
  <2> QED
    BY <1>3, <1>5, <1>6, <2>1, FreeFrame
<1>14. UsedAllocated'
  <2>1. dinode'[slot'[ip'[c]].inum].type # 0
    <3>1. PointersCounted /\ PointersCounted'
      BY <1>7, <1>8, Referenced, ReferencedNext DEF InodeInv
    <3>2. slot'[ip[c]].inum = slot[ip[c]].inum
      BY <1>3, <1>4, <1>5, <3>1 DEF PointersCounted, InumsStay
    <3> QED
      BY <1>1, <1>4, <1>5, <3>2 DEF InodeInv, UsedAllocated
  <2> QED
    BY <1>1, <1>3, <1>6, <1>7, <1>8, <2>1, AllocFrame
<1>15. LinkInv'
  <2>1. Pending(c) /\ Pending(c)'
    BY <1>1, <1>5 DEF Pending
  <2> QED
    BY <1>1, <1>3, <1>5, <1>6, <1>7, <1>8, <2>1, LinkFrame
<1>16. DirInv'
  BY <1>1, <1>3, <1>5, <1>6, <1>7, <1>8, DirQuiet
<1> QED
  BY <1>3, <1>7, <1>8, <1>9, <1>10, <1>11, <1>12, <1>13, <1>14, <1>15, <1>16 DEF InodeInv

-----------------------------------------------------------------------------
(* Files and descriptors.                                                  *)

\* One descriptor changes.
SetFd(e, d, g) == fds' = [fds EXCEPT ![e][d] = g]
LEMMA DescriptorMoves ==
    ASSUME InodeTypes, NEW e \in Callers, NEW d \in Fds, NEW g, SetFd(e, d, g), NEW f
    PROVE  /\ Cardinality(Descriptors(f)) \in Nat
           /\ Cardinality(Descriptors(f)')
                = Cardinality(Descriptors(f)) - One(fds[e][d] = f) + One(g = f)
<1>1. fds'[e][d] = g /\ \A b \in Callers, a \in Fds : <<b, a>> # <<e, d>> => fds'[b][a] = fds[b][a]
  BY DEF InodeTypes, SetFd
<1>2. \A y : y # <<e, d>> => (y \in Descriptors(f) <=> y \in Descriptors(f)')
  BY <1>1 DEF Descriptors
<1>3. IsFiniteSet(Descriptors(f))
  BY InodeFinite, FS_Subset DEF Descriptors
<1>4. /\ Cardinality(Descriptors(f)) \in Nat
      /\ Cardinality(Descriptors(f)')
           = Cardinality(Descriptors(f)) - One(<<e, d>> \in Descriptors(f))
             + One(<<e, d>> \in Descriptors(f)')
  BY <1>2, <1>3, CountMoves
<1>5. (<<e, d>> \in Descriptors(f) <=> fds[e][d] = f) /\ (<<e, d>> \in Descriptors(f)' <=> g = f)
  BY <1>1 DEF Descriptors
<1> QED
  BY <1>4, <1>5

\* A step of a process without links in flight that leaves the cache, the disk
\* and the directory alone.
LEMMA FileStep ==
    ASSUME InodeInv, NEW c \in Callers, OthersStay(c), UNCHANGED <<slot, dinode, dir>>,
           InodeTypes', RefInv', dirLock' # c, dirLock # c,
           where[c] \in {"user", "file"}, where'[c] \in {"user", "iput"}, ip'[c] = 0,
           \A e \in Callers \ {c} : where[e] = "create" => FileUsers(ip[e])' = {}
    PROVE  /\ SlotInv' /\ CopyInv' /\ FreeInv' /\ NamedAllocated' /\ LinkInv' /\ DirInv'
<1>1. SlotInv' /\ NamedAllocated' /\ InumsStay
  BY DEF InodeInv, SlotInv, NamedAllocated, InumsStay
<1>2. CopyInv'
  <2> SUFFICES ASSUME NEW s \in Slots PROVE CopyAt(s)'
    BY DEF CopyInv
  <2>1. CASE slot[s].ref > 0
    BY <2>1, CopyKept
  <2> QED
    BY <2>1 DEF CopyAt
<1>3. FreeInv'
  BY FreeFrame
<1>4. LinkInv'
  <2>1. ~Pending(c) /\ ~Pending(c)'
    BY DEF Pending
  <2> QED
    BY <1>1, <2>1, LinkFrame
<1>5. DirInv'
  <2>1. DirAt(c)'
    BY DEF DirAt
  <2>2. ASSUME NEW e \in Callers \ {c}, where[e] = "create"
        PROVE  dinode'[slot[ip[e]].inum].nlink = 0 /\ ip'[c] # ip[e]
    BY <2>2 DEF InodeInv, PlaceInv, Place, DirInv, DirAt
  <2> QED
    BY <1>1, <2>1, <2>2, DirFrame
<1> QED
  BY <1>1, <1>2, <1>3, <1>4, <1>5

\* The file takes the process's pointer to the inode over.
LEMMA OpenFileKeeps ==
    ASSUME InodeInv, NEW c \in Callers, OpenFile(c), FreeFiles # {}, FreeFds(c) # {}
    PROVE  InodeInv'
<1>0. PICK s, f, d : s = ip[c] /\ f = First(FreeFiles) /\ d = First(FreeFds(c))
  OBVIOUS
<1>1. /\ where[c] = "file" /\ ilockedBy' = [ilockedBy EXCEPT ![s] = Unheld]
      /\ ip' = [ip EXCEPT ![c] = 0] /\ where' = [where EXCEPT ![c] = "user"]
      /\ file' = [file EXCEPT ![f] = [ref |-> 1, ip |-> s]]
      /\ fds' = [fds EXCEPT ![c][d] = f]
      /\ UNCHANGED <<dinode, dir, dirLock, slot, put, arg>>
  BY <1>0 DEF OpenFile, Goto
<1>2. f \in Files /\ file[f].ref = 0 /\ d \in Fds /\ fds[c][d] = 0
  <2>1. FreeFiles \subseteq Nat /\ FreeFds(c) \subseteq Nat
    BY InodeFinite DEF FreeFiles, FreeFds
  <2>2. f \in FreeFiles /\ d \in FreeFds(c)
    BY <1>0, <2>1, FirstIn
  <2> QED
    BY <2>2 DEF FreeFiles, FreeFds
<1>3. s # 0 /\ s \in Slots /\ put[c] = 0 /\ dirLock # c
  <2>1. s # 0 /\ put[c] = 0 /\ dirLock # c
    BY <1>0, <1>1 DEF InodeInv, PlaceInv, Place, InIput
  <2> QED
    BY <1>0, <2>1, Referenced DEF InodeInv, PointersCounted
<1>4. /\ where'[c] = "user" /\ ip'[c] = 0 /\ put'[c] = 0
      /\ file'[f] = [ref |-> 1, ip |-> s] /\ \A g \in Files \ {f} : file'[g] = file[g]
  BY <1>1, <1>2, <1>3 DEF InodeInv, InodeTypes
<1>5. OthersStay(c)
  BY <1>1 DEF InodeInv, InodeTypes, OthersStay
<1>6. InodeTypes'
  <2>1. /\ where' \in [Callers -> Places] /\ ip' \in [Callers -> Slots \cup {0}]
        /\ ilockedBy' \in [Slots -> Callers \cup {Unheld}]
    BY <1>1 DEF InodeInv, InodeTypes, Places
  <2>2. file' \in [Files -> [ref : Nat, ip : Slots \cup {0}]]
    BY <1>1, <1>2, <1>3 DEF InodeInv, InodeTypes
  <2>3. fds' \in [Callers -> [Fds -> Files \cup {0}]]
    BY <1>1, <1>2 DEF InodeInv, InodeTypes
  <2> QED
    BY <1>1, <2>1, <2>2, <2>3 DEF InodeInv, InodeTypes
<1>7. RefInv'
  <2> SUFFICES ASSUME NEW t \in Slots
               PROVE  slot'[t].ref = Cardinality(FileUsers(t)') + Cardinality(IpUsers(t)')
                                     + Cardinality(PutUsers(t)')
    BY DEF RefInv
  <2>1. Cardinality(FileUsers(t)')
          = Cardinality(FileUsers(t)) - One(file[f].ref > 0 /\ file[f].ip = t)
            + One(file'[f].ref > 0 /\ file'[f].ip = t)
    BY <1>2, <1>4, FileMoves DEF InodeInv
  <2>2. Cardinality(FileUsers(t)') = Cardinality(FileUsers(t)) - 0 + One(s = t)
    BY <1>2, <1>4, <2>1 DEF One
  <2>3. /\ Cardinality(IpUsers(t)')
             = Cardinality(IpUsers(t)) - One(ip[c] = t) + One(ip'[c] = t)
        /\ Cardinality(PutUsers(t)')
             = Cardinality(PutUsers(t)) - One(put[c] = t) + One(put'[c] = t)
    BY <1>5, UsersMove DEF InodeInv, OthersStay
  <2>4. slot[t].ref = Cardinality(FileUsers(t)) + Cardinality(IpUsers(t))
                        + Cardinality(PutUsers(t))
    BY DEF InodeInv, RefInv
  <2>5. /\ Cardinality(FileUsers(t)) \in Nat /\ Cardinality(IpUsers(t)) \in Nat
        /\ Cardinality(PutUsers(t)) \in Nat
    BY Counted DEF InodeInv
  <2>6. t # 0 /\ slot'[t].ref = slot[t].ref
    BY <1>1, InodeFinite
  <2> QED
    BY <1>0, <1>3, <1>4, <2>2, <2>3, <2>4, <2>5, <2>6 DEF One
<1>8. FileInv'
  <2> SUFFICES ASSUME NEW g \in Files
               PROVE  /\ file'[g].ref = Cardinality(Descriptors(g)')
                      /\ file'[g].ref > 0 => file'[g].ip \in Slots
    BY DEF FileInv
  <2>1. /\ Cardinality(Descriptors(g)) \in Nat
        /\ Cardinality(Descriptors(g)')
             = Cardinality(Descriptors(g)) - One(fds[c][d] = g) + One(f = g)
    <3>1. InodeTypes /\ d \in Fds /\ SetFd(c, d, f)
      BY <1>1, <1>2 DEF InodeInv, SetFd
    <3> QED
      BY <3>1, DescriptorMoves
  <2>2. /\ file[g].ref = Cardinality(Descriptors(g)) /\ g # 0
        /\ file[g].ref > 0 => file[g].ip \in Slots
    BY InodeFinite DEF InodeInv, FileInv
  <2>3. file'[g].ref = file[g].ref + One(f = g)
    BY <1>2, <1>4, <2>1, <2>2 DEF One
  <2>4. file'[g].ref > 0 => file'[g].ip \in Slots
    BY <1>3, <1>4, <2>2
  <2> QED
    BY <1>2, <2>1, <2>2, <2>3, <2>4 DEF One
<1>9. UsedAllocated'
  <2>1. dinode[slot[s].inum].type # 0
    BY <1>0, <1>3 DEF InodeInv, UsedAllocated
  <2>2. ASSUME NEW g \in Files, file'[g].ref > 0
        PROVE  dinode'[slot'[file'[g].ip].inum].type # 0
    BY <1>1, <1>4, <2>1, <2>2 DEF InodeInv, UsedAllocated
  <2>3. ASSUME NEW e \in Callers, ip'[e] # 0 PROVE dinode'[slot'[ip'[e]].inum].type # 0
    BY <1>1, <1>4, <1>5, <2>3 DEF OthersStay, InodeInv, UsedAllocated
  <2> QED
    BY <2>2, <2>3 DEF UsedAllocated
<1>10. PlaceInv'
  <2>1. Place(c)'
    BY <1>1, <1>3, <1>4 DEF Place, InIput
  <2> QED
    BY <1>5, <2>1, PlaceFrame DEF InodeInv
<1>11. InodeLockInv'
  <2> SUFFICES ASSUME NEW e \in Callers, NEW t \in Slots
               PROVE  ilockedBy'[t] = e <=> HasLock(e, t)'
    BY DEF InodeLockInv
  <2>1. e # c => (HasLock(e, t) <=> HasLock(e, t)')
    BY <1>5 DEF OthersStay, HasLock
  <2>2. ~HasLock(c, t)' /\ (HasLock(c, t) <=> t = s)
    BY <1>0, <1>1, <1>4 DEF HasLock
  <2>3. (ilockedBy[t] = e <=> HasLock(e, t)) /\ ilockedBy[s] = c
    BY <1>0, <1>1, <1>3 DEF InodeInv, InodeLockInv, HasLock
  <2>4. ilockedBy'[t] = IF t = s THEN Unheld ELSE ilockedBy[t]
    BY <1>1, <1>3 DEF InodeInv, InodeTypes
  <2> QED
    BY <2>1, <2>2, <2>3, <2>4, InodeFinite
<1>12. SlotInv' /\ CopyInv' /\ FreeInv' /\ NamedAllocated' /\ LinkInv' /\ DirInv'
  <2>1. ASSUME NEW e \in Callers \ {c}, where[e] = "create" PROVE FileUsers(ip[e])' = {}
    <3>1. IpUsers(ip[e]) = {e} /\ FileUsers(ip[e]) = {} /\ ip'[e] = ip[e]
      BY <1>5, <2>1 DEF InodeInv, DirInv, DirAt, OthersStay
    <3>2. ip[e] # s
      BY <1>0, <3>1 DEF IpUsers
    <3> QED
      BY <1>4, <3>1, <3>2 DEF FileUsers
  <2> QED
    BY <1>1, <1>3, <1>4, <1>5, <1>6, <1>7, <2>1, FileStep
<1> QED
  BY <1>6, <1>7, <1>8, <1>9, <1>10, <1>11, <1>12 DEF InodeInv

\* No file or no descriptor is left: open gives the inode up.
LEMMA OpenFailKeeps ==
    ASSUME InodeInv, NEW c \in Callers, OpenFile(c), FreeFiles = {} \/ FreeFds(c) = {}
    PROVE  InodeInv'
<1>0. PICK s : s = ip[c]
  OBVIOUS
<1>1. /\ where[c] = "file" /\ ilockedBy' = [ilockedBy EXCEPT ![s] = Unheld]
      /\ ip' = [ip EXCEPT ![c] = 0] /\ where' = [where EXCEPT ![c] = "iput"]
      /\ put' = [put EXCEPT ![c] = s]
      /\ UNCHANGED <<dinode, dir, dirLock, slot, file, fds, arg>>
  BY <1>0 DEF OpenFile, Goto
<1>2. s # 0 /\ s \in Slots /\ put[c] = 0 /\ dirLock # c
  <2>1. s # 0 /\ put[c] = 0 /\ dirLock # c
    BY <1>0, <1>1 DEF InodeInv, PlaceInv, Place, InIput
  <2> QED
    BY <1>0, <2>1, Referenced DEF InodeInv, PointersCounted
<1>3. where'[c] = "iput" /\ ip'[c] = 0 /\ put'[c] = s
  BY <1>1 DEF InodeInv, InodeTypes
<1>4. OthersStay(c)
  BY <1>1 DEF InodeInv, InodeTypes, OthersStay
<1>5. InodeTypes'
  <2>1. /\ where' \in [Callers -> Places] /\ ip' \in [Callers -> Slots \cup {0}]
        /\ put' \in [Callers -> Slots \cup {0}]
        /\ ilockedBy' \in [Slots -> Callers \cup {Unheld}]
    BY <1>1, <1>2 DEF InodeInv, InodeTypes, Places
  <2> QED
    BY <1>1, <2>1 DEF InodeInv, InodeTypes
<1>6. FileInv' /\ \A t : FileUsers(t)' = FileUsers(t)
  BY <1>1, FileFrame DEF InodeInv
<1>7. RefInv'
  <2> SUFFICES ASSUME NEW t \in Slots
               PROVE  slot'[t].ref = Cardinality(FileUsers(t)') + Cardinality(IpUsers(t)')
                                     + Cardinality(PutUsers(t)')
    BY DEF RefInv
  <2>1. FileUsers(t)' = FileUsers(t)
    BY <1>6
  <2>2. /\ Cardinality(IpUsers(t)')
             = Cardinality(IpUsers(t)) - One(ip[c] = t) + One(ip'[c] = t)
        /\ Cardinality(PutUsers(t)')
             = Cardinality(PutUsers(t)) - One(put[c] = t) + One(put'[c] = t)
    BY <1>4, UsersMove DEF InodeInv, OthersStay
  <2>3. slot[t].ref = Cardinality(FileUsers(t)) + Cardinality(IpUsers(t))
                        + Cardinality(PutUsers(t))
    BY DEF InodeInv, RefInv
  <2>4. /\ Cardinality(FileUsers(t)) \in Nat /\ Cardinality(IpUsers(t)) \in Nat
        /\ Cardinality(PutUsers(t)) \in Nat
    BY Counted DEF InodeInv
  <2>5. t # 0 /\ slot'[t].ref = slot[t].ref
    BY <1>1, InodeFinite
  <2> QED
    BY <1>0, <1>2, <1>3, <2>1, <2>2, <2>3, <2>4, <2>5 DEF One
<1>8. UsedAllocated'
  BY <1>1, <1>3, <1>4 DEF OthersStay, InodeInv, UsedAllocated
<1>9. PlaceInv'
  <2>1. Place(c)'
    BY <1>1, <1>2, <1>3 DEF Place, InIput
  <2> QED
    BY <1>4, <2>1, PlaceFrame DEF InodeInv
<1>10. InodeLockInv'
  <2> SUFFICES ASSUME NEW e \in Callers, NEW t \in Slots
               PROVE  ilockedBy'[t] = e <=> HasLock(e, t)'
    BY DEF InodeLockInv
  <2>1. e # c => (HasLock(e, t) <=> HasLock(e, t)')
    BY <1>4 DEF OthersStay, HasLock
  <2>2. ~HasLock(c, t)' /\ (HasLock(c, t) <=> t = s)
    BY <1>0, <1>1, <1>3 DEF HasLock
  <2>3. (ilockedBy[t] = e <=> HasLock(e, t)) /\ ilockedBy[s] = c
    BY <1>0, <1>1, <1>2 DEF InodeInv, InodeLockInv, HasLock
  <2>4. ilockedBy'[t] = IF t = s THEN Unheld ELSE ilockedBy[t]
    BY <1>1, <1>2 DEF InodeInv, InodeTypes
  <2> QED
    BY <2>1, <2>2, <2>3, <2>4, InodeFinite
<1>11. SlotInv' /\ CopyInv' /\ FreeInv' /\ NamedAllocated' /\ LinkInv' /\ DirInv'
  <2>1. ASSUME NEW e \in Callers \ {c}, where[e] = "create" PROVE FileUsers(ip[e])' = {}
    <3>1. FileUsers(ip[e]) = {} /\ ip'[e] = ip[e]
      BY <1>4, <2>1 DEF InodeInv, DirInv, DirAt, OthersStay
    <3> QED
      BY <1>1, <3>1 DEF FileUsers
  <2> QED
    BY <1>1, <1>2, <1>3, <1>4, <1>5, <1>7, <2>1, FileStep
<1> QED
  BY <1>5, <1>6, <1>7, <1>8, <1>9, <1>10, <1>11 DEF InodeInv

\* An open descriptor leads to a file in use, and that to an entry in use.
LEMMA Opened ==
    ASSUME InodeInv, NEW c \in Callers, NEW d \in Fds, fds[c][d] # 0
    PROVE  /\ fds[c][d] \in Files /\ file[fds[c][d]].ref > 0
           /\ file[fds[c][d]].ip \in Slots
           /\ file[fds[c][d]] \in [ref : Nat, ip : Slots \cup {0}]
<1>0. PICK f : f = fds[c][d]
  OBVIOUS
<1>1. f \in Files /\ file[f] \in [ref : Nat, ip : Slots \cup {0}]
  BY <1>0 DEF InodeInv, InodeTypes
<1>2. IsFiniteSet(Descriptors(f)) /\ Descriptors(f) # {}
  <2>1. <<c, d>> \in Descriptors(f)
    BY <1>0 DEF Descriptors
  <2> QED
    BY <2>1, InodeFinite, FS_Subset DEF Descriptors
<1>3. Cardinality(Descriptors(f)) \in Nat /\ Cardinality(Descriptors(f)) # 0
  BY <1>2, FS_EmptySet, FS_CardinalityType
<1>4. file[f].ref > 0
  BY <1>1, <1>3 DEF InodeInv, FileInv
<1> QED
  BY <1>0, <1>1, <1>4 DEF InodeInv, FileInv

\* Another descriptor for the file: one more reference of the file, none of the inode.
LEMMA DupKeeps ==
    ASSUME InodeInv, NEW c \in Callers, NEW d \in Fds, NEW e \in Callers, Dup(c, d, e)
    PROVE  InodeInv'
<1>0. PICK f, k : f = fds[c][d] /\ k = First(FreeFds(e))
  OBVIOUS
<1>1. /\ where[c] = "user" /\ f # 0 /\ FreeFds(e) # {}
      /\ fds' = [fds EXCEPT ![e][k] = f] /\ file' = [file EXCEPT ![f].ref = @ + 1]
      /\ UNCHANGED <<dinode, dir, dirLock, slot, ilockedBy, where, ip, put, arg>>
  BY <1>0 DEF Dup
<1>2. /\ f \in Files /\ file[f].ref > 0 /\ file[f].ip \in Slots
      /\ file[f] \in [ref : Nat, ip : Slots \cup {0}]
  BY <1>0, <1>1, Opened
<1>3. k \in Fds /\ fds[e][k] = 0
  <2>1. FreeFds(e) \subseteq Nat
    BY InodeFinite DEF FreeFds
  <2>2. k \in FreeFds(e)
    BY <1>0, <1>1, <2>1, FirstIn
  <2> QED
    BY <2>2 DEF FreeFds
<1>4. /\ file'[f].ref = file[f].ref + 1 /\ file'[f].ip = file[f].ip
      /\ \A g \in Files \ {f} : file'[g] = file[g]
      /\ file' \in [Files -> [ref : Nat, ip : Slots \cup {0}]]
  <2>1. PICK r : r = [file[f] EXCEPT !.ref = @ + 1]
    OBVIOUS
  <2>2. /\ r \in [ref : Nat, ip : Slots \cup {0}]
        /\ r.ref = file[f].ref + 1 /\ r.ip = file[f].ip
    BY <1>2, <2>1
  <2>3. file' = [file EXCEPT ![f] = r]
    BY <1>1, <2>1
  <2> QED
    BY <1>2, <2>2, <2>3 DEF InodeInv, InodeTypes
<1>5. ip[c] = 0 /\ dirLock # c
  BY <1>1 DEF InodeInv, PlaceInv, Place, InIput
<1>6. OthersStay(c)
  BY <1>1 DEF OthersStay
<1>7. InodeTypes'
  <2>1. fds' \in [Callers -> [Fds -> Files \cup {0}]]
    BY <1>1, <1>2, <1>3 DEF InodeInv, InodeTypes
  <2> QED
    BY <1>1, <1>4, <2>1 DEF InodeInv, InodeTypes
<1>8. /\ \A g \in Files : file'[g].ip = file[g].ip /\ (file'[g].ref > 0 <=> file[g].ref > 0)
      /\ \A t : FileUsers(t)' = FileUsers(t) /\ IpUsers(t)' = IpUsers(t) /\ PutUsers(t)' = PutUsers(t)
  <2>1. \A g \in Files : file'[g].ip = file[g].ip /\ (file'[g].ref > 0 <=> file[g].ref > 0)
    BY <1>2, <1>4
  <2> QED
    BY <1>1, <2>1 DEF FileUsers, IpUsers, PutUsers
<1>9. RefInv'
  BY <1>1, <1>8 DEF InodeInv, RefInv
<1>10. FileInv'
  <2> SUFFICES ASSUME NEW g \in Files
               PROVE  /\ file'[g].ref = Cardinality(Descriptors(g)')
                      /\ file'[g].ref > 0 => file'[g].ip \in Slots
    BY DEF FileInv
  <2>1. /\ Cardinality(Descriptors(g)) \in Nat
        /\ Cardinality(Descriptors(g)')
             = Cardinality(Descriptors(g)) - One(fds[e][k] = g) + One(f = g)
    <3>1. InodeTypes /\ k \in Fds /\ SetFd(e, k, f)
      BY <1>1, <1>3 DEF InodeInv, SetFd
    <3> QED
      BY <3>1, DescriptorMoves
  <2>2. /\ file[g].ref = Cardinality(Descriptors(g)) /\ g # 0
        /\ file[g].ref > 0 => file[g].ip \in Slots
    BY InodeFinite DEF InodeInv, FileInv
  <2>3. file'[g].ref = file[g].ref + One(f = g)
    BY <1>4, <2>1, <2>2 DEF One
  <2> QED
    BY <1>3, <1>8, <2>1, <2>2, <2>3 DEF One
<1>11. UsedAllocated' /\ PlaceInv' /\ InodeLockInv'
  <2>1. UsedAllocated'
    BY <1>1, <1>8 DEF InodeInv, UsedAllocated
  <2>2. PlaceInv'
    BY <1>1 DEF InodeInv, PlaceInv, Place, InIput
  <2>3. InodeLockInv'
    BY <1>1 DEF InodeInv, InodeLockInv, HasLock
  <2> QED
    BY <2>1, <2>2, <2>3
<1>12. SlotInv' /\ CopyInv' /\ FreeInv' /\ NamedAllocated' /\ LinkInv' /\ DirInv'
  <2>1. ASSUME NEW b \in Callers \ {c}, where[b] = "create" PROVE FileUsers(ip[b])' = {}
    <3>1. FileUsers(ip[b]) = {}
      BY <2>1 DEF InodeInv, DirInv, DirAt
    <3> QED
      BY <1>1, <1>8, <3>1 DEF FileUsers
  <2> QED
    BY <1>1, <1>5, <1>6, <1>7, <1>9, <2>1, FileStep
<1> QED
  BY <1>7, <1>9, <1>10, <1>11, <1>12 DEF InodeInv

\* A descriptor goes and the file stays.
LEMMA CloseKeeps ==
    ASSUME InodeInv, NEW c \in Callers, NEW d \in Fds, SysClose(c, d), file[fds[c][d]].ref > 1
    PROVE  InodeInv'
<1>0. PICK f : f = fds[c][d]
  OBVIOUS
<1>1. /\ where[c] = "user" /\ f # 0 /\ file[f].ref > 1
      /\ fds' = [fds EXCEPT ![c][d] = 0] /\ file' = [file EXCEPT ![f].ref = @ - 1]
      /\ UNCHANGED <<dinode, dir, dirLock, slot, ilockedBy, where, ip, put, arg>>
  BY <1>0 DEF SysClose
<1>2. /\ f \in Files /\ file[f].ip \in Slots
      /\ file[f] \in [ref : Nat, ip : Slots \cup {0}]
  BY <1>0, <1>1, Opened
<1>3. /\ file'[f].ref = file[f].ref - 1 /\ file'[f].ip = file[f].ip
      /\ \A g \in Files \ {f} : file'[g] = file[g]
      /\ file' \in [Files -> [ref : Nat, ip : Slots \cup {0}]]
  BY <1>1, <1>2 DEF InodeInv, InodeTypes
<1>4. ip[c] = 0 /\ dirLock # c
  BY <1>1 DEF InodeInv, PlaceInv, Place, InIput
<1>5. OthersStay(c)
  BY <1>1 DEF OthersStay
<1>6. InodeTypes'
  <2>1. fds' \in [Callers -> [Fds -> Files \cup {0}]]
    BY <1>1 DEF InodeInv, InodeTypes
  <2> QED
    BY <1>1, <1>3, <2>1 DEF InodeInv, InodeTypes
<1>7. /\ \A g \in Files : file'[g].ip = file[g].ip /\ (file'[g].ref > 0 <=> file[g].ref > 0)
      /\ \A t : FileUsers(t)' = FileUsers(t) /\ IpUsers(t)' = IpUsers(t) /\ PutUsers(t)' = PutUsers(t)
  <2>1. \A g \in Files : file'[g].ip = file[g].ip /\ (file'[g].ref > 0 <=> file[g].ref > 0)
    BY <1>1, <1>2, <1>3
  <2> QED
    BY <1>1, <2>1 DEF FileUsers, IpUsers, PutUsers
<1>8. RefInv'
  BY <1>1, <1>7 DEF InodeInv, RefInv
<1>9. FileInv'
  <2> SUFFICES ASSUME NEW g \in Files
               PROVE  /\ file'[g].ref = Cardinality(Descriptors(g)')
                      /\ file'[g].ref > 0 => file'[g].ip \in Slots
    BY DEF FileInv
  <2>1. /\ Cardinality(Descriptors(g)) \in Nat
        /\ Cardinality(Descriptors(g)')
             = Cardinality(Descriptors(g)) - One(fds[c][d] = g) + One(0 = g)
    <3>1. InodeTypes /\ SetFd(c, d, 0)
      BY <1>1 DEF InodeInv, SetFd
    <3> QED
      BY <3>1, DescriptorMoves
  <2>2. /\ file[g].ref = Cardinality(Descriptors(g)) /\ g # 0
        /\ file[g].ref > 0 => file[g].ip \in Slots
    BY InodeFinite DEF InodeInv, FileInv
  <2>3. file'[g].ref = file[g].ref - One(f = g)
    BY <1>3, <2>1, <2>2 DEF One
  <2> QED
    BY <1>0, <1>7, <2>1, <2>2, <2>3 DEF One
<1>10. UsedAllocated' /\ PlaceInv' /\ InodeLockInv'
  <2>1. UsedAllocated'
    BY <1>1, <1>7 DEF InodeInv, UsedAllocated
  <2>2. PlaceInv'
    BY <1>1 DEF InodeInv, PlaceInv, Place, InIput
  <2>3. InodeLockInv'
    BY <1>1 DEF InodeInv, InodeLockInv, HasLock
  <2> QED
    BY <2>1, <2>2, <2>3
<1>11. SlotInv' /\ CopyInv' /\ FreeInv' /\ NamedAllocated' /\ LinkInv' /\ DirInv'
  <2>1. ASSUME NEW b \in Callers \ {c}, where[b] = "create" PROVE FileUsers(ip[b])' = {}
    <3>1. FileUsers(ip[b]) = {}
      BY <2>1 DEF InodeInv, DirInv, DirAt
    <3> QED
      BY <1>1, <1>7, <3>1 DEF FileUsers
  <2> QED
    BY <1>1, <1>4, <1>5, <1>6, <1>8, <2>1, FileStep
<1> QED
  BY <1>6, <1>8, <1>9, <1>10, <1>11 DEF InodeInv

\* The last descriptor goes: the file's pointer to the inode becomes iput's.
LEMMA LastCloseKeeps ==
    ASSUME InodeInv, NEW c \in Callers, NEW d \in Fds, SysClose(c, d), file[fds[c][d]].ref = 1
    PROVE  InodeInv'
<1>0. PICK f, s : f = fds[c][d] /\ s = file[f].ip
  OBVIOUS
<1>1. /\ where[c] = "user" /\ f # 0 /\ file[f].ref = 1
      /\ fds' = [fds EXCEPT ![c][d] = 0] /\ file' = [file EXCEPT ![f] = [ref |-> 0, ip |-> 0]]
      /\ put' = [put EXCEPT ![c] = s] /\ where' = [where EXCEPT ![c] = "iput"]
      /\ UNCHANGED <<dinode, dir, dirLock, slot, ilockedBy, ip, arg>>
  BY <1>0 DEF SysClose, Goto
<1>2. f \in Files /\ s \in Slots /\ s # 0
  BY <1>0, <1>1, Opened, InodeFinite
<1>3. /\ file'[f] = [ref |-> 0, ip |-> 0] /\ \A g \in Files \ {f} : file'[g] = file[g]
      /\ file' \in [Files -> [ref : Nat, ip : Slots \cup {0}]]
  BY <1>1, <1>2 DEF InodeInv, InodeTypes
<1>4. ip[c] = 0 /\ put[c] = 0 /\ dirLock # c
  BY <1>1 DEF InodeInv, PlaceInv, Place, InIput
<1>5. where'[c] = "iput" /\ ip'[c] = 0 /\ put'[c] = s
  BY <1>1, <1>4 DEF InodeInv, InodeTypes
<1>6. OthersStay(c)
  BY <1>1 DEF InodeInv, InodeTypes, OthersStay
<1>7. InodeTypes'
  <2>1. fds' \in [Callers -> [Fds -> Files \cup {0}]]
    BY <1>1 DEF InodeInv, InodeTypes
  <2>2. where' \in [Callers -> Places] /\ put' \in [Callers -> Slots \cup {0}]
    BY <1>1, <1>2 DEF InodeInv, InodeTypes, Places
  <2> QED
    BY <1>1, <1>3, <2>1, <2>2 DEF InodeInv, InodeTypes
<1>8. RefInv'
  <2> SUFFICES ASSUME NEW t \in Slots
               PROVE  slot'[t].ref = Cardinality(FileUsers(t)') + Cardinality(IpUsers(t)')
                                     + Cardinality(PutUsers(t)')
    BY DEF RefInv
  <2>1. Cardinality(FileUsers(t)')
          = Cardinality(FileUsers(t)) - One(file[f].ref > 0 /\ file[f].ip = t)
            + One(file'[f].ref > 0 /\ file'[f].ip = t)
    BY <1>2, <1>3, FileMoves DEF InodeInv
  <2>2. Cardinality(FileUsers(t)') = Cardinality(FileUsers(t)) - One(s = t) + 0
    BY <1>0, <1>1, <1>3, <2>1 DEF One
  <2>3. /\ Cardinality(IpUsers(t)')
             = Cardinality(IpUsers(t)) - One(ip[c] = t) + One(ip'[c] = t)
        /\ Cardinality(PutUsers(t)')
             = Cardinality(PutUsers(t)) - One(put[c] = t) + One(put'[c] = t)
    BY <1>6, UsersMove DEF InodeInv, OthersStay
  <2>4. slot[t].ref = Cardinality(FileUsers(t)) + Cardinality(IpUsers(t))
                        + Cardinality(PutUsers(t))
    BY DEF InodeInv, RefInv
  <2>5. /\ Cardinality(FileUsers(t)) \in Nat /\ Cardinality(IpUsers(t)) \in Nat
        /\ Cardinality(PutUsers(t)) \in Nat
    BY Counted DEF InodeInv
  <2>6. t # 0 /\ slot'[t].ref = slot[t].ref
    BY <1>1, InodeFinite
  <2> QED
    BY <1>4, <1>5, <2>2, <2>3, <2>4, <2>5, <2>6 DEF One
<1>9. FileInv'
  <2> SUFFICES ASSUME NEW g \in Files
               PROVE  /\ file'[g].ref = Cardinality(Descriptors(g)')
                      /\ file'[g].ref > 0 => file'[g].ip \in Slots
    BY DEF FileInv
  <2>1. /\ Cardinality(Descriptors(g)) \in Nat
        /\ Cardinality(Descriptors(g)')
             = Cardinality(Descriptors(g)) - One(fds[c][d] = g) + One(0 = g)
    <3>1. InodeTypes /\ SetFd(c, d, 0)
      BY <1>1 DEF InodeInv, SetFd
    <3> QED
      BY <3>1, DescriptorMoves
  <2>2. /\ file[g].ref = Cardinality(Descriptors(g)) /\ g # 0
        /\ file[g].ref > 0 => file[g].ip \in Slots
    BY InodeFinite DEF InodeInv, FileInv
  <2>3. /\ file'[g].ref = file[g].ref - One(f = g)
        /\ file'[g].ref > 0 => file'[g].ip \in Slots
    BY <1>1, <1>3, <2>1, <2>2 DEF One
  <2> QED
    BY <1>0, <2>1, <2>2, <2>3 DEF One
<1>10. UsedAllocated'
  <2>1. ASSUME NEW g \in Files, file'[g].ref > 0
        PROVE  dinode'[slot'[file'[g].ip].inum].type # 0
    BY <1>1, <1>3, <2>1 DEF InodeInv, UsedAllocated
  <2> QED
    BY <1>1, <2>1 DEF InodeInv, UsedAllocated
<1>11. PlaceInv'
  <2>1. Place(c)'
    BY <1>1, <1>2, <1>4, <1>5 DEF Place, InIput
  <2> QED
    BY <1>6, <2>1, PlaceFrame DEF InodeInv
<1>12. InodeLockInv'
  <2> SUFFICES ASSUME NEW e \in Callers, NEW t \in Slots
               PROVE  ilockedBy'[t] = e <=> HasLock(e, t)'
    BY DEF InodeLockInv
  <2>1. HasLock(e, t) <=> HasLock(e, t)'
    BY <1>1, <1>5, <1>6 DEF OthersStay, HasLock
  <2> QED
    BY <1>1, <2>1 DEF InodeInv, InodeLockInv
<1>13. SlotInv' /\ CopyInv' /\ FreeInv' /\ NamedAllocated' /\ LinkInv' /\ DirInv'
  <2>1. ASSUME NEW b \in Callers \ {c}, where[b] = "create" PROVE FileUsers(ip[b])' = {}
    <3>1. FileUsers(ip[b]) = {} /\ ip'[b] = ip[b]
      BY <1>6, <2>1 DEF InodeInv, DirInv, DirAt, OthersStay
    <3> QED
      BY <1>3, <3>1 DEF FileUsers
  <2> QED
    BY <1>1, <1>4, <1>5, <1>6, <1>7, <1>8, <2>1, FileStep
<1> QED
  BY <1>7, <1>8, <1>9, <1>10, <1>11, <1>12, <1>13 DEF InodeInv

-----------------------------------------------------------------------------
(* The invariant holds.                                                    *)

\* In an empty file system nothing points anywhere.
LEMMA InodeInitInv == InodeInit => InodeInv
<1> SUFFICES ASSUME InodeInit PROVE InodeInv
  OBVIOUS
<1> USE DEF InodeInit
<1>1. FreeDinode \in Dinodes /\ EmptySlot \in Entries /\ EmptySlot.ref = 0
  BY DEF FreeDinode, EmptySlot, Dinodes, Entries
<1>2. InodeTypes
  <2>1. /\ dinode \in [DInums -> Dinodes] /\ slot \in [Slots -> Entries]
        /\ dir \in [Names -> DInums \cup {0}]
    BY <1>1
  <2>2. /\ file \in [Files -> [ref : Nat, ip : Slots \cup {0}]]
        /\ fds \in [Callers -> [Fds -> Files \cup {0}]]
    OBVIOUS
  <2>3. where \in [Callers -> Places] /\ arg \in [Callers -> Names \cup {AnyName}]
    BY DEF Places
  <2> QED
    BY <2>1, <2>2, <2>3 DEF InodeTypes
<1>3. \A s \in Slots : slot[s].ref = 0
  BY <1>1
<1>4. Cardinality({}) = 0
  BY FS_EmptySet
<1>5. RefInv
  <2>1. \A s \in Slots : FileUsers(s) = {} /\ IpUsers(s) = {} /\ PutUsers(s) = {}
    BY InodeFinite DEF FileUsers, IpUsers, PutUsers
  <2>2. \A s \in Slots : /\ Cardinality(FileUsers(s)) = 0 /\ Cardinality(IpUsers(s)) = 0
                         /\ Cardinality(PutUsers(s)) = 0
    BY <1>4, <2>1, Zenon
  <2> QED
    BY <1>3, <2>2 DEF RefInv
<1>6. FileInv
  <2>1. \A f \in Files : Descriptors(f) = {} /\ file[f].ref = 0
    BY InodeFinite DEF Descriptors
  <2>2. \A f \in Files : Cardinality(Descriptors(f)) = 0
    BY <1>4, <2>1, Zenon
  <2> QED
    BY <2>1, <2>2 DEF FileInv
<1>7. LinkInv
  <2>1. \A c \in Callers : ~Pending(c)
    BY InodeFinite DEF Pending
  <2>2. \A n \in DInums : NameLinks(n) = {} /\ InFlight(n) = {} /\ dinode[n].nlink = 0
    BY <2>1, InodeFinite DEF NameLinks, InFlight, FreeDinode
  <2>3. \A n \in DInums : Cardinality(NameLinks(n)) = 0 /\ Cardinality(InFlight(n)) = 0
    BY <1>4, <2>2, Zenon
  <2> QED
    BY <2>2, <2>3 DEF LinkInv
<1>8. SlotInv /\ CopyInv
  BY <1>3 DEF SlotInv, CopyInv, CopyAt
<1>9. PlaceInv
  BY InodeFinite DEF PlaceInv, Place, InIput
<1>10. InodeLockInv
  BY InodeFinite DEF InodeLockInv, HasLock
<1>11. FreeInv /\ NamedAllocated /\ UsedAllocated /\ DirInv
  BY DEF FreeInv, NamedAllocated, UsedAllocated, DirInv, DirAt
<1> QED
  BY <1>2, <1>5, <1>6, <1>7, <1>8, <1>9, <1>10, <1>11 DEF InodeInv

\* A state that differs in nothing.
LEMMA InodeStutters ==
    ASSUME InodeInv, UNCHANGED inodeVars
    PROVE  InodeInv'
<1> USE DEF inodeVars
<1>1. InodeTypes' /\ SlotInv'
  BY DEF InodeInv, InodeTypes, SlotInv
<1>2. RefInv' /\ FileInv'
  BY PointersStay, FileFrame DEF InodeInv
<1>3. PlaceInv' /\ InodeLockInv'
  BY DEF InodeInv, PlaceInv, Place, InIput, InodeLockInv, HasLock
<1>4. CopyInv' /\ FreeInv'
  BY DEF InodeInv, CopyInv, CopyAt, FreeInv, LastUser
<1>5. NamedAllocated' /\ UsedAllocated'
  BY DEF InodeInv, NamedAllocated, UsedAllocated
<1>6. LinkInv'
  <2>1. \A n \in DInums : NameLinks(n)' = NameLinks(n) /\ InFlight(n)' = InFlight(n)
    BY DEF NameLinks, InFlight, Pending
  <2> QED
    BY <2>1 DEF InodeInv, LinkInv
<1>7. DirInv'
  BY DEF InodeInv, DirInv, DirAt, IpUsers, FileUsers
<1> QED
  BY <1>1, <1>2, <1>3, <1>4, <1>5, <1>6, <1>7 DEF InodeInv

\* Every step of every process keeps the invariant.
LEMMA InodeNextInv == InodeInv /\ [InodeNext]_inodeVars => InodeInv'
<1> SUFFICES ASSUME InodeInv, [InodeNext]_inodeVars PROVE InodeInv'
  OBVIOUS
<1>1. CASE UNCHANGED inodeVars
  BY <1>1, InodeStutters
<1>2. ASSUME NEW c \in Callers, InodeStep(c) PROVE InodeInv'
  <2>1. CASE IputLock(c) \/ IputFree(c) \/ IputInvalid(c) \/ IputUnref(c)
    BY <2>1, IputLockKeeps, IputFreeKeeps, IputInvalidKeeps, IputUnrefKeeps
  <2>2. CASE OpenLock(c) \/ CreateLink(c) \/ CreatePut(c)
    BY <2>2, OpenLockKeeps, CreateLinkKeeps, CreatePutKeeps
  <2>3. CASE OpenFile(c)
    BY <2>3, OpenFileKeeps, OpenFailKeeps
  <2>4. CASE UnlinkEntry(c) \/ UnlinkPut(c)
    BY <2>4, UnlinkEntryKeeps, UnlinkPutKeeps
  <2>5. CASE LinkDir(c)
    BY <2>5, LinkEnterKeeps, LinkExistsKeeps
  <2>6. CASE LinkCount(c) \/ LinkNoParent(c) \/ LinkBad(c)
    BY <2>6, LinkCountKeeps, LinkNoParentKeeps, LinkBadKeeps
  <2> QED
    BY <1>2, <2>1, <2>2, <2>3, <2>4, <2>5, <2>6 DEF InodeStep
<1>3. ASSUME NEW c \in Callers, NEW n \in Names, Open(c, n) PROVE InodeInv'
  <2>1. /\ Namei(c, n, "open") /\ dirLock' = dirLock /\ arg' = arg
        /\ UNCHANGED <<dinode, dir, ilockedBy, file, fds, put>>
    BY <1>3 DEF Open
  <2> QED
    BY <2>1, NameiKeeps
<1>4. ASSUME NEW c \in Callers, NEW n \in Names, Unlink(c, n) PROVE InodeInv'
  <2>1. /\ Namei(c, n, "unlink") /\ dirLock' = c /\ arg' = [arg EXCEPT ![c] = n]
        /\ UNCHANGED <<dinode, dir, ilockedBy, file, fds, put>>
    BY <1>4 DEF Unlink
  <2> QED
    BY <2>1, NameiKeeps
<1>5. ASSUME NEW c \in Callers, NEW n \in Names, NEW m \in Names, Link(c, n, m) PROVE InodeInv'
  <2>1. /\ Namei(c, n, "link") /\ dirLock' = dirLock
        /\ \E k \in Names : arg' = [arg EXCEPT ![c] = k]
        /\ UNCHANGED <<dinode, dir, ilockedBy, file, fds, put>>
    BY <1>5 DEF Link
  <2> QED
    BY <2>1, NameiKeeps
<1>6. ASSUME NEW c \in Callers, NEW d \in Fds, SysClose(c, d) PROVE InodeInv'
  <2>1. file[fds[c][d]].ref > 1 \/ file[fds[c][d]].ref = 1
    BY <1>6 DEF SysClose
  <2> QED
    BY <1>6, <2>1, CloseKeeps, LastCloseKeeps
<1> QED
  BY <1>1, <1>2, <1>3, <1>4, <1>5, <1>6, CreateKeeps, DupKeeps DEF InodeNext

\* The invariant, from which the properties below follow: the reference counts
\* of files and cached inodes, the places and locks of the processes, and the
\* link counts fit together in every state that open, link, unlink, dup and
\* close reach (fs.c, file.c, sysfile.c).
THEOREM InodeInvariant == InodeSpec => []InodeInv
<1>1. InodeInit => InodeInv
  BY InodeInitInv
<1>2. InodeInv /\ [InodeNext]_inodeVars => InodeInv'
  BY InodeNextInv
<1> QED
  BY <1>1, <1>2, PTL DEF InodeSpec

\* The reference count of a cached inode is the number of pointers to it, and
\* that of a file the number of its descriptors (iget, iput, filedup, fileclose).
THEOREM ReferencesCounted == InodeSpec => []InodeTypeOK
<1>1. InodeInv => InodeTypeOK
  BY DEF InodeInv, InodeTypes, RefInv, FileInv, InodeTypeOK, Holders, FileUsers, IpUsers,
         PutUsers, Descriptors
<1> QED
  BY <1>1, InodeInvariant, PTL

\* Links() counts the names and the links in flight.
LEMMA LinksSplit ==
    ASSUME InodeInv, NEW n \in DInums
    PROVE  /\ Links(n) = Cardinality(NameLinks(n)) + Cardinality(InFlight(n))
           /\ Links(n) > 0 => NameLinks(n) # {} \/ InFlight(n) # {}
<1> DEFINE A == {c \in Callers : where[c] \in {"linkdir", "linkbad", "unlinkput"}
                                 /\ slot[ip[c]].inum = n}
           B == {c \in Callers : dirLock = c /\ put[c] # 0 /\ slot[ip[c]].inum = n}
<1>1. IsFiniteSet(A) /\ IsFiniteSet(B) /\ IsFiniteSet(NameLinks(n)) /\ IsFiniteSet({})
  BY InodeFinite, FS_Subset, FS_EmptySet DEF NameLinks
<1>2. A \cap B = {}
  BY DEF InodeInv, PlaceInv, Place, InIput
<1>3. InFlight(n) = A \cup B
  BY DEF InFlight, Pending
<1>4. Links(n) = Cardinality(NameLinks(n)) + Cardinality(A) + Cardinality(B)
  BY DEF Links, NameLinks
<1> HIDE DEF A, B
<1>5. /\ Cardinality(A) \in Nat /\ Cardinality(B) \in Nat /\ Cardinality(NameLinks(n)) \in Nat
      /\ Cardinality({}) = 0
  BY <1>1, FS_CardinalityType, FS_EmptySet
<1>6. Cardinality(A \cup B) = Cardinality(A) + Cardinality(B) - Cardinality(A \cap B)
  BY <1>1, FS_Union
<1>7. Links(n) = Cardinality(NameLinks(n)) + Cardinality(InFlight(n))
  <2>1. Cardinality(A \cap B) = 0
    BY <1>2, <1>5, Zenon
  <2>2. Cardinality(InFlight(n)) = Cardinality(A \cup B)
    BY <1>3, Zenon
  <2> QED
    BY <1>4, <1>5, <1>6, <2>1, <2>2
<1>8. NameLinks(n) = {} /\ InFlight(n) = {} => Links(n) = 0
  BY <1>5, <1>7
<1> QED
  BY <1>7, <1>8

\* The link count on the disk is the number of links, in the directory or on
\* the way there, and nothing in use leads to a free inode, for every
\* interleaving of open, link, unlink and iput (fs.c:345, sysfile.c:146).
THEOREM LinkCountsRight == InodeSpec => []LinksCounted
<1>1. InodeInv => LinksCounted
  <2> SUFFICES ASSUME InodeInv PROVE LinksCounted
    OBVIOUS
  <2>1. ASSUME NEW n \in DInums PROVE dinode[n].nlink = Links(n)
    BY LinksSplit DEF InodeInv, LinkInv
  <2>2. ASSUME NEW n \in DInums, Links(n) > 0 PROVE dinode[n].type # 0
    <3>1. CASE NameLinks(n) # {}
      BY <3>1, InodeFinite DEF NameLinks, InodeInv, NamedAllocated
    <3>2. CASE InFlight(n) # {}
      <4>1. PICK c \in Callers : Pending(c) /\ slot[ip[c]].inum = n
        BY <3>2 DEF InFlight
      <4>2. ip[c] # 0
        BY <4>1 DEF Pending, InodeInv, PlaceInv, Place, InIput
      <4> QED
        BY <4>1, <4>2 DEF InodeInv, UsedAllocated
    <3> QED
      BY <2>2, <3>1, <3>2, LinksSplit
  <2> QED
    BY <2>1, <2>2 DEF LinksCounted, InodeInv
<1> QED
  BY <1>1, InodeInvariant, PTL

\* A valid cached copy that somebody may use is the dinode, also when the inode
\* was freed and allocated again meanwhile, and an inode has one entry (iget,
\* ilock, iupdate and iput of fs.c).
THEOREM CopiesCurrent == InodeSpec => []CopyCurrent
<1>1. InodeInv => CopyCurrent
  BY DEF InodeInv, SlotInv, CopyInv, CopyAt, CopyCurrent
<1> QED
  BY <1>1, InodeInvariant, PTL

\* Who has an inode locked waits for nobody, or in iput(dp) for the directory
\* (fs.c:352, called from create and unlink by iunlockput(dp)).
LEMMA InodeHolders ==
    ASSUME InodeInv, NEW e \in Callers, NEW s \in Slots, ilockedBy[s] = e,
           NEW d \in Callers, Blocks(d, e)
    PROVE  where[e] \in {"createput", "unlinkput"} /\ dirLock = d
<1>1. HasLock(e, s)
  BY DEF InodeInv, InodeLockInv
<1> QED
  BY <1>1 DEF HasLock, Blocks

\* Processes that wait for each other's locks in a circle do so through the
\* iput(dp) that create and unlink call with an inode locked (sysfile.c:252 and
\* 309): one waits there for the directory, whose holder waits for that inode.
\* No other circle is possible among open, link, unlink, dup and close.
THEOREM CirclesKnown == InodeSpec => []CirclesThroughPut
<1>1. InodeInv => CirclesThroughPut
  <2> SUFFICES ASSUME InodeInv, NEW S \in SUBSET Callers, Circle(S)
               PROVE  \E c \in S : /\ where[c] \in {"createput", "unlinkput"}
                                   /\ dirLock \in S /\ Blocks(c, dirLock)
    BY DEF CirclesThroughPut
  <2> DEFINE InPut(c) == where[c] \in {"createput", "unlinkput"}
  <2>1. \A c \in S : c \in Callers /\ \E e \in S : Blocks(e, c)
    BY DEF Circle
  \* Who is blocked otherwise than on the directory is blocked by an inode's holder.
  <2>2. ASSUME NEW c \in S, NEW e \in S, Blocks(e, c), dirLock # e
        PROVE  InPut(e) /\ dirLock \in S
    <3>1. PICK s : s \in {ip[c], put[c]} /\ s # 0 /\ ilockedBy[s] = e
      BY <2>1, <2>2 DEF Blocks, InodeInv, PlaceInv, Place, InIput
    <3>2. s \in Slots
      BY <2>1, <3>1 DEF InodeInv, InodeTypes
    <3>3. PICK d \in S : Blocks(d, e)
      BY <2>1
    <3> QED
      BY <2>1, <3>1, <3>2, <3>3, InodeHolders
  \* The directory's holder is blocked, and not on the directory.
  <2>3. ASSUME dirLock \in S PROVE \E c \in S : InPut(c) /\ Blocks(c, dirLock)
    <3>1. PICK c \in S : Blocks(c, dirLock)
      BY <2>1, <2>3
    <3>2. where[dirLock] \in {"create", "unlink"} \/ InIput(dirLock)
      BY <2>1, <2>3 DEF InodeInv, PlaceInv, Place
    <3>3. PICK s : s \in {ip[dirLock], put[dirLock]} /\ s # 0 /\ ilockedBy[s] = c
      BY <2>1, <2>3, <3>1, <3>2 DEF Blocks, InIput, InodeInv, PlaceInv, Place
    <3>4. s \in Slots
      BY <2>1, <2>3, <3>3 DEF InodeInv, InodeTypes
    <3>5. PICK d \in S : Blocks(d, c)
      BY <2>1
    <3>6. InPut(c)
      BY <2>1, <3>3, <3>4, <3>5, InodeHolders
    <3> QED
      BY <3>1, <3>6
  <2>4. dirLock \in S
    <3>1. PICK c \in S : c \in S
      BY DEF Circle
    <3>2. PICK e \in S : Blocks(e, c)
      BY <2>1
    <3> QED
      BY <2>2, <3>2
  <2> QED
    BY <2>3, <2>4
<1> QED
  BY <1>1, InodeInvariant, PTL
=============================================================================

---------------------------- MODULE BlockMapProofs ----------------------------
(***************************************************************************)
(* Proofs about the block map and the block allocator (BlockMap), for any   *)
(* number of direct blocks, entries in a block, disk blocks and inodes.     *)
(***************************************************************************)
EXTENDS BlockMap, TLAPS, WellFoundedInduction, FunctionTheorems, FiniteSetTheorems,
        SequenceTheorems

-----------------------------------------------------------------------------
(* Paths: where a pointer of an inode may be.                              *)

Addresses == 0..NDIRECT + 2
Indexes == 0..N - 1
Numbers == DataBlocks \cup {0}
AddrMap == [Addresses -> Numbers]
EntryMap == [DataBlocks -> [Indexes -> Numbers]]

\* The length of the paths through address a that lead to data.
Height(a) == IF a < NDIRECT THEN 1 ELSE a - NDIRECT + 2

Paths == {p \in Seq(Nat) :
            /\ Len(p) \in 1..4
            /\ p[1] \in Addresses
            /\ Len(p) <= Height(p[1])
            /\ \A k \in 2..Len(p) : p[k] \in Indexes}

\* The constants that the proofs use.
LEMMA BlockSizes ==
    /\ NDIRECT \in Nat /\ NDIRECT > 0 /\ N \in Nat /\ N > 0
    /\ DataBlocks \subseteq Nat /\ 0 \notin DataBlocks /\ Junk \in DataBlocks
    /\ IsFiniteSet(DataBlocks)
    /\ \A a \in Addresses : a \in Nat /\ Height(a) \in 1..4
  BY BlockMapAssumption DEF Addresses, Height

\* The path that is an address.
LEMMA RootPath ==
    ASSUME NEW a \in Addresses
    PROVE  <<a>> \in Paths /\ Len(<<a>>) = 1 /\ <<a>>[1] = a
  BY BlockSizes DEF Paths

\* A path is an address, or leads from a shorter path through an entry.
LEMMA PathCases ==
    ASSUME NEW p \in Paths
    PROVE  \/ p[1] \in Addresses /\ p = <<p[1]>>
           \/ \E q \in Paths, j \in Indexes :
                 p = Append(q, j) /\ Len(p) = Len(q) + 1 /\ q[1] = p[1]
<1>1. p \in Seq(Nat) /\ Len(p) \in 1..4 /\ p[1] \in Addresses
  BY DEF Paths
<1>2. CASE Len(p) = 1
  BY <1>1, <1>2
<1>3. CASE Len(p) > 1
  <2> DEFINE q == SubSeq(p, 1, Len(p) - 1)
             j == p[Len(p)]
  <2>1. q \in Seq(Nat) /\ Len(q) = Len(p) - 1 /\ \A k \in 1..Len(q) : q[k] = p[k]
    BY <1>1, <1>3
  <2>2. q \in Paths
    <3>1. Len(q) \in 1..4 /\ q[1] = p[1] /\ Len(q) < Len(p)
      BY <1>1, <1>3, <2>1
    <3>2. Len(p) <= Height(p[1]) /\ Height(p[1]) \in 1..4
      BY <1>1, BlockSizes DEF Paths
    <3>3. \A k \in 2..Len(p) : p[k] \in Indexes
      BY DEF Paths
    <3>4. \A k \in 2..Len(q) : k \in 2..Len(p) /\ q[k] = p[k]
      BY <1>1, <2>1, <3>1
    <3> HIDE DEF q
    <3>5. \A k \in 2..Len(q) : q[k] \in Indexes
      BY <3>3, <3>4
    <3>6. Len(q) <= Height(q[1]) /\ q[1] \in Addresses
      BY <1>1, <3>1, <3>2
    <3> QED
      BY <2>1, <3>1, <3>5, <3>6 DEF Paths
  <2>3. j \in Indexes
    BY <1>1, <1>3 DEF Paths
  <2>4. p = Append(q, j)
    BY <1>1, <1>3
  <2>5. Len(p) = Len(q) + 1 /\ q[1] = p[1]
    BY <1>1, <1>3, <2>1
  <2> HIDE DEF q, j
  <2> QED
    BY <2>2, <2>3, <2>4, <2>5
<1>4. Len(p) = 1 \/ Len(p) > 1
  <2>1. Len(p) \in 1..4
    BY DEF Paths
  <2> QED
    BY <2>1
<1> QED
  BY <1>2, <1>3, <1>4

\* One more entry.
LEMMA NextPath ==
    ASSUME NEW p \in Paths, NEW j \in Indexes
    PROVE  /\ p \in Seq(Nat) /\ Len(p) \in 1..4 /\ p[1] \in Addresses
           /\ Len(Append(p, j)) = Len(p) + 1
           /\ Append(p, j)[1] = p[1]
           /\ Append(p, j)[Len(p) + 1] = j
           /\ \A k \in 1..Len(p) : Append(p, j)[k] = p[k]
           /\ Append(p, j) \in Paths <=> Len(p) < Height(p[1])
<1>1. p \in Seq(Nat) /\ Len(p) \in 1..4 /\ p[1] \in Addresses /\ j \in Nat
  BY BlockSizes DEF Paths, Indexes
<1>2. /\ Append(p, j) \in Seq(Nat)
      /\ Len(Append(p, j)) = Len(p) + 1
      /\ Append(p, j)[Len(p) + 1] = j
      /\ \A k \in 1..Len(p) : Append(p, j)[k] = p[k]
  BY <1>1
<1>3. Height(p[1]) \in 1..4
  BY <1>1, BlockSizes
<1>4. Append(p, j)[1] = p[1]
  BY <1>1, <1>2
<1>5. ASSUME NEW k \in 2..Len(p) + 1 PROVE Append(p, j)[k] \in Indexes
  <2>1. CASE k = Len(p) + 1
    BY <2>1, <1>2
  <2>2. CASE k \in 2..Len(p)
    BY <2>2, <1>1, <1>2 DEF Paths
  <2> QED
    BY <2>1, <2>2, <1>1
<1> DEFINE r == Append(p, j)
<1> HIDE DEF r
<1>6. /\ r \in Seq(Nat) /\ Len(r) = Len(p) + 1 /\ r[1] = p[1]
      /\ \A k \in 2..Len(r) : r[k] \in Indexes
  BY <1>2, <1>4, <1>5 DEF r
<1>7. r \in Paths => Len(p) < Height(p[1])
  BY <1>1, <1>3, <1>6 DEF Paths
<1>8. ASSUME Len(p) < Height(p[1]) PROVE r \in Paths
  <2> DEFINE h == Height(p[1])
  <2>1. Len(p) \in 1..4 /\ h \in 1..4 /\ Len(r) = Len(p) + 1 /\ Len(p) < h
    BY <1>3, <1>6, <1>8 DEF Paths
  <2> HIDE DEF h
  <2>2. Len(r) \in 1..4 /\ Len(r) <= h
    BY <2>1
  <2>3. Len(r) <= Height(r[1]) /\ r[1] \in Addresses
    BY <1>1, <1>6, <2>2 DEF h
  <2> QED
    BY <1>6, <2>2, <2>3 DEF Paths
<1> QED
  BY <1>1, <1>2, <1>4, <1>7, <1>8 DEF r

\* An address is not reached through an entry.
LEMMA NotRoot ==
    ASSUME NEW p \in Paths, NEW j \in Indexes, NEW a, Append(p, j) = <<a>>
    PROVE  FALSE
<1>1. Len(Append(p, j)) = 1
  OBVIOUS
<1>2. Len(Append(p, j)) = Len(p) + 1
  BY NextPath
<1>3. Len(p) \in 1..4
  BY DEF Paths
<1> DEFINE l == Len(p)
<1>4. l + 1 = 1 /\ l \in 1..4
  BY <1>1, <1>2, <1>3
<1> HIDE DEF l
<1> QED
  BY <1>4

\* The last entry and the rest determine a path.
LEMMA PathsDiffer ==
    ASSUME NEW p \in Paths, NEW q \in Paths, NEW j \in Indexes, NEW k \in Indexes,
           Append(p, j) = Append(q, k)
    PROVE  p = q /\ j = k
<1>1. p \in Seq(Nat) /\ q \in Seq(Nat) /\ j \in Nat /\ k \in Nat
  BY BlockSizes DEF Paths, Indexes
<1>2. Len(p) = Len(q)
  BY <1>1
<1>3. \A n \in 1..Len(p) : p[n] = q[n]
  <2> TAKE n \in 1..Len(p)
  <2>1. \A m \in 1..Len(p) : Append(p, j)[m] = p[m]
    BY NextPath
  <2>2. \A m \in 1..Len(q) : Append(q, k)[m] = q[m]
    BY NextPath
  <2> QED
    BY <1>2, <2>1, <2>2
<1>4. Append(p, j)[Len(p) + 1] = j /\ Append(q, k)[Len(p) + 1] = k
  BY <1>2, NextPath
<1>5. j = k
  BY <1>4
<1> HIDE DEF Paths
<1>6. p = q
  BY <1>1, <1>2, <1>3
<1> QED
  BY <1>5, <1>6

\* A path is no longer than four, so what holds for the addresses and is
\* handed down holds for all paths.
LEMMA PathInduct ==
    ASSUME NEW S, \A a \in Addresses : <<a>> \in S,
           \A q \in Paths, j \in Indexes :
              q \in S /\ Append(q, j) \in Paths => Append(q, j) \in S
    PROVE  Paths \subseteq S
<1> DEFINE P(n) == \A p \in Paths : Len(p) = n => p \in S
<1>1. P(1)
  <2> TAKE p \in Paths
  <2> HAVE Len(p) = 1
  <2>1. p[1] \in Addresses /\ p = <<p[1]>>
    BY DEF Paths
  <2> QED
    BY <2>1
<1>2. ASSUME NEW n \in 1..3, P(n) PROVE P(n + 1)
  <2> TAKE p \in Paths
  <2> HAVE Len(p) = n + 1
  <2>1. PICK q \in Paths, j \in Indexes : p = Append(q, j) /\ Len(p) = Len(q) + 1
    <3>1. ~(p[1] \in Addresses /\ p = <<p[1]>>)
      BY RootPath
    <3> QED
      BY <3>1, PathCases
  <2>2. q \in S
    BY <1>2, <2>1 DEF Paths
  <2> QED
    BY <2>1, <2>2
<1> HIDE DEF P
<1>3. P(2) /\ P(3) /\ P(4)
  <2>1. P(1 + 1)
    BY <1>1, <1>2
  <2>2. P(2 + 1)
    BY <2>1, <1>2
  <2>3. P(3 + 1)
    BY <2>2, <1>2
  <2> QED
    BY <2>1, <2>2, <2>3
<1>4. \A p \in Paths : Len(p) \in {1, 2, 3, 4}
  BY DEF Paths
<1> QED
  BY <1>1, <1>3, <1>4 DEF P

-----------------------------------------------------------------------------
(* Looking up a path.                                                      *)

\* An address is looked up in the inode.
LEMMA LookRoot ==
    ASSUME NEW as, NEW en, NEW a \in Addresses
    PROVE  LookIn(as, en, <<a>>) = as[a]
  BY DEF LookIn, Follow

\* An entry is looked up in the block that the path before it leads to.
LEMMA LookStep ==
    ASSUME NEW as, NEW en, NEW p \in Paths, NEW j \in Indexes,
           Append(p, j) \in Paths
    PROVE  LookIn(as, en, Append(p, j)) =
              IF LookIn(as, en, p) = 0 THEN 0 ELSE en[LookIn(as, en, p)][j]
<1> DEFINE r == Append(p, j)
<1>1. /\ p \in Seq(Nat) /\ Len(p) \in 1..4 /\ Len(r) = Len(p) + 1 /\ r[1] = p[1]
      /\ r[Len(p) + 1] = j /\ \A k \in 1..Len(p) : r[k] = p[k]
  BY NextPath
<1>2. Len(r) \in 1..4
  BY DEF Paths
<1> HIDE DEF r
<1> DEFINE b == as[p[1]]
           Off(c, k) == IF c = 0 THEN 0 ELSE en[c][p[k]]
<1>3. CASE Len(p) = 1
  <2>1. LookIn(as, en, p) = b
    BY <1>3 DEF LookIn, Follow
  <2>2. Len(r) = 2 /\ r[1] = p[1] /\ r[2] = j
    BY <1>1, <1>3
  <2>3. LookIn(as, en, r) = IF b = 0 THEN 0 ELSE en[b][j]
    BY <2>2 DEF LookIn, Follow
  <2> QED
    BY <2>1, <2>3 DEF r
<1>4. CASE Len(p) = 2
  <2>1. LookIn(as, en, p) = Off(b, 2)
    BY <1>4 DEF LookIn, Follow
  <2>2. Len(r) = 3 /\ r[1] = p[1] /\ r[2] = p[2] /\ r[3] = j
    BY <1>1, <1>4
  <2>3. LookIn(as, en, r) = IF Off(b, 2) = 0 THEN 0 ELSE en[Off(b, 2)][j]
    BY <2>2 DEF LookIn, Follow
  <2> QED
    BY <2>1, <2>3 DEF r
<1>5. CASE Len(p) = 3
  <2>1. LookIn(as, en, p) = Off(Off(b, 2), 3)
    BY <1>5 DEF LookIn, Follow
  <2>2. Len(r) = 4 /\ r[1] = p[1] /\ r[2] = p[2] /\ r[3] = p[3] /\ r[4] = j
    BY <1>1, <1>5
  <2>3. LookIn(as, en, r) =
           IF Off(Off(b, 2), 3) = 0 THEN 0 ELSE en[Off(Off(b, 2), 3)][j]
    BY <2>2 DEF LookIn, Follow
  <2> QED
    BY <2>1, <2>3 DEF r
<1>6. Len(p) \in {1, 2, 3}
  <2>1. Len(p) \in 1..4 /\ Len(r) \in 1..4 /\ Len(r) = Len(p) + 1
    BY <1>1, <1>2
  <2> QED
    BY <2>1
<1> QED
  BY <1>3, <1>4, <1>5, <1>6

\* A path leads to a block or is cut short.
LEMMA LookType ==
    ASSUME NEW as \in AddrMap, NEW en \in EntryMap, NEW p \in Paths
    PROVE  LookIn(as, en, p) \in Numbers
<1> DEFINE S == {q \in Paths : LookIn(as, en, q) \in Numbers}
<1>1. ASSUME NEW a \in Addresses PROVE <<a>> \in S
  <2>1. as[a] \in Numbers
    BY DEF AddrMap
  <2> QED
    BY <2>1, LookRoot, RootPath
<1>2. ASSUME NEW q \in Paths, NEW j \in Indexes, q \in S, Append(q, j) \in Paths
      PROVE  Append(q, j) \in S
  <2>1. LookIn(as, en, q) \in Numbers
    BY <1>2
  <2>2. LookIn(as, en, q) # 0 => en[LookIn(as, en, q)][j] \in Numbers
    BY <2>1 DEF EntryMap, Numbers
  <2>3. LookIn(as, en, Append(q, j)) =
           IF LookIn(as, en, q) = 0 THEN 0 ELSE en[LookIn(as, en, q)][j]
    BY <1>2, LookStep, ZenonT(30)
  <2>4. LookIn(as, en, Append(q, j)) \in Numbers
    BY <2>2, <2>3 DEF Numbers
  <2> QED
    BY <1>2, <2>4
<1> QED
  BY <1>1, <1>2, PathInduct

-----------------------------------------------------------------------------
(* Changing one pointer.                                                   *)

\* From addresses ad and entries en to ad2 and en2, the pointer at the end of
\* path p of inode i becomes v, and every other path leads where it led.
OnePointer(ad, en, ad2, en2, i, p, v) ==
    \A k \in Inums, q \in Paths :
        LookIn(ad2[k], en2, q) =
            IF k = i /\ q = p THEN v ELSE LookIn(ad[k], en, q)

\* Writing v into the slot at the end of a path changes that pointer only, if
\* the slot's block is reached by no other path and nothing was or will be
\* reached through the pointer.
LEMMA PointerSet ==
    ASSUME NEW ad, NEW ad2, NEW en, NEW en2, NEW i \in Inums, NEW p \in Paths, NEW v,
           \A k \in Inums, a \in Addresses :
              ad2[k][a] = IF k = i /\ <<a>> = p THEN v ELSE ad[k][a],
           \A k \in Inums, q \in Paths, j \in Indexes :
              Append(q, j) \in Paths /\ LookIn(ad[k], en, q) # 0 /\ ~(k = i /\ q = p) =>
                 en2[LookIn(ad[k], en, q)][j] =
                    IF k = i /\ Append(q, j) = p THEN v
                    ELSE en[LookIn(ad[k], en, q)][j],
           \A j \in Indexes : Append(p, j) \in Paths =>
              LookIn(ad[i], en, Append(p, j)) = 0 /\ (v # 0 => en2[v][j] = 0),
           \A q \in Paths, j \in Indexes : p = Append(q, j) => LookIn(ad[i], en, q) # 0
    PROVE  OnePointer(ad, en, ad2, en2, i, p, v)
<1> DEFINE S == {q \in Paths : \A k \in Inums :
                    LookIn(ad2[k], en2, q) =
                        IF k = i /\ q = p THEN v ELSE LookIn(ad[k], en, q)}
<1>1. ASSUME NEW a \in Addresses PROVE <<a>> \in S
  BY LookRoot, RootPath
<1>2. ASSUME NEW q \in Paths, NEW j \in Indexes, q \in S, Append(q, j) \in Paths
      PROVE  Append(q, j) \in S
  <2> DEFINE r == Append(q, j)
  <2> SUFFICES ASSUME NEW k \in Inums
               PROVE  LookIn(ad2[k], en2, r) =
                          IF k = i /\ r = p THEN v ELSE LookIn(ad[k], en, r)
    BY <1>2
  <2> DEFINE b == LookIn(ad[k], en, q)
             c == LookIn(ad2[k], en2, q)
  <2>1. c = IF k = i /\ q = p THEN v ELSE b
    BY <1>2
  <2>2. LookIn(ad[k], en, r) = IF b = 0 THEN 0 ELSE en[b][j]
    BY <1>2, LookStep
  <2>3. LookIn(ad2[k], en2, r) = IF c = 0 THEN 0 ELSE en2[c][j]
    BY <1>2, LookStep
  <2>4. r # q
    <3>1. Len(r) = Len(q) + 1 /\ Len(q) \in 1..4
      BY NextPath
    <3> QED
      BY <3>1
  <2>5. CASE k = i /\ q = p
    BY <1>2, <2>1, <2>2, <2>3, <2>4, <2>5
  <2>6. CASE ~(k = i /\ q = p)
    <3>1. c = b
      BY <2>1, <2>6
    <3>2. CASE b = 0
      BY <2>2, <2>3, <3>1, <3>2
    <3>3. CASE b # 0
      <4>1. en2[b][j] = IF k = i /\ r = p THEN v ELSE en[b][j]
        BY <1>2, <2>6, <3>3
      <4> QED
        BY <2>2, <2>3, <3>1, <3>3, <4>1
    <3> QED
      BY <3>2, <3>3
  <2> QED
    BY <2>5, <2>6
<1>3. Paths \subseteq S
  BY <1>1, <1>2, PathInduct
<1> QED
  BY <1>3 DEF OnePointer

\* Each pointer leads to a block in use, no two lead to the same one, and each
\* block in use is led to.
Owned(ad, en, us) ==
    /\ \A i \in Inums, p \in Paths : LookIn(ad[i], en, p) \in us \cup {0}
    /\ \A i, k \in Inums, p, q \in Paths :
          LookIn(ad[i], en, p) = LookIn(ad[k], en, q) /\ LookIn(ad[i], en, p) # 0 =>
              i = k /\ p = q
    /\ \A b \in us : \E i \in Inums, p \in Paths : LookIn(ad[i], en, p) = b

\* A block is reached in one way.
LEMMA OneWay ==
    ASSUME NEW ad, NEW en, NEW us, Owned(ad, en, us),
           NEW i \in Inums, NEW k \in Inums, NEW p \in Paths, NEW q \in Paths,
           LookIn(ad[i], en, p) # 0, LookIn(ad[i], en, p) = LookIn(ad[k], en, q)
    PROVE  i = k /\ p = q
  BY DEF Owned

\* A new pointer to a block that was free.
LEMMA OwnedGrows ==
    ASSUME NEW ad, NEW ad2, NEW en, NEW en2, NEW us, NEW i \in Inums, NEW p \in Paths,
           NEW v, v \notin us, v # 0, 0 \notin us,
           Owned(ad, en, us), LookIn(ad[i], en, p) = 0,
           OnePointer(ad, en, ad2, en2, i, p, v)
    PROVE  Owned(ad2, en2, us \cup {v})
<1>1. ASSUME NEW k \in Inums, NEW q \in Paths
      PROVE  LookIn(ad2[k], en2, q) \in us \cup {v} \cup {0}
  BY DEF Owned, OnePointer
<1>2. ASSUME NEW k \in Inums, NEW l \in Inums, NEW q \in Paths, NEW r \in Paths,
             LookIn(ad2[k], en2, q) = LookIn(ad2[l], en2, r), LookIn(ad2[k], en2, q) # 0
      PROVE  k = l /\ q = r
  BY <1>2 DEF Owned, OnePointer
<1>3. ASSUME NEW b \in us \cup {v}
      PROVE  \E k \in Inums, q \in Paths : LookIn(ad2[k], en2, q) = b
  BY DEF Owned, OnePointer
<1> QED
  BY <1>1, <1>2, <1>3 DEF Owned

\* A pointer that is cleared, with its block freed.
LEMMA OwnedShrinks ==
    ASSUME NEW ad, NEW ad2, NEW en, NEW en2, NEW us, NEW i \in Inums, NEW p \in Paths,
           0 \notin us, Owned(ad, en, us), LookIn(ad[i], en, p) # 0,
           OnePointer(ad, en, ad2, en2, i, p, 0)
    PROVE  Owned(ad2, en2, us \ {LookIn(ad[i], en, p)})
<1>1. ASSUME NEW k \in Inums, NEW q \in Paths
      PROVE  LookIn(ad2[k], en2, q) \in (us \ {LookIn(ad[i], en, p)}) \cup {0}
  BY DEF Owned, OnePointer
<1>2. ASSUME NEW k \in Inums, NEW l \in Inums, NEW q \in Paths, NEW r \in Paths,
             LookIn(ad2[k], en2, q) = LookIn(ad2[l], en2, r), LookIn(ad2[k], en2, q) # 0
      PROVE  k = l /\ q = r
  BY <1>2 DEF Owned, OnePointer
<1>3. ASSUME NEW b \in us \ {LookIn(ad[i], en, p)}
      PROVE  \E k \in Inums, q \in Paths : LookIn(ad2[k], en2, q) = b
  <2>1. PICK k \in Inums, q \in Paths : LookIn(ad[k], en, q) = b
    BY DEF Owned
  <2> QED
    BY <2>1 DEF OnePointer
<1> QED
  BY <1>1, <1>2, <1>3 DEF Owned

\* What only depends on where the paths lead.
LEMMA OwnedSame ==
    ASSUME NEW ad, NEW ad2, NEW en, NEW en2, NEW us, Owned(ad, en, us),
           \A k \in Inums, q \in Paths : LookIn(ad2[k], en2, q) = LookIn(ad[k], en, q)
    PROVE  Owned(ad2, en2, us)
<1>1. ASSUME NEW k \in Inums, NEW q \in Paths
      PROVE  LookIn(ad2[k], en2, q) \in us \cup {0}
  BY DEF Owned
<1>2. ASSUME NEW k \in Inums, NEW l \in Inums, NEW q \in Paths, NEW r \in Paths,
             LookIn(ad2[k], en2, q) = LookIn(ad2[l], en2, r), LookIn(ad2[k], en2, q) # 0
      PROVE  k = l /\ q = r
  BY <1>2 DEF Owned
<1>3. ASSUME NEW b \in us
      PROVE  \E k \in Inums, q \in Paths : LookIn(ad2[k], en2, q) = b
  <2>1. PICK k \in Inums, q \in Paths : LookIn(ad[k], en, q) = b
    BY DEF Owned
  <2> QED
    BY <2>1
<1> QED
  BY <1>1, <1>2, <1>3 DEF Owned

-----------------------------------------------------------------------------
(* The invariant.                                                          *)

Frame == [block : DataBlocks, next : 0..N, depth : 1..3]

MapTypes ==
    /\ addrs \in [Inums -> AddrMap]
    /\ entry \in EntryMap
    /\ used \subseteq DataBlocks
    /\ len \in [Inums -> Nat]
    /\ \A i \in Inums : len[i] <= MaxLen[i]
    /\ job \in [Inums -> {Idle} \cup [call : {"itrunc"}, frames : Seq(Frame)]]

\* The entries of frame n of inode i before Upto are done with: of a frame
\* below the top the last entry looked at is that of the frame above it.
Upto(i, n) == IF n = Len(Frames(i)) THEN Frames(i)[n].next ELSE Frames(i)[n].next - 1

\* Entry j of block b has been freed by an itrunc that is not over.
DoneBy(i, b, j) ==
    InTrunc(i) /\ \E n \in 1..Len(Frames(i)) : Frames(i)[n].block = b /\ j < Upto(i, n)
Done(b, j) == \E i \in Inums : DoneBy(i, b, j)

\* What is left of the entries en: those that are freed are as good as 0.
Left(en) == [b \in DataBlocks |-> [j \in Indexes |-> IF Done(b, j) THEN 0 ELSE en[b][j]]]

\* The path of frame n: the entries that the frames below it have reached.
PathOf(a, fs, n) == [k \in 1..n |-> IF k = 1 THEN a ELSE fs[k - 1].next - 1]
FramePath(i, n) == PathOf(FirstAddr(i), Frames(i), n)

\* The block of each frame is the one at the end of its path.
FramesAt(ad, en) ==
    \A i \in Inums : InTrunc(i) =>
        \A n \in 1..Len(Frames(i)) :
            /\ FramePath(i, n) \in Paths
            /\ Frames(i)[n].block = LookIn(ad[i], Left(en), FramePath(i, n))

\* A frame on level n is as far from the data as its address makes it.
FrameDepths ==
    \A i \in Inums : InTrunc(i) =>
        \A n \in 1..Len(Frames(i)) : Frames(i)[n].depth = FirstAddr(i) - NDIRECT + 2 - n

\* Path p is on the way to block bn of a file.
Leads(p, bn) == \E k \in 1..Len(Path(bn)) : p = SubSeq(Path(bn), 1, k)

\* There is no block past the end of a file.
Covered ==
    \A i \in Inums, p \in Paths :
        LookIn(addrs[i], Left(entry), p) # 0 => \E bn \in 0..len[i] - 1 : Leads(p, bn)

\* Every block that the size of a file covers is there.
NoHoles ==
    \A i \in Inums : ~InTrunc(i) =>
        \A bn \in 0..len[i] - 1 : LookIn(addrs[i], Left(entry), Path(bn)) # 0

\* The inductive invariant.
BlockMapInv ==
    /\ MapTypes
    /\ Owned(addrs, Left(entry), used)
    /\ FramesAt(addrs, entry)
    /\ FrameDepths
    /\ Covered
    /\ NoHoles

\* What an inode's job is.
LEMMA Jobs ==
    ASSUME MapTypes, NEW i \in Inums
    PROVE  /\ InTrunc(i) => Frames(i) \in Seq(Frame)
           /\ InTrunc(i) => job[i] \in [call : {"itrunc"}, frames : Seq(Frame)]
           /\ ~InTrunc(i) => job[i] = Idle
           /\ job[i] = Idle => ~InTrunc(i)
  BY DEF MapTypes, InTrunc, Frames, Idle

\* The types of a frame.
LEMMA FrameTypes ==
    ASSUME MapTypes, NEW i \in Inums, InTrunc(i), NEW n \in 1..Len(Frames(i))
    PROVE  /\ Frames(i)[n] \in Frame
           /\ Frames(i)[n].block \in DataBlocks
           /\ Frames(i)[n].next \in 0..N
           /\ Frames(i)[n].depth \in 1..3
           /\ Upto(i, n) \in Int
<1>1. Frames(i) \in Seq(Frame)
  BY Jobs
<1>2. Frames(i)[n] \in Frame
  BY <1>1
<1>3. /\ Frames(i)[n].block \in DataBlocks
      /\ Frames(i)[n].next \in 0..N
      /\ Frames(i)[n].depth \in 1..3
  BY <1>2 DEF Frame
<1> QED
  BY <1>2, <1>3, BlockSizes DEF Upto

\* Left only hides entries.
LEMMA LeftTypes ==
    ASSUME NEW en \in EntryMap
    PROVE  /\ Left(en) \in EntryMap
           /\ \A b \in DataBlocks, j \in Indexes :
                 Left(en)[b][j] = IF Done(b, j) THEN 0 ELSE en[b][j]
<1>1. \A b \in DataBlocks, j \in Indexes :
         Left(en)[b][j] = IF Done(b, j) THEN 0 ELSE en[b][j]
  BY DEF Left
<1>2. \A b \in DataBlocks : [j \in Indexes |-> IF Done(b, j) THEN 0 ELSE en[b][j]]
                               \in [Indexes -> Numbers]
  BY DEF EntryMap, Numbers
<1>3. Left(en) \in EntryMap
  BY <1>2 DEF Left, EntryMap
<1> QED
  BY <1>1, <1>3

\* The entry of a path that a frame has reached.
LEMMA PathOfAt ==
    ASSUME NEW a, NEW fs, NEW n \in Nat, NEW k \in 1..n, k # 1
    PROVE  PathOf(a, fs, n)[k] = fs[k - 1].next - 1
  BY DEF PathOf

\* The path of a frame is as long as there are frames up to it.
LEMMA PathOfLength ==
    ASSUME NEW a, NEW fs, NEW n \in Nat, n > 0, PathOf(a, fs, n) \in Paths
    PROVE  /\ Len(PathOf(a, fs, n)) = n
           /\ PathOf(a, fs, n)[1] = a
           /\ a \in Addresses
<1> DEFINE p == PathOf(a, fs, n)
<1>1. DOMAIN p = 1..n /\ p[1] = a
  BY DEF PathOf
<1>2. p \in Seq(Nat) /\ Len(p) \in Nat
  BY DEF Paths
<1>3. p[1] \in Addresses
  BY DEF Paths
<1> HIDE DEF p
<1>4. DOMAIN p = 1..Len(p)
  BY <1>2
<1>5. Len(p) = n
  BY <1>1, <1>2, <1>4
<1> QED
  BY <1>1, <1>3, <1>5 DEF p

\* The path of frame n has n levels and starts at the address being cleared.
LEMMA FramePathLength ==
    ASSUME NEW i, NEW n \in Nat, n > 0, FramePath(i, n) \in Paths
    PROVE  /\ Len(FramePath(i, n)) = n
           /\ FramePath(i, n)[1] = FirstAddr(i)
           /\ FirstAddr(i) \in Addresses
  BY PathOfLength DEF FramePath

\* The path of the next frame goes one entry on.
LEMMA PathOfGrows ==
    ASSUME NEW a, NEW fs, NEW n \in Nat, n > 0, PathOf(a, fs, n) \in Paths,
           fs[n].next - 1 \in Indexes
    PROVE  PathOf(a, fs, n + 1) = Append(PathOf(a, fs, n), fs[n].next - 1)
<1> DEFINE p == PathOf(a, fs, n)
           r == PathOf(a, fs, n + 1)
           j == fs[n].next - 1
<1>1. Len(p) = n /\ p \in Seq(Nat) /\ j \in Nat
  BY PathOfLength, BlockSizes DEF Paths, Indexes
<1>2. \A k \in 1..n : r[k] = p[k]
  BY DEF PathOf
<1>3. r[n + 1] = j /\ DOMAIN r = 1..(n + 1)
  BY DEF PathOf
<1>4. r = [k \in 1..(n + 1) |-> r[k]]
  BY DEF PathOf
<1> HIDE DEF p, r, j
<1> DEFINE q == Append(p, j)
<1>5. /\ q = [k \in 1..(n + 1) |-> q[k]]
      /\ \A k \in 1..n : q[k] = p[k]
      /\ q[n + 1] = j
  <2>1. q \in Seq(Nat) /\ Len(q) = n + 1 /\ q[n + 1] = j
    BY <1>1
  <2>2. \A k \in 1..n : q[k] = p[k]
    BY <1>1
  <2> HIDE DEF q
  <2>3. DOMAIN q = 1..(n + 1)
    BY <1>1, <2>1
  <2>4. q = [k \in DOMAIN q |-> q[k]]
    BY <2>1
  <2>5. q = [k \in 1..(n + 1) |-> q[k]]
    BY <2>3, <2>4, Zenon
  <2> QED
    BY <2>1, <2>2, <2>5
<1>6. \A k \in 1..(n + 1) : r[k] = Append(p, j)[k]
  <2> TAKE k \in 1..(n + 1)
  <2>1. k \in 1..n \/ k = n + 1
    OBVIOUS
  <2> QED
    BY <1>2, <1>3, <1>5, <2>1, Zenon DEF q
<1>7. r = Append(p, j)
  <2>1. [k \in 1..(n + 1) |-> r[k]] = [k \in 1..(n + 1) |-> Append(p, j)[k]]
    BY <1>6
  <2>2. Append(p, j) = [k \in 1..(n + 1) |-> Append(p, j)[k]]
    BY <1>5, Zenon
  <2>3. r = [k \in 1..(n + 1) |-> Append(p, j)[k]]
    BY <1>4, <2>1, Zenon
  <2> QED
    BY <2>2, <2>3, Zenon
<1> QED
  BY <1>7 DEF p, r, j

\* Frames are numbered from 1.
LEMMA FrameNumbers ==
    ASSUME MapTypes, NEW i \in Inums, InTrunc(i)
    PROVE  /\ Frames(i) \in Seq(Frame) /\ Len(Frames(i)) \in Nat
           /\ \A n \in 1..Len(Frames(i)) : n \in Nat /\ n > 0
<1>1. Frames(i) \in Seq(Frame)
  BY Jobs
<1> DEFINE l == Len(Frames(i))
<1>2. l \in Nat
  BY <1>1
<1> HIDE DEF l
<1>3. \A n \in 1..l : n \in Nat /\ n > 0
  BY <1>2
<1> QED
  BY <1>1, <1>2, <1>3 DEF l

\* The frames of all inodes have different blocks.
LEMMA FramesDistinct ==
    ASSUME MapTypes, NEW ad, NEW en, NEW us, Owned(ad, Left(en), us), FramesAt(ad, en),
           NEW i \in Inums, NEW k \in Inums, InTrunc(i), InTrunc(k),
           NEW n \in 1..Len(Frames(i)), NEW m \in 1..Len(Frames(k)),
           Frames(i)[n].block = Frames(k)[m].block
    PROVE  i = k /\ n = m
<1>1. Frames(i)[n].block # 0 /\ Frames(k)[m].block # 0
  BY FrameTypes, BlockSizes
<1>2. /\ FramePath(i, n) \in Paths /\ FramePath(k, m) \in Paths
      /\ Frames(i)[n].block = LookIn(ad[i], Left(en), FramePath(i, n))
      /\ Frames(k)[m].block = LookIn(ad[k], Left(en), FramePath(k, m))
  BY DEF FramesAt
<1>3. i = k /\ FramePath(i, n) = FramePath(k, m)
  <2>1. /\ LookIn(ad[i], Left(en), FramePath(i, n)) # 0
        /\ LookIn(ad[i], Left(en), FramePath(i, n)) =
              LookIn(ad[k], Left(en), FramePath(k, m))
    BY <1>1, <1>2, Zenon
  <2> QED
    BY <1>2, <2>1, OneWay
<1>4. n \in Nat /\ m \in Nat /\ n > 0 /\ m > 0
  BY FrameNumbers
<1>5. Len(FramePath(i, n)) = n /\ Len(FramePath(k, m)) = m
  BY <1>2, <1>4, FramePathLength
<1> QED
  BY <1>3, <1>5

\* In the block of a frame the entries before Upto are done with.
LEMMA DoneInFrame ==
    ASSUME MapTypes, NEW ad, NEW en, NEW us, Owned(ad, Left(en), us), FramesAt(ad, en),
           NEW i \in Inums, InTrunc(i), NEW n \in 1..Len(Frames(i)), NEW j \in Indexes
    PROVE  Done(Frames(i)[n].block, j) <=> j < Upto(i, n)
<1>1. ASSUME NEW k \in Inums, InTrunc(k), NEW m \in 1..Len(Frames(k)),
             Frames(k)[m].block = Frames(i)[n].block
      PROVE  k = i /\ m = n
  BY <1>1, FramesDistinct
<1> QED
  BY <1>1 DEF Done, DoneBy

\* In any other block none is.
LEMMA DoneElsewhere ==
    ASSUME MapTypes, NEW ad, NEW en, NEW us, Owned(ad, Left(en), us), FramesAt(ad, en),
           NEW k \in Inums, NEW p \in Paths, LookIn(ad[k], Left(en), p) # 0,
           \A n \in Nat : InTrunc(k) /\ n \in 1..Len(Frames(k)) => p # FramePath(k, n),
           NEW j
    PROVE  ~Done(LookIn(ad[k], Left(en), p), j)
<1>1. ASSUME NEW i \in Inums, InTrunc(i), NEW n \in 1..Len(Frames(i)),
             Frames(i)[n].block = LookIn(ad[k], Left(en), p)
      PROVE  FALSE
  <2>1. /\ FramePath(i, n) \in Paths
        /\ Frames(i)[n].block = LookIn(ad[i], Left(en), FramePath(i, n))
    BY <1>1 DEF FramesAt
  <2>2. /\ LookIn(ad[k], Left(en), p) # 0
        /\ LookIn(ad[k], Left(en), p) = LookIn(ad[i], Left(en), FramePath(i, n))
    BY <1>1, <2>1, Zenon
  <2>3. k = i /\ p = FramePath(i, n)
    BY <2>1, <2>2, OneWay
  <2>4. n \in Nat
    BY <1>1, FrameNumbers
  <2> QED
    BY <1>1, <2>3, <2>4
<1> QED
  BY <1>1 DEF Done, DoneBy

\* A file that is not being truncated has all its entries.
LEMMA NothingDone ==
    ASSUME MapTypes, NEW ad, NEW en \in EntryMap, NEW us, us \subseteq DataBlocks,
           Owned(ad, Left(en), us), FramesAt(ad, en),
           NEW i \in Inums, ~InTrunc(i), NEW p \in Paths, LookIn(ad[i], Left(en), p) # 0,
           NEW j \in Indexes
    PROVE  Left(en)[LookIn(ad[i], Left(en), p)][j] = en[LookIn(ad[i], Left(en), p)][j]
<1>1. ~Done(LookIn(ad[i], Left(en), p), j)
  BY DoneElsewhere
<1>2. LookIn(ad[i], Left(en), p) \in DataBlocks
  BY DEF Owned
<1> QED
  BY <1>1, <1>2, LeftTypes

\* Lookup finds the blocks of a file that is not being truncated.
LEMMA LookupWhole ==
    ASSUME MapTypes, NEW ad, NEW en \in EntryMap, NEW us, us \subseteq DataBlocks,
           Owned(ad, Left(en), us), FramesAt(ad, en),
           NEW i \in Inums, ~InTrunc(i), NEW p \in Paths
    PROVE  LookIn(ad[i], en, p) = LookIn(ad[i], Left(en), p)
<1> DEFINE S == {q \in Paths : LookIn(ad[i], en, q) = LookIn(ad[i], Left(en), q)}
<1>1. ASSUME NEW a \in Addresses PROVE <<a>> \in S
  BY LookRoot, RootPath
<1>2. ASSUME NEW q \in Paths, NEW j \in Indexes, q \in S, Append(q, j) \in Paths
      PROVE  Append(q, j) \in S
  <2> DEFINE b == LookIn(ad[i], Left(en), q)
  <2>1. LookIn(ad[i], en, q) = b
    BY <1>2
  <2>2. LookIn(ad[i], en, Append(q, j)) = IF b = 0 THEN 0 ELSE en[b][j]
    BY <1>2, <2>1, LookStep
  <2>3. LookIn(ad[i], Left(en), Append(q, j)) = IF b = 0 THEN 0 ELSE Left(en)[b][j]
    BY <1>2, LookStep
  <2>4. b # 0 => Left(en)[b][j] = en[b][j]
    BY NothingDone
  <2> QED
    BY <1>2, <2>2, <2>3, <2>4
<1>3. Paths \subseteq S
  BY <1>1, <1>2, PathInduct
<1> QED
  BY <1>3

-----------------------------------------------------------------------------
(* balloc and one level of bmap.                                           *)

\* The least member of a set of numbers, as balloc and itrunc choose it.
LEMMA LeastIs ==
    ASSUME NEW T, T \subseteq Nat, T # {}
    PROVE  /\ (CHOOSE x \in T : \A y \in T : x <= y) \in T
           /\ \A y \in T : (CHOOSE x \in T : \A z \in T : x <= z) <= y
<1>1. IsWellFoundedOn(OpToRel(<,Nat), Nat)
  BY NatLessThanWellFounded
<1>2. \E x \in T : \A y \in T : ~ (<<y, x>> \in OpToRel(<,Nat))
  BY <1>1, WFMin, Zenon
<1>3. PICK x \in T : \A y \in T : ~ (<<y, x>> \in OpToRel(<,Nat))
  BY <1>2
<1>4. \A y \in T : ~(y < x)
  BY <1>3 DEF OpToRel
<1>5. x \in Nat /\ \A y \in T : y \in Nat
  BY <1>3
<1>6. \A y \in T : x <= y
  BY <1>4, <1>5, SMT
<1>7. \E m \in T : \A y \in T : m <= y
  BY <1>3, <1>6, Zenon
<1> QED
  BY <1>7

\* A state of the disk in the middle of bmap.
Disk == [addrs : AddrMap, entry : EntryMap, used : SUBSET DataBlocks, addr : Numbers]

\* Its parts.
LEMMA DiskFields ==
    ASSUME NEW s \in Disk
    PROVE  /\ s.addrs \in AddrMap /\ s.entry \in EntryMap
           /\ s.used \subseteq DataBlocks /\ s.addr \in Numbers
  BY DEF Disk

\* balloc hands out a free block, empty.
LEMMA BallocFresh ==
    ASSUME NEW s \in Disk, DataBlocks \ s.used # {}
    PROVE  \E b \in DataBlocks \ s.used :
              /\ b # 0
              /\ Balloc(s) \in Disk
              /\ Balloc(s).addrs = s.addrs
              /\ Balloc(s).entry = [s.entry EXCEPT ![b] = Zeroes]
              /\ Balloc(s).used = s.used \cup {b}
              /\ Balloc(s).addr = b
<1> DEFINE b == CHOOSE b \in DataBlocks \ s.used : \A c \in DataBlocks \ s.used : b <= c
<1>1. b \in DataBlocks \ s.used
  BY BlockSizes, LeastIs
<1>2. Balloc(s) = [s EXCEPT !.used = @ \cup {b}, !.entry[b] = Zeroes, !.addr = b]
  BY DEF Balloc
<1> HIDE DEF b
<1>3. Zeroes \in [Indexes -> Numbers]
  BY DEF Zeroes, Indexes, Numbers
<1>4. /\ Balloc(s).addrs = s.addrs
      /\ Balloc(s).entry = [s.entry EXCEPT ![b] = Zeroes]
      /\ Balloc(s).used = s.used \cup {b}
      /\ Balloc(s).addr = b
  BY <1>2 DEF Disk
<1>5. [s.entry EXCEPT ![b] = Zeroes] \in EntryMap
  BY <1>1, <1>3, DiskFields DEF EntryMap
<1>6. s.used \cup {b} \in SUBSET DataBlocks /\ b \in Numbers /\ b # 0
  BY <1>1, DiskFields, BlockSizes DEF Numbers
<1>7. Balloc(s) = [addrs |-> s.addrs, entry |-> [s.entry EXCEPT ![b] = Zeroes],
                   used |-> s.used \cup {b}, addr |-> b]
  BY <1>2 DEF Disk
<1>8. Balloc(s) \in Disk
  BY <1>5, <1>6, <1>7, DiskFields DEF Disk
<1> QED
  BY <1>1, <1>4, <1>6, <1>8

\* A level that finds its block.
LEMMA LevelFinds ==
    ASSUME NEW s \in Disk, NEW j,
           (IF s.addr = 0 THEN s.addrs[j] ELSE s.entry[s.addr][j]) \in DataBlocks
    PROVE  /\ Level(s, j) \in Disk
           /\ Level(s, j).addrs = s.addrs /\ Level(s, j).entry = s.entry
           /\ Level(s, j).used = s.used
           /\ Level(s, j).addr =
                 IF s.addr = 0 THEN s.addrs[j] ELSE s.entry[s.addr][j]
<1> DEFINE old == IF s.addr = 0 THEN s.addrs[j] ELSE s.entry[s.addr][j]
<1>1. old # 0 /\ old \in Numbers
  BY BlockSizes DEF Numbers
<1>2. Level(s, j) = [s EXCEPT !.addr = old]
  BY <1>1 DEF Level
<1> HIDE DEF old
<1>3. /\ Level(s, j) \in Disk
      /\ Level(s, j).addrs = s.addrs /\ Level(s, j).entry = s.entry
      /\ Level(s, j).used = s.used
      /\ Level(s, j).addr = old
  BY <1>1, <1>2 DEF Disk
<1> QED
  BY <1>3 DEF old

\* A level that allocates a block for an address of the inode.
LEMMA LevelAddress ==
    ASSUME NEW s \in Disk, DataBlocks \ s.used # {}, s.addr = 0,
           NEW j \in Addresses, s.addrs[j] = 0
    PROVE  \E b \in DataBlocks \ s.used :
              /\ Level(s, j) \in Disk
              /\ Level(s, j).addrs = [s.addrs EXCEPT ![j] = b]
              /\ Level(s, j).entry = [s.entry EXCEPT ![b] = Zeroes]
              /\ Level(s, j).used = s.used \cup {b}
              /\ Level(s, j).addr = b
<1>1. PICK b \in DataBlocks \ s.used :
              /\ b # 0
              /\ Balloc(s) \in Disk
              /\ Balloc(s).addrs = s.addrs
              /\ Balloc(s).entry = [s.entry EXCEPT ![b] = Zeroes]
              /\ Balloc(s).used = s.used \cup {b}
              /\ Balloc(s).addr = b
  BY BallocFresh
<1> DEFINE new == Balloc(s)
           as == [s.addrs EXCEPT ![j] = b]
<1>2. Level(s, j) = [new EXCEPT !.addrs[j] = new.addr]
  BY DEF Level
<1>3. as \in AddrMap
  BY <1>1, DiskFields DEF AddrMap, Numbers
<1> HIDE DEF new
<1>4. Level(s, j) = [new EXCEPT !.addrs = as]
  BY <1>1, <1>2 DEF Disk, new
<1>5. /\ Level(s, j).addrs = as
      /\ Level(s, j).entry = new.entry
      /\ Level(s, j).used = new.used
      /\ Level(s, j).addr = new.addr
      /\ Level(s, j) \in Disk
  <2>1. new \in Disk
    BY <1>1 DEF new
  <2> HIDE DEF as
  <2> QED
    BY <1>3, <1>4, <2>1 DEF Disk
<1> QED
  BY <1>1, <1>5 DEF new

\* A level that allocates a block for an entry.
LEMMA LevelEntry ==
    ASSUME NEW s \in Disk, DataBlocks \ s.used # {}, s.addr \in s.used,
           NEW j \in Indexes, s.entry[s.addr][j] = 0
    PROVE  \E b \in DataBlocks \ s.used :
              /\ Level(s, j) \in Disk
              /\ Level(s, j).addrs = s.addrs
              /\ Level(s, j).entry =
                    [[s.entry EXCEPT ![b] = Zeroes] EXCEPT ![s.addr][j] = b]
              /\ Level(s, j).used = s.used \cup {b}
              /\ Level(s, j).addr = b
<1>1. PICK b \in DataBlocks \ s.used :
              /\ b # 0
              /\ Balloc(s) \in Disk
              /\ Balloc(s).addrs = s.addrs
              /\ Balloc(s).entry = [s.entry EXCEPT ![b] = Zeroes]
              /\ Balloc(s).used = s.used \cup {b}
              /\ Balloc(s).addr = b
  BY BallocFresh
<1> DEFINE new == Balloc(s)
           en == [new.entry EXCEPT ![s.addr][j] = b]
<1>2. Level(s, j) = [new EXCEPT !.entry[s.addr][j] = new.addr]
  BY BlockSizes, DiskFields DEF Level
<1>3. en \in EntryMap
  <2>1. new.entry \in EntryMap /\ b \in Numbers /\ s.addr \in DataBlocks
    BY <1>1, DiskFields DEF Numbers
  <2> HIDE DEF new
  <2> QED
    BY <2>1 DEF EntryMap
<1> HIDE DEF new
<1>4. Level(s, j) = [new EXCEPT !.entry = en]
  BY <1>1, <1>2 DEF Disk, new
<1>5. /\ Level(s, j).addrs = new.addrs
      /\ Level(s, j).entry = en
      /\ Level(s, j).used = new.used
      /\ Level(s, j).addr = new.addr
      /\ Level(s, j) \in Disk
  <2>1. new \in Disk
    BY <1>1 DEF new
  <2> HIDE DEF en
  <2> QED
    BY <1>3, <1>4, <2>1 DEF Disk
<1> QED
  BY <1>1, <1>5 DEF new

-----------------------------------------------------------------------------
(* bmap.                                                                   *)

With(i, s) == [addrs EXCEPT ![i] = s.addrs]

\* On the way to block bn of inode i, with n blocks allocated at most: nothing
\* but places on that way has changed, and those were empty.
Grown(i, bn, s) ==
    \A k \in Inums, q \in Paths :
        LookIn(With(i, s)[k], Left(s.entry), q) # LookIn(addrs[k], Left(entry), q) =>
            k = i /\ LookIn(addrs[k], Left(entry), q) = 0 /\ Leads(q, bn)

Reach(i, bn, s, n) ==
    /\ s \in Disk
    /\ Owned(With(i, s), Left(s.entry), s.used)
    /\ Grown(i, bn, s)
    /\ Cardinality(DataBlocks \ s.used) >= 4 - n

\* The addresses of all inodes in the middle of bmap.
LEMMA WithIs ==
    ASSUME MapTypes, NEW i \in Inums, NEW s
    PROVE  \A k \in Inums : With(i, s)[k] = IF k = i THEN s.addrs ELSE addrs[k]
  BY DEF MapTypes, With

\* A number of free blocks.
LEMMA FreeBlocks ==
    ASSUME NEW us
    PROVE  /\ IsFiniteSet(DataBlocks \ us)
           /\ Cardinality(DataBlocks \ us) \in Nat
           /\ Cardinality(DataBlocks \ us) >= 1 => DataBlocks \ us # {}
           /\ \A b \in DataBlocks \ us :
                 Cardinality(DataBlocks \ (us \cup {b})) = Cardinality(DataBlocks \ us) - 1
<1> DEFINE F == DataBlocks \ us
<1>1. IsFiniteSet(F)
  <2>1. F \in SUBSET DataBlocks
    OBVIOUS
  <2> QED
    BY <2>1, BlockSizes, FS_Subset
<1>2. Cardinality(F) \in Nat
  BY <1>1, FS_CardinalityType
<1>3. Cardinality(F) >= 1 => F # {}
  BY FS_EmptySet
<1>4. ASSUME NEW b \in F
      PROVE  Cardinality(DataBlocks \ (us \cup {b})) = Cardinality(F) - 1
  <2>1. DataBlocks \ (us \cup {b}) = F \ {b}
    OBVIOUS
  <2> HIDE DEF F
  <2>2. Cardinality(F \ {b}) = Cardinality(F) - 1
    BY <1>1, FS_RemoveElement
  <2> QED
    BY <2>1, <2>2
<1> QED
  BY <1>1, <1>2, <1>3, <1>4

\* Before the first level nothing has changed.
LEMMA ReachStart ==
    ASSUME BlockMapInv, NEW i \in Inums, NEW bn, Cardinality(DataBlocks \ used) >= 4
    PROVE  Reach(i, bn, Start(i), 0) /\ Start(i).addr = 0
<1> DEFINE s == Start(i)
<1>1. /\ s.addrs = addrs[i] /\ s.entry = entry /\ s.used = used /\ s.addr = 0
      /\ s = [addrs |-> addrs[i], entry |-> entry, used |-> used, addr |-> 0]
  BY DEF Start
<1>2. MapTypes
  BY DEF BlockMapInv
<1>3. s \in Disk
  BY <1>1, <1>2 DEF Disk, MapTypes, Numbers
<1> HIDE DEF s
<1>4. \A k \in Inums : With(i, s)[k] = addrs[k]
  BY <1>1, <1>2, WithIs
<1>5. \A k \in Inums, q \in Paths :
         LookIn(With(i, s)[k], Left(s.entry), q) = LookIn(addrs[k], Left(entry), q)
  BY <1>1, <1>4
<1>6. Owned(With(i, s), Left(s.entry), s.used)
  <2>1. Owned(addrs, Left(entry), used)
    BY DEF BlockMapInv
  <2> QED
    BY <1>1, <1>5, <2>1, OwnedSame
<1>7. Grown(i, bn, s)
  BY <1>5 DEF Grown
<1> QED
  BY <1>1, <1>3, <1>6, <1>7 DEF Reach, s

\* bmap does not touch what other inodes are freeing.
LEMMA FramesStay ==
    ASSUME BlockMapInv, NEW i \in Inums, ~InTrunc(i), NEW bn, NEW s, Grown(i, bn, s)
    PROVE  FramesAt(With(i, s), s.entry)
<1> SUFFICES ASSUME NEW k \in Inums, InTrunc(k), NEW n \in 1..Len(Frames(k))
             PROVE  /\ FramePath(k, n) \in Paths
                    /\ Frames(k)[n].block =
                          LookIn(With(i, s)[k], Left(s.entry), FramePath(k, n))
  BY DEF FramesAt
<1>1. /\ FramePath(k, n) \in Paths
      /\ Frames(k)[n].block = LookIn(addrs[k], Left(entry), FramePath(k, n))
  BY DEF BlockMapInv, FramesAt
<1>2. k # i
  OBVIOUS
<1>3. LookIn(With(i, s)[k], Left(s.entry), FramePath(k, n)) =
         LookIn(addrs[k], Left(entry), FramePath(k, n))
  BY <1>1, <1>2 DEF Grown
<1> QED
  BY <1>1, <1>3

\* One block more, led to by a place on the way.
LEMMA ReachGrows ==
    ASSUME BlockMapInv, NEW i \in Inums, NEW bn, NEW s, NEW n \in 0..3, Reach(i, bn, s, n),
           NEW p \in Paths, Leads(p, bn), NEW t \in Disk, NEW b \in DataBlocks \ s.used,
           t.used = s.used \cup {b},
           LookIn(With(i, s)[i], Left(s.entry), p) = 0,
           OnePointer(With(i, s), Left(s.entry), With(i, t), Left(t.entry), i, p, b)
    PROVE  /\ Reach(i, bn, t, n + 1)
           /\ LookIn(With(i, t)[i], Left(t.entry), p) = b
<1>1. b # 0 /\ b \notin s.used /\ 0 \notin s.used
  BY BlockSizes, DiskFields DEF Reach
<1>2. Owned(With(i, t), Left(t.entry), t.used)
  <2>1. Owned(With(i, s), Left(s.entry), s.used)
    BY DEF Reach
  <2> QED
    BY <1>1, <2>1, OwnedGrows
<1>3. Grown(i, bn, t)
  <2> SUFFICES ASSUME NEW k \in Inums, NEW q \in Paths,
                      LookIn(With(i, t)[k], Left(t.entry), q) #
                          LookIn(addrs[k], Left(entry), q)
               PROVE  /\ k = i /\ LookIn(addrs[k], Left(entry), q) = 0
                      /\ Leads(q, bn)
    BY DEF Grown
  <2>1. CASE k = i /\ q = p
    <3>1. CASE LookIn(With(i, s)[k], Left(s.entry), q) = LookIn(addrs[k], Left(entry), q)
      BY <2>1, <3>1
    <3>2. CASE LookIn(With(i, s)[k], Left(s.entry), q) # LookIn(addrs[k], Left(entry), q)
      BY <2>1, <3>2 DEF Reach, Grown
    <3> QED
      BY <3>1, <3>2
  <2>2. CASE ~(k = i /\ q = p)
    <3>1. LookIn(With(i, t)[k], Left(t.entry), q) = LookIn(With(i, s)[k], Left(s.entry), q)
      BY <2>2 DEF OnePointer
    <3> QED
      BY <3>1 DEF Reach, Grown
  <2> QED
    BY <2>1, <2>2
<1>4. Cardinality(DataBlocks \ t.used) >= 4 - (n + 1)
  <2> DEFINE c == Cardinality(DataBlocks \ s.used)
             d == Cardinality(DataBlocks \ t.used)
  <2>1. c \in Nat /\ c >= 4 - n /\ d = c - 1
    BY FreeBlocks DEF Reach
  <2> HIDE DEF c, d
  <2>2. d >= 4 - (n + 1)
    BY <2>1
  <2> QED
    BY <2>2 DEF d
<1>5. LookIn(With(i, t)[i], Left(t.entry), p) = b
  BY DEF OnePointer
<1> QED
  BY <1>2, <1>3, <1>4, <1>5 DEF Reach

\* A level that only follows a pointer.
LEMMA ReachSame ==
    ASSUME BlockMapInv, NEW i \in Inums, NEW bn, NEW s, NEW n \in 0..3, Reach(i, bn, s, n),
           NEW t \in Disk, t.addrs = s.addrs, t.entry = s.entry, t.used = s.used
    PROVE  Reach(i, bn, t, n + 1) /\ With(i, t) = With(i, s)
<1>1. With(i, t) = With(i, s)
  BY DEF With
<1>2. Owned(With(i, t), Left(t.entry), t.used)
  BY <1>1 DEF Reach
<1>3. Grown(i, bn, t)
  BY <1>1 DEF Reach, Grown
<1>4. Cardinality(DataBlocks \ t.used) >= 4 - (n + 1)
  <2> DEFINE c == Cardinality(DataBlocks \ s.used)
  <2>1. c \in Nat /\ c >= 4 - n /\ Cardinality(DataBlocks \ t.used) = c
    BY FreeBlocks DEF Reach
  <2> HIDE DEF c
  <2>2. c >= 4 - (n + 1)
    BY <2>1
  <2> QED
    BY <2>1, <2>2
<1> QED
  BY <1>1, <1>2, <1>3, <1>4 DEF Reach

\* There is a free block for each level to come.
LEMMA ReachFree ==
    ASSUME NEW i, NEW bn, NEW s, NEW n \in 0..3, Reach(i, bn, s, n)
    PROVE  s \in Disk /\ DataBlocks \ s.used # {}
<1> DEFINE c == Cardinality(DataBlocks \ s.used)
<1>1. c \in Nat /\ c >= 4 - n /\ s \in Disk
  BY FreeBlocks DEF Reach
<1> HIDE DEF c
<1>2. c >= 1
  BY <1>1
<1> QED
  BY <1>1, <1>2, FreeBlocks DEF c

\* The first level: an address of the inode.
LEMMA LevelRoot ==
    ASSUME BlockMapInv, NEW i \in Inums, ~InTrunc(i), NEW bn, NEW s, Reach(i, bn, s, 0),
           s.addr = 0, NEW a \in Addresses, Leads(<<a>>, bn)
    PROVE  /\ Reach(i, bn, Level(s, a), 1)
           /\ Level(s, a).addr # 0
           /\ Level(s, a).addr =
                 LookIn(With(i, Level(s, a))[i], Left(Level(s, a).entry), <<a>>)
<1> DEFINE t == Level(s, a)
<1>1. MapTypes /\ s \in Disk /\ DataBlocks \ s.used # {} /\ s.addrs \in AddrMap
  BY ReachFree, DiskFields DEF BlockMapInv
<1>2. \A k \in Inums : With(i, s)[k] = IF k = i THEN s.addrs ELSE addrs[k]
  BY <1>1, WithIs
<1>3. \A k \in Inums : With(i, t)[k] = IF k = i THEN t.addrs ELSE addrs[k]
  BY <1>1, WithIs
<1>4. CASE s.addrs[a] # 0
  <2>1. s.addrs[a] \in DataBlocks
    BY <1>1, <1>4 DEF AddrMap, Numbers
  <2>2. /\ t \in Disk /\ t.addrs = s.addrs /\ t.entry = s.entry /\ t.used = s.used
        /\ t.addr = s.addrs[a]
    BY <1>1, <2>1, LevelFinds
  <2>3. Reach(i, bn, t, 0 + 1)
    BY <2>2, ReachSame
  <2>4. LookIn(With(i, t)[i], Left(t.entry), <<a>>) = s.addrs[a]
    BY <1>3, <2>2, LookRoot
  <2> QED
    BY <1>4, <2>2, <2>3, <2>4
<1>5. CASE s.addrs[a] = 0
  <2>1. PICK b \in DataBlocks \ s.used :
              /\ t \in Disk
              /\ t.addrs = [s.addrs EXCEPT ![a] = b]
              /\ t.entry = [s.entry EXCEPT ![b] = Zeroes]
              /\ t.used = s.used \cup {b}
              /\ t.addr = b
    BY <1>1, <1>5, LevelAddress
  <2> DEFINE p == <<a>>
  <2>2. p \in Paths /\ Len(p) = 1
    BY RootPath
  <2>3. ASSUME NEW k \in Inums, NEW c \in Addresses
        PROVE  With(i, t)[k][c] = IF k = i /\ <<c>> = p THEN b ELSE With(i, s)[k][c]
    BY <1>1, <1>2, <1>3, <2>1 DEF AddrMap
  <2>4. s.entry \in EntryMap /\ t.entry \in EntryMap /\ b \in DataBlocks /\ b # 0
    BY <1>1, <2>1, DiskFields, BlockSizes
  <2>5. ASSUME NEW c \in DataBlocks, NEW j \in Indexes
        PROVE  Left(t.entry)[c][j] = IF c = b THEN 0 ELSE Left(s.entry)[c][j]
    <3>1. t.entry[c][j] = IF c = b THEN 0 ELSE s.entry[c][j]
      BY <2>1, <2>4 DEF EntryMap, Zeroes, Indexes
    <3> QED
      BY <2>4, <3>1, LeftTypes
  <2> HIDE DEF t, p
  <2>9. ASSUME NEW q \in Paths, NEW j \in Indexes, p = Append(q, j) PROVE FALSE
    <3>1. Len(Append(q, j)) = Len(q) + 1 /\ Len(q) \in 1..4
      BY NextPath
    <3> QED
      BY <2>2, <2>9, <3>1, SMTT(20)
  <2>6. ASSUME NEW k \in Inums, NEW q \in Paths, NEW j \in Indexes, Append(q, j) \in Paths,
               LookIn(With(i, s)[k], Left(s.entry), q) # 0, ~(k = i /\ q = p)
        PROVE  Left(t.entry)[LookIn(With(i, s)[k], Left(s.entry), q)][j] =
                  IF k = i /\ Append(q, j) = p THEN b
                  ELSE Left(s.entry)[LookIn(With(i, s)[k], Left(s.entry), q)][j]
    <3>1. LookIn(With(i, s)[k], Left(s.entry), q) \in s.used
      BY <2>6 DEF Reach, Owned
    <3>2. /\ LookIn(With(i, s)[k], Left(s.entry), q) \in DataBlocks
          /\ LookIn(With(i, s)[k], Left(s.entry), q) # b
      BY <1>1, <2>1, <3>1, DiskFields
    <3>3. Append(q, j) # p
      BY <2>9
    <3> QED
      BY <2>5, <3>2, <3>3
  <2>7. LookIn(With(i, s)[i], Left(s.entry), p) = 0
    BY <1>2, <1>5, LookRoot DEF p
  <2>8. ASSUME NEW j \in Indexes, Append(p, j) \in Paths
        PROVE  /\ LookIn(With(i, s)[i], Left(s.entry), Append(p, j)) = 0
               /\ Left(t.entry)[b][j] = 0
    BY <2>2, <2>4, <2>5, <2>7, <2>8, LookStep
  <2>10. OnePointer(With(i, s), Left(s.entry), With(i, t), Left(t.entry), i, p, b)
    BY <2>2, <2>3, <2>6, <2>8, <2>9, PointerSet
  <2>11. /\ Reach(i, bn, t, 0 + 1)
         /\ LookIn(With(i, t)[i], Left(t.entry), p) = b
    BY <2>1, <2>2, <2>7, <2>10, ReachGrows DEF p
  <2> QED
    BY <2>1, <2>4, <2>11 DEF p, t
<1> QED
  BY <1>4, <1>5

\* The next levels: entry j of the block just reached.
LEMMA LevelNext ==
    ASSUME BlockMapInv, NEW i \in Inums, ~InTrunc(i), NEW bn, NEW s, NEW n \in 1..3,
           Reach(i, bn, s, n), NEW p \in Paths, NEW j \in Indexes,
           Append(p, j) \in Paths, Leads(Append(p, j), bn),
           s.addr # 0, s.addr = LookIn(With(i, s)[i], Left(s.entry), p)
    PROVE  /\ Reach(i, bn, Level(s, j), n + 1)
           /\ Level(s, j).addr # 0
           /\ Level(s, j).addr =
                 LookIn(With(i, Level(s, j))[i], Left(Level(s, j).entry), Append(p, j))
<1> DEFINE t == Level(s, j)
           u == s.addr
           r == Append(p, j)
           Look(k, q) == LookIn(With(i, s)[k], Left(s.entry), q)
<1>1. MapTypes /\ s \in Disk /\ DataBlocks \ s.used # {} /\ s.entry \in EntryMap
      /\ s.used \subseteq DataBlocks /\ n \in 0..3
  BY ReachFree, DiskFields DEF BlockMapInv
<1>2. \A k \in Inums : With(i, s)[k] = IF k = i THEN s.addrs ELSE addrs[k]
  BY <1>1, WithIs
<1>3. \A k \in Inums : With(i, t)[k] = IF k = i THEN t.addrs ELSE addrs[k]
  BY <1>1, WithIs
<1>4. Owned(With(i, s), Left(s.entry), s.used) /\ FramesAt(With(i, s), s.entry)
  BY FramesStay DEF Reach
<1>5. u \in s.used /\ u \in DataBlocks
  BY <1>1, <1>4 DEF Owned
<1>6. ASSUME NEW x \in Indexes PROVE Left(s.entry)[u][x] = s.entry[u][x] /\ ~Done(u, x)
  <2>1. ~Done(Look(i, p), x)
    BY <1>1, <1>4, DoneElsewhere
  <2>2. ~Done(u, x)
    BY <2>1
  <2> QED
    BY <1>1, <1>5, <2>2, LeftTypes
<1>7. Look(i, r) = s.entry[u][j]
  <2>1. Look(i, r) = Left(s.entry)[u][j]
    BY LookStep
  <2> QED
    BY <1>6, <2>1
<1>8. CASE s.entry[u][j] # 0
  <2>1. s.entry[u][j] \in DataBlocks
    BY <1>1, <1>5, <1>8 DEF EntryMap, Numbers
  <2>2. /\ t \in Disk /\ t.addrs = s.addrs /\ t.entry = s.entry /\ t.used = s.used
        /\ t.addr = s.entry[u][j]
    BY <1>1, <2>1, LevelFinds
  <2>3. Reach(i, bn, t, n + 1) /\ With(i, t) = With(i, s)
    BY <1>1, <2>2, ReachSame
  <2>4. LookIn(With(i, t)[i], Left(t.entry), r) = s.entry[u][j]
    BY <1>7, <2>2, <2>3
  <2> QED
    BY <1>8, <2>2, <2>3, <2>4
<1>9. CASE s.entry[u][j] = 0
  <2>1. PICK b \in DataBlocks \ s.used :
              /\ t \in Disk
              /\ t.addrs = s.addrs
              /\ t.entry = [[s.entry EXCEPT ![b] = Zeroes] EXCEPT ![u][j] = b]
              /\ t.used = s.used \cup {b}
              /\ t.addr = b
    BY <1>1, <1>5, <1>9, LevelEntry
  <2>2. r \in Paths /\ Len(r) = Len(p) + 1 /\ Len(p) \in 1..4 /\ p \in Seq(Nat)
    BY NextPath
  <2>3. ASSUME NEW k \in Inums, NEW c \in Addresses
        PROVE  With(i, t)[k][c] = IF k = i /\ <<c>> = r THEN b ELSE With(i, s)[k][c]
    <3>1. ASSUME r = <<c>> PROVE FALSE
      BY <3>1, NotRoot
    <3> QED
      BY <1>2, <1>3, <2>1, <3>1
  <2>4. t.entry \in EntryMap /\ b \in DataBlocks /\ b # 0 /\ b # u
    BY <1>1, <1>5, <2>1, DiskFields, BlockSizes
  <2>5. ASSUME NEW c \in DataBlocks, NEW x \in Indexes, c # b
        PROVE  Left(t.entry)[c][x] = IF c = u /\ x = j THEN b ELSE Left(s.entry)[c][x]
    <3>1. t.entry[c][x] = IF c = u /\ x = j THEN b ELSE s.entry[c][x]
      BY <1>1, <1>5, <2>1, <2>4, <2>5 DEF EntryMap
    <3>2. Left(t.entry)[c][x] = IF Done(c, x) THEN 0 ELSE t.entry[c][x]
      BY <2>4, LeftTypes
    <3>3. Left(s.entry)[c][x] = IF Done(c, x) THEN 0 ELSE s.entry[c][x]
      BY <1>1, LeftTypes
    <3>4. c = u => ~Done(c, x)
      BY <1>6
    <3> QED
      BY <3>1, <3>2, <3>3, <3>4
  <2>6. ASSUME NEW x \in Indexes PROVE Left(t.entry)[b][x] = 0
    <3>1. t.entry[b] = Zeroes
      BY <1>1, <1>5, <2>1, <2>4 DEF EntryMap
    <3>2. t.entry[b][x] = 0
      BY <3>1 DEF Zeroes, Indexes
    <3> QED
      BY <2>4, <3>2, LeftTypes
  <2>7. Look(i, r) = 0
    BY <1>7, <1>9
  <2>8. ASSUME NEW k \in Inums, NEW q \in Paths, NEW x \in Indexes, Append(q, x) \in Paths,
               Look(k, q) # 0, ~(k = i /\ q = r)
        PROVE  Left(t.entry)[Look(k, q)][x] =
                  IF k = i /\ Append(q, x) = r THEN b ELSE Left(s.entry)[Look(k, q)][x]
    <3>1. Look(k, q) \in s.used
      BY <1>4, <2>8 DEF Owned
    <3>2. Look(k, q) \in DataBlocks /\ Look(k, q) # b
      BY <1>1, <2>1, <3>1
    <3>3. CASE k = i /\ q = p
      <4>1. Append(q, x) = r <=> x = j
        BY <3>3, PathsDiffer
      <4>2. Look(k, q) = u
        BY <3>3
      <4> QED
        BY <2>5, <3>2, <3>3, <4>1, <4>2
    <3>4. CASE ~(k = i /\ q = p)
      <4>1. ~(k = i /\ Append(q, x) = r)
        BY <3>4, PathsDiffer
      <4>2. Look(k, q) # u
        <5>1. SUFFICES ASSUME Look(k, q) = u PROVE FALSE
          OBVIOUS
        <5>2. Look(k, q) = Look(i, p)
          BY <5>1
        <5> QED
          BY <1>4, <2>8, <3>4, <5>2, OneWay
      <4> HIDE DEF Look, r, t, u
      <4> QED
        BY <2>5, <3>2, <4>1, <4>2
    <3> QED
      BY <3>3, <3>4
  <2>9. ASSUME NEW x \in Indexes, Append(r, x) \in Paths
        PROVE  Look(i, Append(r, x)) = 0 /\ Left(t.entry)[b][x] = 0
    <3>1. Look(i, Append(r, x)) = 0
      BY <2>2, <2>7, <2>9, LookStep
    <3> QED
      BY <2>6, <3>1
  <2>10. ASSUME NEW q \in Paths, NEW x \in Indexes, r = Append(q, x)
         PROVE  Look(i, q) # 0
    <3>1. q = p
      BY <2>10, PathsDiffer
    <3> QED
      BY <3>1
  <2> HIDE DEF r, t, u
  <2>11. OnePointer(With(i, s), Left(s.entry), With(i, t), Left(t.entry), i, r, b)
    BY <2>2, <2>3, <2>8, <2>9, <2>10, PointerSet, ZenonT(30)
  <2>12. /\ Reach(i, bn, t, n + 1)
         /\ LookIn(With(i, t)[i], Left(t.entry), r) = b
    BY <1>1, <2>1, <2>2, <2>7, <2>11, ReachGrows DEF r
  <2> QED
    BY <2>1, <2>4, <2>12 DEF r, t
<1> QED
  BY <1>8, <1>9

-----------------------------------------------------------------------------
(* The path of a block.                                                    *)

\* Division with a remainder.
LEMMA Divides ==
    ASSUME NEW a \in Nat, NEW m \in Nat, m > 0
    PROVE  /\ a \div m \in Nat
           /\ a % m \in 0..m - 1
           /\ a = m * (a \div m) + (a % m)
  OBVIOUS

\* Multiples of m are m apart.
LEMMA MultiplesApart ==
    ASSUME NEW a \in Nat, NEW b \in Nat, NEW m \in Nat, a < b
    PROVE  m * a + m <= m * b
  OBVIOUS

\* A quotient is unique.
LEMMA QuotientIs ==
    ASSUME NEW a \in Nat, NEW m \in Nat, m > 0, NEW q \in Nat, NEW r \in 0..m - 1,
           a = m * q + r
    PROVE  a \div m = q
<1> DEFINE k == a \div m
           u == m * k
           v == m * q
<1>1. (a % m) \in 0..m-1 /\ a = u + (a % m) /\ k \in Nat
  BY Divides
<1>2. u \in Nat /\ v \in Nat /\ a = v + r
  BY <1>1
<1>3. k < q => u + m <= v
  BY <1>1, MultiplesApart
<1>4. q < k => v + m <= u
  BY <1>1, MultiplesApart
<1> HIDE DEF k, u, v
<1>5. k = q
  BY <1>1, <1>2, <1>3, <1>4
<1> QED
  BY <1>5 DEF k

\* A quotient is small.
LEMMA QuotientBound ==
    ASSUME NEW a \in Nat, NEW m \in Nat, m > 0, NEW b \in Nat, a < m * b
    PROVE  a \div m < b
<1> DEFINE k == a \div m
           u == m * k
           v == m * b
<1>1. (a % m) \in 0..m-1 /\ a = u + (a % m) /\ k \in Nat
  BY Divides
<1>2. u \in Nat /\ v \in Nat /\ a < v
  BY <1>1
<1>3. b < k => v + m <= u
  BY <1>1, MultiplesApart
<1>4. b = k => u = v
  OBVIOUS
<1> HIDE DEF k, u, v
<1>5. k < b
  BY <1>1, <1>2, <1>3, <1>4
<1> QED
  BY <1>5 DEF k

\* Two digits determine a number, and so do three.
LEMMA TwoDigits ==
    ASSUME NEW a \in Nat, NEW b \in Nat, NEW m \in Nat, m > 0,
           a \div m = b \div m, a % m = b % m
    PROVE  a = b
<1>1. a = m * (a \div m) + (a % m) /\ b = m * (b \div m) + (b % m)
  BY Divides
<1>2. m * (a \div m) = m * (b \div m)
  OBVIOUS
<1> QED
  BY <1>1, <1>2, Divides

\* Dividing by m twice, as the second and third level of bmap do.
LEMMA DivTwice ==
    ASSUME NEW a \in Nat, NEW m \in Nat, m > 0
    PROVE  a \div (m * m) = (a \div m) \div m
<1> DEFINE q == a \div m
           r == a % m
<1>1. q \in Nat /\ r \in 0..m - 1 /\ a = m * q + r
  BY Divides
<1> HIDE DEF q, r
<1> DEFINE k == q \div m
           s == q % m
<1>2. k \in Nat /\ s \in 0..m - 1 /\ q = m * k + s
  BY <1>1, Divides
<1> HIDE DEF k, s
<1> DEFINE M == m * m
           x == m * s
<1>3. M \in Nat /\ M > 0 /\ x \in Nat
  BY <1>2
<1>4. m * q = m * (m * k) + x
  <2>1. m * (m * k + s) = m * (m * k) + m * s
    BY <1>2
  <2> QED
    BY <1>2, <2>1
<1>5. m * (m * k) = M * k
  BY <1>2
<1>6. x + m <= M
  BY <1>2, MultiplesApart
<1> DEFINE y == M * k
<1>7. a = y + x + r /\ y \in Nat
  BY <1>1, <1>2, <1>3, <1>4, <1>5
<1> HIDE DEF M, x, y
<1>8. x + r \in 0..M - 1 /\ a = y + (x + r)
  BY <1>1, <1>3, <1>6, <1>7
<1>9. a \div M = k
  BY <1>2, <1>3, <1>8, QuotientIs DEF y
<1> QED
  BY <1>9 DEF M, k, q

\* A block number below a triple indirect block has three digits, and no two
\* block numbers have the same.
LEMMA ThreeDigits ==
    ASSUME NEW a \in Nat, NEW b \in Nat, NEW m \in Nat, m > 0,
           a \div (m * m) = b \div (m * m), (a \div m) % m = (b \div m) % m, a % m = b % m
    PROVE  a = b
<1> DEFINE p == a \div m
           q == b \div m
<1>1. p \in Nat /\ q \in Nat
  BY Divides
<1>2. p \div m = q \div m /\ p % m = q % m
  BY DivTwice
<1> HIDE DEF p, q
<1>3. p = q
  BY <1>1, <1>2, TwoDigits
<1> QED
  BY <1>3, TwoDigits DEF p, q

\* The four ways down, by the number of blocks of numbers passed.
LEMMA PathParts ==
    ASSUME NEW bn \in 0..MAXFILE - 1
    PROVE  \/ /\ bn < NDIRECT /\ bn \in Nat
              /\ Path(bn) = <<bn>>
           \/ \E s \in Indexes : bn = NDIRECT + s /\ Path(bn) = <<NDIRECT, s>>
           \/ \E d \in Nat :
                 /\ bn = NDIRECT + N + d /\ d < N * N
                 /\ Path(bn) = <<NDIRECT + 1, d \div N, d % N>>
           \/ \E t \in Nat :
                 /\ bn = NDIRECT + N + N * N + t /\ t < N * N * N
                 /\ Path(bn) = <<NDIRECT + 2, t \div (N * N), (t \div N) % N, t % N>>
<1> DEFINE s == bn - NDIRECT
           d == s - N
           t == d - N * N
           M2 == N * N
           M3 == N * N * N
<1>1. M2 \in Nat /\ M3 \in Nat /\ N \in Nat /\ NDIRECT \in Nat
  BY BlockSizes
<1>2. bn \in Nat /\ bn < NDIRECT + N + M2 + M3
  BY <1>1 DEF MAXFILE
<1>3. Path(bn) = IF bn < NDIRECT THEN <<bn>>
                 ELSE IF s < N THEN <<NDIRECT, s>>
                 ELSE IF d < M2 THEN <<NDIRECT + 1, d \div N, d % N>>
                 ELSE <<NDIRECT + 2, t \div M2, (t \div N) % N, t % N>>
  BY DEF Path
<1>4. CASE bn < NDIRECT
  BY <1>2, <1>3, <1>4
<1>5. CASE ~(bn < NDIRECT) /\ s < N
  <2>1. s \in Indexes /\ bn = NDIRECT + s
    BY <1>1, <1>2, <1>5 DEF Indexes
  <2>2. Path(bn) = <<NDIRECT, s>>
    BY <1>3, <1>5
  <2> HIDE DEF s
  <2> QED
    BY <2>1, <2>2
<1>6. CASE ~(bn < NDIRECT) /\ ~(s < N) /\ d < M2
  <2>1. d \in Nat /\ bn = NDIRECT + N + d
    BY <1>1, <1>2, <1>6
  <2>2. Path(bn) = <<NDIRECT + 1, d \div N, d % N>>
    BY <1>3, <1>6
  <2>3. d < M2
    BY <1>6
  <2> HIDE DEF d
  <2> QED
    BY <2>1, <2>2, <2>3
<1>7. CASE ~(bn < NDIRECT) /\ ~(s < N) /\ ~(d < M2)
  <2>1. t = bn - NDIRECT - N - M2
    OBVIOUS
  <2>2. d = bn - NDIRECT - N
    OBVIOUS
  <2>3. Path(bn) = <<NDIRECT + 2, t \div M2, (t \div N) % N, t % N>>
    BY <1>3, <1>7
  <2> HIDE DEF M2, M3, t, d
  <2>4. t \in Nat /\ bn = NDIRECT + N + M2 + t /\ t < M3
    BY <1>1, <1>2, <1>7, <2>1, <2>2
  <2> QED
    BY <2>3, <2>4 DEF M2, M3
<1> QED
  BY <1>4, <1>5, <1>6, <1>7

\* A path of length n through address a.
PathThrough(p, a, n) == p \in Paths /\ Len(p) = n /\ p[1] = a

\* One entry further down.
LEMMA PathVia ==
    ASSUME NEW q, NEW j \in Indexes, NEW a, NEW n \in 1..3, NEW m, m = n + 1,
           PathThrough(q, a, n), n < Height(a)
    PROVE  PathThrough(Append(q, j), a, m)
<1>1. q \in Paths /\ Len(q) = n /\ q[1] = a
  BY DEF PathThrough
<1>2. Len(Append(q, j)) = Len(q) + 1 /\ Append(q, j)[1] = q[1]
  BY <1>1, NextPath
<1>3. Append(q, j) \in Paths <=> Len(q) < Height(q[1])
  BY <1>1, NextPath
<1> QED
  BY <1>1, <1>2, <1>3 DEF PathThrough

\* A path to a block is a path, and ends at the data.
LEMMA PathIsPath ==
    ASSUME NEW bn \in 0..MAXFILE - 1
    PROVE  Path(bn) \in Paths /\ Len(Path(bn)) = Height(Path(bn)[1])
<1> USE BlockSizes
<1> DEFINE p == Path(bn)
<1> SUFFICES \E a \in Addresses, n \in Nat : PathThrough(p, a, n) /\ n = Height(a)
  BY DEF PathThrough
<1>1. ASSUME NEW a \in Addresses PROVE PathThrough(<<a>>, a, 1)
  BY RootPath DEF PathThrough
<1>2. CASE bn < NDIRECT /\ bn \in Nat /\ p = <<bn>>
  <2>1. bn \in Addresses /\ Height(bn) = 1
    BY <1>2 DEF Addresses, Height
  <2>2. PathThrough(p, bn, 1)
    BY <1>1, <1>2, <2>1
  <2> QED
    BY <2>1, <2>2
<1>3. ASSUME NEW s \in Indexes, p = <<NDIRECT, s>>
      PROVE  \E a \in Addresses, n \in Nat : PathThrough(p, a, n) /\ n = Height(a)
  <2> DEFINE a == NDIRECT
  <2>1. a \in Addresses /\ Height(a) = 2
    BY DEF Addresses, Height
  <2>2. p = Append(<<a>>, s)
    BY <1>3
  <2> HIDE DEF p, a
  <2>3. PathThrough(Append(<<a>>, s), a, 2)
    BY <1>1, <2>1, PathVia
  <2> QED
    BY <2>1, <2>2, <2>3
<1>4. ASSUME NEW d \in Nat, d < N * N, p = <<NDIRECT + 1, d \div N, d % N>>
      PROVE  \E a \in Addresses, n \in Nat : PathThrough(p, a, n) /\ n = Height(a)
  <2> DEFINE a == NDIRECT + 1
             j == d \div N
             k == d % N
  <2>1. a \in Addresses /\ Height(a) = 3
    BY DEF Addresses, Height
  <2>2. j \in Nat /\ j < N /\ k \in 0..N - 1
    BY <1>4, Divides, QuotientBound
  <2>3. p = Append(Append(<<a>>, j), k)
    BY <1>4
  <2> HIDE DEF a, j, k, p
  <2>4. j \in Indexes /\ k \in Indexes
    BY <2>2 DEF Indexes
  <2>5. PathThrough(Append(<<a>>, j), a, 2)
    BY <1>1, <2>1, <2>4, PathVia
  <2>6. PathThrough(Append(Append(<<a>>, j), k), a, 3)
    BY <2>1, <2>4, <2>5, PathVia
  <2> QED
    BY <2>1, <2>3, <2>6
<1>5. ASSUME NEW t \in Nat, t < N * N * N,
             p = <<NDIRECT + 2, t \div (N * N), (t \div N) % N, t % N>>
      PROVE  \E a \in Addresses, n \in Nat : PathThrough(p, a, n) /\ n = Height(a)
  <2> DEFINE a == NDIRECT + 2
             M == N * N
             j == t \div M
             u == t \div N
             k == u % N
             l == t % N
  <2>1. a \in Addresses /\ Height(a) = 4
    BY DEF Addresses, Height
  <2>2. M \in Nat /\ M > 0 /\ t < M * N
    BY <1>5
  <2>3. l \in 0..N - 1 /\ u \in Nat
    BY Divides
  <2>4. p = Append(Append(Append(<<a>>, j), k), l)
    BY <1>5
  <2> HIDE DEF a, M, u, p
  <2>5. j \in Nat /\ j < N /\ k \in 0..N - 1
    BY <2>2, <2>3, Divides, QuotientBound
  <2> HIDE DEF j, k, l
  <2>6. j \in Indexes /\ k \in Indexes /\ l \in Indexes
    BY <2>3, <2>5 DEF Indexes
  <2>7. PathThrough(Append(<<a>>, j), a, 2)
    BY <1>1, <2>1, <2>6, PathVia
  <2>8. PathThrough(Append(Append(<<a>>, j), k), a, 3)
    BY <2>1, <2>6, <2>7, PathVia
  <2>9. PathThrough(Append(Append(Append(<<a>>, j), k), l), a, 4)
    BY <2>1, <2>6, <2>8, PathVia
  <2> QED
    BY <2>1, <2>4, <2>9
<1> QED
  BY <1>2, <1>3, <1>4, <1>5, PathParts

\* Different blocks have different paths.
LEMMA PathInjective ==
    ASSUME NEW b \in 0..MAXFILE - 1, NEW c \in 0..MAXFILE - 1, Path(b) = Path(c)
    PROVE  b = c
<1> USE BlockSizes
<1> DEFINE P1(x, p) == x < NDIRECT /\ x \in Nat /\ p = <<x>>
           P2(x, p) == \E s \in Indexes : x = NDIRECT + s /\ p = <<NDIRECT, s>>
           P3(x, p) == \E d \in Nat :
                 /\ x = NDIRECT + N + d /\ d < N * N
                 /\ p = <<NDIRECT + 1, d \div N, d % N>>
           P4(x, p) == \E t \in Nat :
                 /\ x = NDIRECT + N + N * N + t /\ t < N * N * N
                 /\ p = <<NDIRECT + 2, t \div (N * N), (t \div N) % N, t % N>>
<1> DEFINE p == Path(b)
<1>1. P1(b, p) \/ P2(b, p) \/ P3(b, p) \/ P4(b, p)
  BY PathParts
<1>2. P1(c, p) \/ P2(c, p) \/ P3(c, p) \/ P4(c, p)
  BY PathParts
<1> HIDE DEF p
<1>3. \A x : /\ P1(x, p) => Len(p) = 1
             /\ P2(x, p) => Len(p) = 2
             /\ P3(x, p) => Len(p) = 3
             /\ P4(x, p) => Len(p) = 4
  OBVIOUS
<1>4. P1(b, p) /\ P1(c, p) => b = c
  OBVIOUS
<1>5. ASSUME P2(b, p), P2(c, p) PROVE b = c
  <2>1. PICK s \in Indexes : b = NDIRECT + s /\ p = <<NDIRECT, s>>
    BY <1>5
  <2>2. PICK u \in Indexes : c = NDIRECT + u /\ p = <<NDIRECT, u>>
    BY <1>5
  <2> QED
    BY <2>1, <2>2
<1>6. ASSUME P3(b, p), P3(c, p) PROVE b = c
  <2>1. PICK d \in Nat : b = NDIRECT + N + d /\ p = <<NDIRECT + 1, d \div N, d % N>>
    BY <1>6
  <2>2. PICK e \in Nat : c = NDIRECT + N + e /\ p = <<NDIRECT + 1, e \div N, e % N>>
    BY <1>6
  <2>3. d \div N = e \div N /\ d % N = e % N
    BY <2>1, <2>2
  <2>4. d = e
    BY <2>3, TwoDigits
  <2> QED
    BY <2>1, <2>2, <2>4
<1>7. ASSUME P4(b, p), P4(c, p) PROVE b = c
  <2>1. PICK t \in Nat :
           /\ b = NDIRECT + N + N * N + t
           /\ p = <<NDIRECT + 2, t \div (N * N), (t \div N) % N, t % N>>
    BY <1>7
  <2>2. PICK u \in Nat :
           /\ c = NDIRECT + N + N * N + u
           /\ p = <<NDIRECT + 2, u \div (N * N), (u \div N) % N, u % N>>
    BY <1>7
  <2>3. t \div (N * N) = u \div (N * N) /\ (t \div N) % N = (u \div N) % N /\ t % N = u % N
    BY <2>1, <2>2
  <2>4. t = u
    BY <2>3, ThreeDigits
  <2> QED
    BY <2>1, <2>2, <2>4
<1> HIDE DEF P1, P2, P3, P4
<1> QED
  BY <1>1, <1>2, <1>3, <1>4, <1>5, <1>6, <1>7

\* The beginnings of a path.
LEMMA PathStarts ==
    ASSUME NEW p \in Paths, NEW k \in 1..Len(p)
    PROVE  /\ SubSeq(p, 1, k) \in Paths
           /\ k = 1 => SubSeq(p, 1, k) = <<p[1]>>
           /\ k = Len(p) => SubSeq(p, 1, k) = p
           /\ k < Len(p) => /\ p[k + 1] \in Indexes
                            /\ SubSeq(p, 1, k + 1) = Append(SubSeq(p, 1, k), p[k + 1])
<1> DEFINE q == SubSeq(p, 1, k)
<1>1. p \in Seq(Nat)
  BY DEF Paths
<1>2. Len(p) \in 1..4
  BY DEF Paths
<1>3. k \in Nat /\ k >= 1 /\ k <= Len(p) /\ k \in 1..4
  <2> DEFINE m == Len(p)
  <2>1. m \in 1..4 /\ k \in 1..m
    BY <1>2
  <2> HIDE DEF m
  <2>2. k \in Nat /\ k >= 1 /\ k <= m /\ k \in 1..4
    BY <2>1
  <2> QED
    BY <2>2 DEF m
<1>4. q \in Seq(Nat) /\ Len(q) = k
  BY <1>1, <1>3
<1>5. \A n \in 1..k : q[n] = p[n]
  BY <1>1, <1>3
<1>6. q[1] = p[1]
  BY <1>3, <1>5
<1>7. p[1] \in Addresses /\ Height(p[1]) \in 1..4
  BY BlockSizes DEF Paths
<1>8. Len(p) <= Height(p[1])
  BY DEF Paths
<1> DEFINE h == Height(p[1])
           m == Len(p)
<1>9. k <= Height(q[1])
  <2>1. m \in 1..4 /\ h \in 1..4 /\ m <= h /\ k \in 1..4 /\ k <= m
    BY <1>2, <1>3, <1>7, <1>8
  <2> HIDE DEF m, h
  <2>2. k <= h
    BY <2>1
  <2> QED
    BY <1>6, <2>2 DEF h
<1>10. ASSUME NEW n \in 2..k PROVE q[n] \in Indexes
  <2>1. n \in 1..k /\ n \in 2..Len(p)
    BY <1>3
  <2>2. p[n] \in Indexes
    BY <2>1 DEF Paths
  <2> QED
    BY <1>5, <2>1, <2>2
<1>11. q \in Paths
  <2> HIDE DEF q
  <2> QED
    BY <1>3, <1>4, <1>6, <1>7, <1>9, <1>10 DEF Paths
<1>12. k = 1 => q = <<p[1]>>
  <2> HIDE DEF q
  <2>1. k = 1 => q = <<q[1]>>
    BY <1>4
  <2> QED
    BY <1>6, <2>1
<1>13. k = Len(p) => q = p
  BY <1>1
<1>14. ASSUME k < Len(p)
       PROVE  p[k + 1] \in Indexes /\ SubSeq(p, 1, k + 1) = Append(SubSeq(p, 1, k), p[k + 1])
  <2>1. k + 1 \in 2..Len(p)
    BY <1>3, <1>14
  <2>2. p[k + 1] \in Indexes
    BY <2>1 DEF Paths
  <2>3. SubSeq(p, 1, k + 1) = Append(SubSeq(p, 1, k), p[k + 1])
    BY <1>1, <1>3, <1>14
  <2> QED
    BY <2>2, <2>3
<1> QED
  BY <1>11, <1>12, <1>13, <1>14

\* k levels down, at the block that the first k places lead to.
Reached(i, bn, s, k) ==
    /\ Reach(i, bn, s, k)
    /\ s.addr # 0
    /\ s.addr = LookIn(With(i, s)[i], Left(s.entry), SubSeq(Path(bn), 1, k))

\* One level further down.
LEMMA DownOne ==
    ASSUME BlockMapInv, NEW i \in Inums, ~InTrunc(i), NEW bn \in 0..MAXFILE - 1,
           NEW s, NEW k \in 1..3, k < Len(Path(bn)), Reached(i, bn, s, k), NEW n, n = k + 1
    PROVE  Reached(i, bn, Down(s, Path(bn), n), n)
<1> DEFINE p == Path(bn)
           t == Level(s, p[n])
           q == SubSeq(p, 1, k)
<1>1. p \in Paths
  BY PathIsPath
<1>2. Len(p) \in 1..4 /\ k \in 1..Len(p) /\ n \in 1..Len(p)
  <2>1. Len(p) \in 1..4
    BY <1>1 DEF Paths
  <2> QED
    BY <2>1
<1>3. Down(s, p, n) = t
  BY <1>2 DEF Down
<1>4. q \in Paths /\ p[n] \in Indexes /\ SubSeq(p, 1, n) = Append(q, p[n])
  BY <1>1, <1>2, PathStarts
<1>5. SubSeq(p, 1, n) \in Paths
  BY <1>1, <1>2, PathStarts
<1>6. Leads(SubSeq(p, 1, n), bn)
  BY <1>2 DEF Leads
<1> HIDE DEF p, q, t
<1>7. /\ Reach(i, bn, t, k + 1) /\ t.addr # 0
      /\ t.addr = LookIn(With(i, t)[i], Left(t.entry), SubSeq(p, 1, n))
  <2>1. /\ Reach(i, bn, s, k) /\ s.addr # 0
        /\ s.addr = LookIn(With(i, s)[i], Left(s.entry), q)
    BY DEF Reached, p, q
  <2>2. PICK r \in Paths : r = q
    BY <1>4
  <2>3. PICK j \in Indexes : j = p[n]
    BY <1>4
  <2>4. Append(r, j) \in Paths /\ Leads(Append(r, j), bn)
    BY <1>4, <1>5, <1>6, <2>2, <2>3
  <2>5. t = Level(s, j)
    BY <2>3 DEF t
  <2>6. /\ Reach(i, bn, Level(s, j), k + 1)
        /\ Level(s, j).addr # 0
        /\ Level(s, j).addr =
              LookIn(With(i, Level(s, j))[i], Left(Level(s, j).entry), Append(r, j))
    BY <2>1, <2>2, <2>4, LevelNext
  <2> QED
    BY <1>4, <2>2, <2>3, <2>5, <2>6
<1> QED
  BY <1>3, <1>7 DEF Reached, p

\* bmap ends at the block that the path leads to.
LEMMA BmapReaches ==
    ASSUME BlockMapInv, NEW i \in Inums, ~InTrunc(i), NEW bn \in 0..MAXFILE - 1,
           Cardinality(DataBlocks \ used) >= 4
    PROVE  Reached(i, bn, Bmap(i, bn), Len(Path(bn)))
<1> DEFINE p == Path(bn)
           s0 == Start(i)
           s1 == Down(s0, p, 1)
           s2 == Down(s1, p, 2)
           s3 == Down(s2, p, 3)
           s4 == Down(s3, p, 4)
<1>1. p \in Paths /\ Len(p) \in 1..4
  <2>1. p \in Paths
    BY PathIsPath
  <2> QED
    BY <2>1 DEF Paths
<1>2. Bmap(i, bn) = s4
  BY DEF Bmap
<1> HIDE DEF p
<1>3. Reached(i, bn, s1, 1)
  <2>1. Reach(i, bn, s0, 0) /\ s0.addr = 0
    BY ReachStart
  <2>2. 1 \in 1..Len(p)
    BY <1>1
  <2>3. SubSeq(p, 1, 1) = <<p[1]>>
    BY <1>1, <2>2, PathStarts
  <2>4. PICK a \in Addresses : a = p[1]
    BY <1>1 DEF Paths
  <2>5. Leads(<<a>>, bn)
    BY <2>2, <2>3, <2>4 DEF Leads, p
  <2>6. s1 = Level(s0, a)
    BY <1>1, <2>4 DEF Down
  <2> HIDE DEF s0, s1
  <2>7. /\ Reach(i, bn, Level(s0, a), 1)
        /\ Level(s0, a).addr # 0
        /\ Level(s0, a).addr =
              LookIn(With(i, Level(s0, a))[i], Left(Level(s0, a).entry), <<a>>)
    BY <2>1, <2>5, LevelRoot
  <2> QED
    BY <2>3, <2>4, <2>6, <2>7 DEF Reached, p
<1> HIDE DEF s1
<1>4. Len(p) > 1 => Reached(i, bn, s2, 2)
  BY <1>3, DownOne DEF p
<1>5. Len(p) = 1 => s2 = s1
  BY DEF Down
<1> HIDE DEF s2
<1>6. Len(p) > 2 => Reached(i, bn, s3, 3)
  BY <1>1, <1>4, DownOne DEF p
<1>7. Len(p) <= 2 => s3 = s2
  BY <1>1 DEF Down
<1> HIDE DEF s3
<1>8. Len(p) > 3 => Reached(i, bn, s4, 4)
  BY <1>1, <1>6, DownOne DEF p
<1>9. Len(p) <= 3 => s4 = s3
  BY <1>1 DEF Down
<1> HIDE DEF s4
<1>10. Reached(i, bn, s4, Len(p))
  <2>1. CASE Len(p) = 1
    BY <1>3, <1>5, <1>7, <1>9, <2>1
  <2>2. CASE Len(p) = 2
    BY <1>4, <1>7, <1>9, <2>2
  <2>3. CASE Len(p) = 3
    BY <1>6, <1>9, <2>3
  <2>4. CASE Len(p) = 4
    BY <1>8, <2>4
  <2> QED
    BY <1>1, <2>1, <2>2, <2>3, <2>4
<1> QED
  BY <1>2, <1>10 DEF p

-----------------------------------------------------------------------------
(* writei keeps the invariant.                                             *)

\* While no job changes, the same entries are done with.
LEMMA JobSame ==
    ASSUME UNCHANGED job
    PROVE  /\ \A i : (InTrunc(i)' <=> InTrunc(i)) /\ Frames(i)' = Frames(i)
           /\ \A i, n : Upto(i, n)' = Upto(i, n)
           /\ \A b, j : Done(b, j)' <=> Done(b, j)
           /\ Left(entry)' = Left(entry')
<1>1. \A i : (InTrunc(i)' <=> InTrunc(i)) /\ Frames(i)' = Frames(i)
  BY DEF InTrunc, Frames
<1>2. \A i, n : Upto(i, n)' = Upto(i, n)
  BY <1>1 DEF Upto
<1>3. \A b, j : Done(b, j)' <=> Done(b, j)
  BY <1>1, <1>2 DEF Done, DoneBy
<1>4. Left(entry)' = Left(entry')
  BY <1>3 DEF Left
<1> QED
  BY <1>1, <1>2, <1>3, <1>4

\* The frames of an inode whose addresses and job stay.
LEMMA PathSame ==
    ASSUME NEW i, addrs'[i] = addrs[i]
    PROVE  /\ FirstAddr(i)' = FirstAddr(i)
           /\ job'[i] = job[i] => \A n : FramePath(i, n)' = FramePath(i, n)
<1>1. FirstAddr(i)' = FirstAddr(i)
  BY DEF FirstAddr
<1>2. job'[i] = job[i] => \A n : FramePath(i, n)' = FramePath(i, n)
  BY <1>1 DEF FramePath, PathOf, Frames
<1> QED
  BY <1>1, <1>2

\* Filling a data block with data changes no path.
LEMMA DataWritten ==
    ASSUME BlockMapInv, NEW i \in Inums, ~InTrunc(i), NEW bn \in 0..MAXFILE - 1,
           NEW s, Reached(i, bn, s, Len(Path(bn))),
           NEW en \in EntryMap, \A c \in DataBlocks : c # s.addr => en[c] = s.entry[c]
    PROVE  \A k \in Inums, q \in Paths :
              LookIn(With(i, s)[k], Left(en), q) = LookIn(With(i, s)[k], Left(s.entry), q)
<1> DEFINE p == Path(bn)
           u == s.addr
           Look(k, q) == LookIn(With(i, s)[k], Left(s.entry), q)
<1>1. s \in Disk /\ s.entry \in EntryMap /\ s.used \subseteq DataBlocks
  BY DiskFields DEF Reached, Reach
<1>2. p \in Paths /\ Len(p) = Height(p[1])
  BY PathIsPath
<1>3. SubSeq(p, 1, Len(p)) = p
  <2>1. Len(p) \in 1..Len(p)
    <3>1. Len(p) \in 1..4
      BY <1>2 DEF Paths
    <3> QED
      BY <3>1
  <2> QED
    BY <1>2, <2>1, PathStarts
<1>4. u = Look(i, p) /\ u # 0
  BY <1>3 DEF Reached
<1>5. Owned(With(i, s), Left(s.entry), s.used)
  BY DEF Reached, Reach
<1>6. u \in DataBlocks
  BY <1>1, <1>2, <1>4, <1>5 DEF Owned
<1>9. ASSUME NEW c \in DataBlocks, NEW x \in Indexes, c # u
      PROVE  Left(en)[c][x] = Left(s.entry)[c][x]
  <2>1. en[c] = s.entry[c]
    BY <1>9
  <2> QED
    BY <1>1, <2>1, LeftTypes
<1> HIDE DEF p, u
<1>10. ASSUME NEW k \in Inums, NEW a \in Addresses
       PROVE  With(i, s)[k][a] = IF k = i /\ <<a>> = p THEN u ELSE With(i, s)[k][a]
  BY <1>4, LookRoot
<1>11. ASSUME NEW k \in Inums, NEW q \in Paths, NEW x \in Indexes, Append(q, x) \in Paths,
              Look(k, q) # 0, ~(k = i /\ q = p)
       PROVE  Left(en)[Look(k, q)][x] =
                 IF k = i /\ Append(q, x) = p THEN u ELSE Left(s.entry)[Look(k, q)][x]
  <2>1. Look(k, q) \in DataBlocks
    BY <1>1, <1>5, <1>11 DEF Owned
  <2>2. Look(k, q) # u
    <3> SUFFICES ASSUME Look(k, q) = u PROVE FALSE
      OBVIOUS
    <3>1. Look(k, q) = Look(i, p)
      BY <1>4
    <3> QED
      BY <1>2, <1>5, <1>11, <3>1, OneWay
  <2>3. Left(en)[Look(k, q)][x] = Left(s.entry)[Look(k, q)][x]
    BY <1>9, <2>1, <2>2
  <2>4. ASSUME k = i, Append(q, x) = p PROVE u = Left(s.entry)[Look(k, q)][x]
    <3>1. Look(k, Append(q, x)) = Left(s.entry)[Look(k, q)][x]
      BY <1>11, LookStep
    <3> QED
      BY <1>4, <2>4, <3>1
  <2> QED
    BY <2>3, <2>4
<1>12. ASSUME NEW x \in Indexes PROVE Append(p, x) \notin Paths
  <2>1. Append(p, x) \in Paths <=> Len(p) < Height(p[1])
    BY <1>2, NextPath
  <2>2. Height(p[1]) \in 1..4
    BY <1>2, BlockSizes DEF Paths
  <2> QED
    BY <1>2, <2>1, <2>2
<1>13. ASSUME NEW q \in Paths, NEW x \in Indexes, p = Append(q, x) PROVE Look(i, q) # 0
  <2>1. Look(i, Append(q, x)) = IF Look(i, q) = 0 THEN 0 ELSE Left(s.entry)[Look(i, q)][x]
    BY <1>2, <1>13, LookStep
  <2> QED
    BY <1>4, <1>13, <2>1
<1>14. OnePointer(With(i, s), Left(s.entry), With(i, s), Left(en), i, p, u)
  BY <1>2, <1>10, <1>11, <1>12, <1>13, PointerSet
<1>15. ASSUME NEW k \in Inums, NEW q \in Paths
       PROVE  LookIn(With(i, s)[k], Left(en), q) = Look(k, q)
  <2>1. u = Look(i, p)
    BY <1>4
  <2> HIDE DEF Look
  <2>2. LookIn(With(i, s)[k], Left(en), q) =
           IF k = i /\ q = p THEN u ELSE LookIn(With(i, s)[k], Left(s.entry), q)
    BY <1>14 DEF OnePointer
  <2> QED
    BY <2>1, <2>2 DEF Look
<1> QED
  BY <1>15

\* writei: the state of the disk that bmap leaves, with the data written.
LEMMA WriteBlockEffect ==
    ASSUME BlockMapInv, NEW i \in Inums, NEW bn \in 0..MAXFILE - 1, WriteBlock(i, bn)
    PROVE  /\ ~InTrunc(i) /\ bn <= len[i] /\ bn < MaxLen[i]
           /\ addrs' \in [Inums -> AddrMap] /\ entry' \in EntryMap
           /\ used' \subseteq DataBlocks
           /\ \A k \in Inums : k # i => addrs'[k] = addrs[k]
           /\ Owned(addrs', Left(entry'), used')
           /\ FramesAt(addrs', entry')
           /\ \A k \in Inums, q \in Paths :
                 LookIn(addrs'[k], Left(entry'), q) # LookIn(addrs[k], Left(entry), q) =>
                     k = i /\ LookIn(addrs[k], Left(entry), q) = 0 /\ Leads(q, bn)
           /\ LookIn(addrs'[i], Left(entry'), Path(bn)) # 0
<1> DEFINE s == Bmap(i, bn)
<1>1. MapTypes
  BY DEF BlockMapInv
<1>2. ~InTrunc(i) /\ Cardinality(DataBlocks \ used) >= 4
  BY <1>1, Jobs DEF WriteBlock
<1>3. bn <= len[i] /\ bn < MaxLen[i]
  <2>1. len[i] \in Nat
    BY <1>1 DEF MapTypes
  <2> QED
    BY <2>1 DEF WriteBlock
<1>4. Reached(i, bn, s, Len(Path(bn)))
  BY <1>2, BmapReaches
<1>5. /\ addrs' = With(i, s) /\ used' = s.used
      /\ entry' = [s.entry EXCEPT ![s.addr] = Filled]
  BY DEF WriteBlock, With
<1> HIDE DEF s
<1>6. /\ entry' \in EntryMap
      /\ \A k \in Inums, q \in Paths :
            LookIn(addrs'[k], Left(entry'), q) = LookIn(With(i, s)[k], Left(s.entry), q)
  <2>1. s \in Disk /\ s.entry \in EntryMap /\ s.addr \in Numbers
    BY <1>4, DiskFields DEF Reached, Reach
  <2>2. Filled \in [Indexes -> Numbers]
    BY BlockSizes DEF Filled, Indexes, Numbers
  <2>3. /\ entry' \in EntryMap
        /\ \A c \in DataBlocks : c # s.addr => entry'[c] = s.entry[c]
    BY <1>5, <2>1, <2>2 DEF EntryMap
  <2>4. \A k \in Inums, q \in Paths :
           LookIn(With(i, s)[k], Left(entry'), q) = LookIn(With(i, s)[k], Left(s.entry), q)
    BY <1>2, <1>4, <2>3, DataWritten
  <2> QED
    BY <1>5, <2>3, <2>4
<1>7. /\ Reach(i, bn, s, Len(Path(bn))) /\ s.addr # 0
      /\ s.addr = LookIn(With(i, s)[i], Left(s.entry), SubSeq(Path(bn), 1, Len(Path(bn))))
  BY <1>4 DEF Reached
<1>8. /\ s \in Disk /\ Owned(With(i, s), Left(s.entry), s.used) /\ Grown(i, bn, s)
      /\ s.addrs \in AddrMap /\ s.used \subseteq DataBlocks
  BY <1>7, DiskFields DEF Reach
<1>9. addrs' \in [Inums -> AddrMap]
  BY <1>1, <1>5, <1>8 DEF With, MapTypes
<1>10. \A k \in Inums : k # i => addrs'[k] = addrs[k]
  BY <1>1, <1>5, WithIs
<1>11. Owned(addrs', Left(entry'), used')
  <2>1. Owned(addrs', Left(entry'), s.used)
    BY <1>6, <1>8, OwnedSame
  <2> QED
    BY <1>5, <2>1
<1>12. FramesAt(addrs', entry')
  <2> SUFFICES ASSUME NEW k \in Inums, InTrunc(k), NEW n \in 1..Len(Frames(k))
               PROVE  /\ FramePath(k, n) \in Paths
                      /\ Frames(k)[n].block =
                            LookIn(addrs'[k], Left(entry'), FramePath(k, n))
    BY DEF FramesAt
  <2>1. FramesAt(With(i, s), s.entry)
    BY <1>2, <1>8, FramesStay
  <2>2. /\ FramePath(k, n) \in Paths
        /\ Frames(k)[n].block = LookIn(With(i, s)[k], Left(s.entry), FramePath(k, n))
    BY <2>1 DEF FramesAt
  <2> QED
    BY <1>6, <2>2
<1>13. ASSUME NEW k \in Inums, NEW q \in Paths,
              LookIn(addrs'[k], Left(entry'), q) # LookIn(addrs[k], Left(entry), q)
       PROVE  k = i /\ LookIn(addrs[k], Left(entry), q) = 0 /\ Leads(q, bn)
  <2>1. LookIn(With(i, s)[k], Left(s.entry), q) # LookIn(addrs[k], Left(entry), q)
    BY <1>6, <1>13
  <2> QED
    BY <1>8, <2>1 DEF Grown
<1>14. LookIn(addrs'[i], Left(entry'), Path(bn)) # 0
  <2> DEFINE p == Path(bn)
  <2>1. p \in Paths
    BY PathIsPath
  <2>2. SubSeq(p, 1, Len(p)) = p
    <3>1. Len(p) \in 1..Len(p)
      <4>1. Len(p) \in 1..4
        BY <2>1 DEF Paths
      <4> QED
        BY <4>1
    <3> QED
      BY <2>1, <3>1, PathStarts
  <2>3. LookIn(With(i, s)[i], Left(s.entry), p) # 0
    BY <1>7, <2>2
  <2> HIDE DEF p
  <2>4. LookIn(addrs'[i], Left(entry'), p) # 0
    BY <1>6, <2>1, <2>3
  <2> QED
    BY <2>4 DEF p
<1> QED
  BY <1>2, <1>3, <1>5, <1>6, <1>8, <1>9, <1>10, <1>11, <1>12, <1>13, <1>14

\* The blocks that a size covers.
LEMMA BlocksInFile ==
    ASSUME MapTypes, NEW i \in Inums
    PROVE  /\ len[i] \in Nat /\ MAXFILE \in Nat
           /\ \A b \in 0..len[i] - 1 : b \in 0..MAXFILE - 1 /\ b < MaxLen[i] /\ b \in Nat
<1>1. len[i] \in Nat /\ len[i] <= MaxLen[i]
  BY DEF MapTypes
<1>2. MAXFILE \in Nat
  BY BlockSizes DEF MAXFILE
<1>3. MaxLen[i] \in 0..MAXFILE
  BY BlockMapAssumption
<1> QED
  BY <1>1, <1>2, <1>3

\* Frames that stay, of inodes whose addresses stay.
LEMMA FramesCarry ==
    ASSUME UNCHANGED job, \A k \in Inums : InTrunc(k) => addrs'[k] = addrs[k],
           FramesAt(addrs', entry'), FrameDepths
    PROVE  FramesAt(addrs, entry)' /\ FrameDepths'
<1>1. /\ \A i : (InTrunc(i)' <=> InTrunc(i)) /\ Frames(i)' = Frames(i)
      /\ Left(entry)' = Left(entry')
  BY JobSame
<1>2. \A k \in Inums : InTrunc(k) =>
         FirstAddr(k)' = FirstAddr(k) /\ \A n : FramePath(k, n)' = FramePath(k, n)
  BY PathSame
<1>3. FramesAt(addrs, entry)'
  BY <1>1, <1>2 DEF FramesAt
<1>4. FrameDepths'
  BY <1>1, <1>2 DEF FrameDepths
<1> QED
  BY <1>3, <1>4

\* writei: bmap keeps the invariant (fs.c:391).
LEMMA WriteBlockKeeps ==
    ASSUME BlockMapInv, NEW i \in Inums, NEW bn \in 0..MAXFILE - 1, WriteBlock(i, bn)
    PROVE  BlockMapInv'
<1>1. /\ ~InTrunc(i) /\ bn <= len[i] /\ bn < MaxLen[i]
      /\ addrs' \in [Inums -> AddrMap] /\ entry' \in EntryMap
      /\ used' \subseteq DataBlocks
      /\ \A k \in Inums : k # i => addrs'[k] = addrs[k]
      /\ Owned(addrs', Left(entry'), used')
      /\ FramesAt(addrs', entry')
  BY WriteBlockEffect
<1>2. \A k \in Inums, q \in Paths :
         LookIn(addrs'[k], Left(entry'), q) # LookIn(addrs[k], Left(entry), q) =>
             k = i /\ LookIn(addrs[k], Left(entry), q) = 0 /\ Leads(q, bn)
  BY WriteBlockEffect
<1>3. LookIn(addrs'[i], Left(entry'), Path(bn)) # 0
  BY WriteBlockEffect
<1>4. job' = job /\ len' = [len EXCEPT ![i] = IF bn = @ THEN @ + 1 ELSE @]
  BY DEF WriteBlock
<1>5. MapTypes /\ FrameDepths
  BY DEF BlockMapInv
<1>6. /\ \A k : (InTrunc(k)' <=> InTrunc(k)) /\ Frames(k)' = Frames(k)
      /\ Left(entry)' = Left(entry')
  BY <1>4, JobSame
<1>7. /\ len' \in [Inums -> Nat]
      /\ len[i] \in Nat /\ bn \in 0..len'[i] - 1
      /\ \A k \in Inums : /\ len[k] \in Nat /\ len'[k] \in Nat /\ len[k] <= len'[k]
                          /\ k # i => len'[k] = len[k]
      /\ len'[i] = IF bn = len[i] THEN bn + 1 ELSE len[i]
  BY <1>1, <1>4, <1>5 DEF MapTypes
<1>8. \A k \in Inums : len'[k] <= MaxLen[k]
  <2>1. \A k \in Inums : len[k] <= MaxLen[k] /\ MaxLen[k] \in Int
    BY <1>5, BlockMapAssumption DEF MapTypes
  <2> QED
    BY <1>1, <1>7, <2>1
<1>9. MapTypes'
  BY <1>1, <1>4, <1>5, <1>7, <1>8 DEF MapTypes
<1>10. FramesAt(addrs, entry)' /\ FrameDepths'
  <2>1. \A k \in Inums : InTrunc(k) => addrs'[k] = addrs[k]
    BY <1>1
  <2> QED
    BY <1>1, <1>4, <1>5, <2>1, FramesCarry
<1>11. Covered'
  <2> SUFFICES ASSUME NEW k \in Inums, NEW p \in Paths,
                      LookIn(addrs'[k], Left(entry'), p) # 0
               PROVE  \E b \in 0..len'[k] - 1 : Leads(p, b)
    BY <1>6 DEF Covered, Leads
  <2>1. CASE LookIn(addrs[k], Left(entry), p) # 0
    <3>1. PICK b \in 0..len[k] - 1 : Leads(p, b)
      BY <2>1 DEF BlockMapInv, Covered
    <3>2. b \in 0..len'[k] - 1
      BY <1>7
    <3> QED
      BY <3>1, <3>2
  <2>2. CASE LookIn(addrs[k], Left(entry), p) = 0
    BY <1>2, <1>7, <2>2
  <2> QED
    BY <2>1, <2>2
<1>12. NoHoles'
  <2> SUFFICES ASSUME NEW k \in Inums, ~InTrunc(k), NEW b \in 0..len'[k] - 1
               PROVE  LookIn(addrs'[k], Left(entry'), Path(b)) # 0
    BY <1>6 DEF NoHoles
  <2>1. CASE k = i /\ b = bn
    BY <1>3, <2>1
  <2>2. CASE ~(k = i /\ b = bn)
    <3>1. b \in 0..len[k] - 1
      BY <1>7, <2>2
    <3>2. LookIn(addrs[k], Left(entry), Path(b)) # 0
      BY <3>1 DEF BlockMapInv, NoHoles
    <3>3. Path(b) \in Paths
      BY <1>5, <3>1, BlocksInFile, PathIsPath
    <3> QED
      BY <1>2, <3>2, <3>3
  <2> QED
    BY <2>1, <2>2
<1>13. Owned(addrs, Left(entry), used)'
  BY <1>1, <1>6
<1> QED
  BY <1>9, <1>10, <1>11, <1>12, <1>13 DEF BlockMapInv

-----------------------------------------------------------------------------
(* itrunc.                                                                 *)

\* The first address that is not cleared yet.
LEMMA FirstAddrIs ==
    ASSUME NEW i
    PROVE  \/ FirstAddr(i) = NDIRECT + 3 /\ \A a \in Addresses : addrs[i][a] = 0
           \/ FirstAddr(i) \in Addresses /\ addrs[i][FirstAddr(i)] # 0
<1> DEFINE as == {a \in Addresses : addrs[i][a] # 0}
<1>1. FirstAddr(i) = IF as = {} THEN NDIRECT + 3
                     ELSE CHOOSE a \in as : \A c \in as : a <= c
  BY DEF FirstAddr, Addresses
<1>2. CASE as = {}
  BY <1>1, <1>2
<1>3. CASE as # {}
  <2>1. as \subseteq Nat
    BY BlockSizes
  <2> HIDE DEF as
  <2>2. FirstAddr(i) \in as
    BY <1>1, <1>3, <2>1, LeastIs
  <2> QED
    BY <2>2 DEF as
<1> QED
  BY <1>2, <1>3

\* The entry that itrunc goes on with, and those that it skips.
LEMMA NextEntryIs ==
    ASSUME NEW f \in Frame
    PROVE  /\ NextEntry(f) \in f.next..N
           /\ NextEntry(f) < N => entry[f.block][NextEntry(f)] # 0
           /\ \A l \in f.next..NextEntry(f) - 1 : entry[f.block][l] = 0
<1> DEFINE js == {j \in f.next..N - 1 : entry[f.block][j] # 0}
<1>1. NextEntry(f) = IF js = {} THEN N ELSE CHOOSE j \in js : \A l \in js : j <= l
  BY DEF NextEntry
<1>2. f.next \in 0..N /\ N \in Nat
  BY BlockSizes DEF Frame
<1>3. CASE js = {}
  <2>1. NextEntry(f) = N
    BY <1>1, <1>3
  <2> QED
    BY <1>2, <1>3, <2>1
<1>4. CASE js # {}
  <2>1. js \subseteq Nat
    BY <1>2
  <2>2. /\ NextEntry(f) \in js
        /\ \A y \in js : NextEntry(f) <= y
    <3> HIDE DEF js
    <3> QED
      BY <1>1, <1>4, <2>1, LeastIs
  <2>3. ASSUME NEW l \in f.next..NextEntry(f) - 1 PROVE entry[f.block][l] = 0
    <3>1. l \in f.next..N - 1 /\ ~(NextEntry(f) <= l)
      BY <1>2, <2>2
    <3> QED
      BY <2>2, <3>1
  <2> QED
    BY <1>2, <2>2, <2>3
<1> QED
  BY <1>3, <1>4

\* What a frame stack has done with.
UptoIn(fs, n) == IF n = Len(fs) THEN fs[n].next ELSE fs[n].next - 1
DoneIn(fs, b, j) == \E n \in 1..Len(fs) : fs[n].block = b /\ j < UptoIn(fs, n)

\* The other inodes.
DoneByOthers(i, b, j) == \E k \in Inums \ {i} : DoneBy(k, b, j)

\* The freed entries are those of the other inodes and those of inode i.
LEMMA DoneParts ==
    ASSUME NEW i \in Inums, NEW b, NEW j
    PROVE  Done(b, j) <=>
              DoneByOthers(i, b, j) \/ (InTrunc(i) /\ DoneIn(Frames(i), b, j))
  BY DEF Done, DoneBy, DoneByOthers, DoneIn, UptoIn, Upto

\* A step of itrunc on one inode leaves what the others have done.
LEMMA DoneAfter ==
    ASSUME NEW i \in Inums, \A k \in Inums \ {i} : job'[k] = job[k], NEW b, NEW j
    PROVE  Done(b, j)' <=>
              DoneByOthers(i, b, j) \/ (InTrunc(i)' /\ DoneIn(Frames(i)', b, j))
<1>1. ASSUME NEW k \in Inums \ {i}
      PROVE  (InTrunc(k)' <=> InTrunc(k)) /\ Frames(k)' = Frames(k)
  BY DEF InTrunc, Frames
<1>2. ASSUME NEW k \in Inums \ {i}
      PROVE  DoneBy(k, b, j)' <=> DoneBy(k, b, j)
  BY <1>1 DEF DoneBy, Upto
<1>3. DoneBy(i, b, j)' <=> (InTrunc(i)' /\ DoneIn(Frames(i)', b, j))
  BY DEF DoneBy, DoneIn, UptoIn, Upto
<1> QED
  BY <1>2, <1>3 DEF Done, DoneByOthers

\* The job of an inode with new frames.
LEMMA JobFrames ==
    ASSUME MapTypes, NEW i \in Inums, InTrunc(i), NEW X \in Seq(Frame),
           job' = [job EXCEPT ![i].frames = X]
    PROVE  /\ job' \in [Inums -> {Idle} \cup [call : {"itrunc"}, frames : Seq(Frame)]]
           /\ InTrunc(i)' /\ Frames(i)' = X
           /\ \A k \in Inums \ {i} : job'[k] = job[k]
<1>1. /\ job \in [Inums -> {Idle} \cup [call : {"itrunc"}, frames : Seq(Frame)]]
      /\ job[i] \in [call : {"itrunc"}, frames : Seq(Frame)]
  BY Jobs DEF MapTypes
<1>2. /\ job'[i] = [job[i] EXCEPT !.frames = X]
      /\ job' = [job EXCEPT ![i] = job'[i]]
      /\ \A k \in Inums \ {i} : job'[k] = job[k]
  BY <1>1
<1>3. job'[i] = [call |-> "itrunc", frames |-> X]
  BY <1>1, <1>2
<1>4. job'[i] \in [call : {"itrunc"}, frames : Seq(Frame)]
  BY <1>3
<1>5. job' \in [Inums -> {Idle} \cup [call : {"itrunc"}, frames : Seq(Frame)]]
  BY <1>1, <1>2, <1>4
<1>6. InTrunc(i)' /\ Frames(i)' = X
  BY <1>3 DEF InTrunc, Frames
<1> QED
  BY <1>2, <1>5, <1>6

\* A step of itrunc that at most clears pointers of its inode keeps the
\* invariant, if its frames are right afterwards.
LEMMA TruncKeeps ==
    ASSUME BlockMapInv, NEW i \in Inums, NEW X \in Seq(Frame),
           job' \in [Inums -> {Idle} \cup [call : {"itrunc"}, frames : Seq(Frame)]],
           InTrunc(i)', Frames(i)' = X, \A k \in Inums \ {i} : job'[k] = job[k],
           entry' = entry, len' = len,
           addrs' \in [Inums -> AddrMap], \A k \in Inums : k # i => addrs'[k] = addrs[k],
           used' \subseteq DataBlocks, Owned(addrs', Left(entry)', used'),
           \A k \in Inums, q \in Paths :
              LookIn(addrs'[k], Left(entry)', q) # LookIn(addrs[k], Left(entry), q) =>
                  k = i /\ LookIn(addrs'[k], Left(entry)', q) = 0,
           \A n \in 1..Len(X) :
              /\ PathOf(FirstAddr(i)', X, n) \in Paths
              /\ X[n].block = LookIn(addrs'[i], Left(entry)', PathOf(FirstAddr(i)', X, n))
              /\ X[n].depth = FirstAddr(i)' - NDIRECT + 2 - n
    PROVE  BlockMapInv'
<1>1. MapTypes /\ FramesAt(addrs, entry) /\ FrameDepths /\ Covered /\ NoHoles
  BY DEF BlockMapInv
<1>2. /\ InTrunc(i)' /\ Frames(i)' = X
      /\ \A k \in Inums \ {i} : job'[k] = job[k]
  OBVIOUS
<1>3. MapTypes'
  BY <1>1 DEF MapTypes
<1>4. \A k \in Inums \ {i} : /\ InTrunc(k)' <=> InTrunc(k)
                             /\ Frames(k)' = Frames(k)
                             /\ FirstAddr(k)' = FirstAddr(k)
                             /\ \A n : FramePath(k, n)' = FramePath(k, n)
  <2> TAKE k \in Inums \ {i}
  <2>1. job'[k] = job[k] /\ addrs'[k] = addrs[k]
    BY <1>2
  <2>2. FirstAddr(k)' = FirstAddr(k) /\ \A n : FramePath(k, n)' = FramePath(k, n)
    BY <2>1, PathSame
  <2> QED
    BY <2>1, <2>2 DEF InTrunc, Frames
<1>5. \A n : FramePath(i, n)' = PathOf(FirstAddr(i)', X, n)
  BY <1>2 DEF FramePath, PathOf
<1>6. FramesAt(addrs, entry)'
  <2> SUFFICES ASSUME NEW k \in Inums, InTrunc(k)', NEW n \in 1..Len(Frames(k)')
               PROVE  /\ FramePath(k, n)' \in Paths
                      /\ Frames(k)'[n].block =
                            LookIn(addrs'[k], Left(entry)', FramePath(k, n)')
    BY DEF FramesAt
  <2>1. CASE k = i
    BY <1>2, <1>5, <2>1
  <2>2. CASE k # i
    <3>1. /\ FramePath(k, n) \in Paths
          /\ Frames(k)[n].block = LookIn(addrs[k], Left(entry), FramePath(k, n))
      BY <1>1, <1>4, <2>2 DEF FramesAt
    <3>2. LookIn(addrs'[k], Left(entry)', FramePath(k, n)) =
             LookIn(addrs[k], Left(entry), FramePath(k, n))
      BY <2>2, <3>1
    <3> QED
      BY <1>4, <2>2, <3>1, <3>2
  <2> QED
    BY <2>1, <2>2
<1>7. FrameDepths'
  <2> SUFFICES ASSUME NEW k \in Inums, InTrunc(k)', NEW n \in 1..Len(Frames(k)')
               PROVE  Frames(k)'[n].depth = FirstAddr(k)' - NDIRECT + 2 - n
    BY DEF FrameDepths
  <2>1. CASE k = i
    BY <1>2, <2>1
  <2>2. CASE k # i
    BY <1>1, <1>4, <2>2 DEF FrameDepths
  <2> QED
    BY <2>1, <2>2
<1>8. Covered'
  <2> SUFFICES ASSUME NEW k \in Inums, NEW p \in Paths,
                      LookIn(addrs'[k], Left(entry)', p) # 0
               PROVE  \E b \in 0..len[k] - 1 : Leads(p, b)
    BY DEF Covered, Leads
  <2>1. LookIn(addrs[k], Left(entry), p) # 0
    OBVIOUS
  <2> QED
    BY <1>1, <2>1 DEF Covered
<1>9. NoHoles'
  <2> SUFFICES ASSUME NEW k \in Inums, ~InTrunc(k)', NEW b \in 0..len[k] - 1
               PROVE  LookIn(addrs'[k], Left(entry)', Path(b)) # 0
    BY DEF NoHoles
  <2>1. k # i
    BY <1>2
  <2>2. LookIn(addrs[k], Left(entry), Path(b)) # 0
    BY <1>1, <1>4, <2>1 DEF NoHoles
  <2>3. Path(b) \in Paths
    BY <1>1, BlocksInFile, PathIsPath
  <2> QED
    BY <2>1, <2>2, <2>3
<1>10. Owned(addrs, Left(entry), used)'
  OBVIOUS
<1> QED
  BY <1>3, <1>6, <1>7, <1>8, <1>9, <1>10 DEF BlockMapInv

\* Entries that are done with anew, where they are 0 anyway, change nothing.
LEMMA LeftSame ==
    ASSUME entry' = entry,
           \A b \in DataBlocks, j \in Indexes :
              (Done(b, j)' <=> Done(b, j)) \/ entry[b][j] = 0
    PROVE  Left(entry)' = Left(entry)
<1>1. \A b \in DataBlocks, j \in Indexes :
         (IF Done(b, j)' THEN 0 ELSE entry[b][j]) = (IF Done(b, j) THEN 0 ELSE entry[b][j])
  OBVIOUS
<1>2. Left(entry)' =
         [b \in DataBlocks |-> [j \in Indexes |-> IF Done(b, j)' THEN 0 ELSE entry[b][j]]]
  BY DEF Left, Indexes
<1> QED
  BY <1>1, <1>2 DEF Left

\* itrunc begins.
LEMMA ItruncCallKeeps ==
    ASSUME BlockMapInv, NEW i \in Inums, ItruncCall(i)
    PROVE  BlockMapInv' /\ Left(entry)' = Left(entry)
<1>1. /\ job' = [job EXCEPT ![i] = [call |-> "itrunc", frames |-> <<>>]]
      /\ UNCHANGED <<addrs, entry, used, len>> /\ job[i] = Idle
  BY DEF ItruncCall
<1>2. MapTypes /\ ~InTrunc(i)
  BY <1>1, Jobs DEF BlockMapInv
<1>3. /\ job'[i] = [call |-> "itrunc", frames |-> <<>>]
      /\ \A k \in Inums \ {i} : job'[k] = job[k]
      /\ job' \in [Inums -> {Idle} \cup [call : {"itrunc"}, frames : Seq(Frame)]]
  BY <1>1, <1>2 DEF MapTypes
<1>4. InTrunc(i)' /\ Frames(i)' = <<>>
  BY <1>3 DEF InTrunc, Frames
<1>5. Left(entry)' = Left(entry)
  <2>1. ASSUME NEW b \in DataBlocks, NEW j \in Indexes
        PROVE  Done(b, j)' <=> Done(b, j)
    <3>1. ~DoneIn(<<>>, b, j)
      BY DEF DoneIn
    <3> QED
      BY <1>2, <1>3, <1>4, <3>1, DoneParts, DoneAfter
  <2> QED
    BY <1>1, <2>1, LeftSame
<1>6. /\ addrs' \in [Inums -> AddrMap] /\ used' \subseteq DataBlocks
      /\ Owned(addrs', Left(entry)', used')
  BY <1>1, <1>2, <1>5 DEF MapTypes, BlockMapInv
<1>7. BlockMapInv'
  <2>1. <<>> \in Seq(Frame) /\ \A n \in 1..Len(<<>>) : FALSE
    OBVIOUS
  <2>2. \A k \in Inums, q \in Paths :
           LookIn(addrs'[k], Left(entry)', q) = LookIn(addrs[k], Left(entry), q)
    BY <1>1, <1>5
  <2> QED
    BY <1>1, <1>3, <1>4, <1>6, <2>1, <2>2, TruncKeeps
<1> QED
  BY <1>5, <1>7

\* No address is left: the file is empty.
LEMMA TruncReturnKeeps ==
    ASSUME BlockMapInv, NEW i \in Inums, TruncReturn(i)
    PROVE  BlockMapInv' /\ Left(entry)' = Left(entry)
<1>1. /\ InTrunc(i) /\ Frames(i) = <<>> /\ FirstAddr(i) = NDIRECT + 3
      /\ len' = [len EXCEPT ![i] = 0] /\ job' = [job EXCEPT ![i] = Idle]
      /\ UNCHANGED <<addrs, entry, used>>
  BY DEF TruncReturn
<1>2. MapTypes /\ FramesAt(addrs, entry) /\ FrameDepths /\ Covered /\ NoHoles
  BY DEF BlockMapInv
<1>3. /\ job'[i] = Idle /\ len'[i] = 0
      /\ \A k \in Inums \ {i} : job'[k] = job[k] /\ len'[k] = len[k]
      /\ job' \in [Inums -> {Idle} \cup [call : {"itrunc"}, frames : Seq(Frame)]]
  BY <1>1, <1>2 DEF MapTypes
<1>4. ~InTrunc(i)'
  BY <1>3 DEF InTrunc, Idle
<1>5. Left(entry)' = Left(entry)
  <2>1. ASSUME NEW b \in DataBlocks, NEW j \in Indexes
        PROVE  Done(b, j)' <=> Done(b, j)
    <3>1. ~DoneIn(<<>>, b, j)
      BY DEF DoneIn
    <3> QED
      BY <1>1, <1>3, <1>4, <3>1, DoneParts, DoneAfter
  <2> QED
    BY <1>1, <2>1, LeftSame
<1>6. \A p \in Paths : LookIn(addrs[i], Left(entry), p) = 0
  <2> DEFINE S == {p \in Paths : LookIn(addrs[i], Left(entry), p) = 0}
  <2>1. ASSUME NEW a \in Addresses PROVE <<a>> \in S
    <3>1. addrs[i][a] = 0
      BY <1>1, FirstAddrIs, BlockSizes DEF Addresses
    <3> QED
      BY <3>1, LookRoot, RootPath
  <2>2. ASSUME NEW q \in Paths, NEW j \in Indexes, q \in S, Append(q, j) \in Paths
        PROVE  Append(q, j) \in S
    BY <2>2, LookStep
  <2>3. Paths \subseteq S
    BY <2>1, <2>2, PathInduct
  <2> QED
    BY <2>3
<1>7. MapTypes'
  <2>1. len' \in [Inums -> Nat]
    BY <1>1, <1>2 DEF MapTypes
  <2>2. \A k \in Inums : len'[k] <= MaxLen[k]
    <3>1. 0 <= MaxLen[i]
      BY BlockMapAssumption
    <3> QED
      BY <1>2, <1>3, <3>1 DEF MapTypes
  <2> QED
    BY <1>1, <1>2, <1>3, <2>1, <2>2 DEF MapTypes
<1>8. \A k \in Inums \ {i} : /\ InTrunc(k)' <=> InTrunc(k)
                             /\ Frames(k)' = Frames(k)
                             /\ FirstAddr(k)' = FirstAddr(k)
                             /\ \A n : FramePath(k, n)' = FramePath(k, n)
  <2> TAKE k \in Inums \ {i}
  <2>1. job'[k] = job[k] /\ addrs'[k] = addrs[k]
    BY <1>1, <1>3
  <2>2. FirstAddr(k)' = FirstAddr(k) /\ \A n : FramePath(k, n)' = FramePath(k, n)
    BY <2>1, PathSame
  <2> QED
    BY <2>1, <2>2 DEF InTrunc, Frames
<1>9. FramesAt(addrs, entry)'
  <2> SUFFICES ASSUME NEW k \in Inums, InTrunc(k)', NEW n \in 1..Len(Frames(k)')
               PROVE  /\ FramePath(k, n)' \in Paths
                      /\ Frames(k)'[n].block =
                            LookIn(addrs'[k], Left(entry)', FramePath(k, n)')
    BY DEF FramesAt
  <2> QED
    BY <1>1, <1>2, <1>4, <1>5, <1>8 DEF FramesAt
<1>10. FrameDepths'
  BY <1>2, <1>4, <1>8 DEF FrameDepths
<1>11. Covered'
  <2> SUFFICES ASSUME NEW k \in Inums, NEW p \in Paths,
                      LookIn(addrs'[k], Left(entry)', p) # 0
               PROVE  \E b \in 0..len'[k] - 1 : Leads(p, b)
    BY DEF Covered, Leads
  <2>1. LookIn(addrs[k], Left(entry), p) # 0
    BY <1>1, <1>5
  <2>2. k # i
    BY <1>6, <2>1
  <2> QED
    BY <1>2, <1>3, <2>1, <2>2 DEF Covered
<1>12. NoHoles'
  <2> SUFFICES ASSUME NEW k \in Inums, ~InTrunc(k)', NEW b \in 0..len'[k] - 1
               PROVE  LookIn(addrs'[k], Left(entry)', Path(b)) # 0
    BY DEF NoHoles
  <2>1. k # i
    BY <1>3
  <2>2. LookIn(addrs[k], Left(entry), Path(b)) # 0
    BY <1>2, <1>3, <1>8, <2>1 DEF NoHoles
  <2> QED
    BY <1>1, <1>5, <2>2
<1>13. Owned(addrs, Left(entry), used)'
  BY <1>1, <1>5 DEF BlockMapInv
<1>14. BlockMapInv'
  BY <1>7, <1>9, <1>10, <1>11, <1>12, <1>13 DEF BlockMapInv
<1> QED
  BY <1>5, <1>14

\* A pointer of the inode is cleared and its block freed.
LEMMA TruncFrees ==
    ASSUME BlockMapInv, NEW i \in Inums, NEW p \in Paths,
           LookIn(addrs[i], Left(entry), p) # 0,
           used' = used \ {LookIn(addrs[i], Left(entry), p)},
           OnePointer(addrs, Left(entry), addrs', Left(entry)', i, p, 0)
    PROVE  /\ used' \subseteq DataBlocks /\ Owned(addrs', Left(entry)', used')
           /\ \A k \in Inums, q \in Paths :
                 LookIn(addrs'[k], Left(entry)', q) # LookIn(addrs[k], Left(entry), q) =>
                     k = i /\ LookIn(addrs'[k], Left(entry)', q) = 0
<1>1. used \subseteq DataBlocks /\ 0 \notin used /\ Owned(addrs, Left(entry), used)
  BY BlockSizes DEF BlockMapInv, MapTypes
<1>2. Owned(addrs', Left(entry)', used')
  BY <1>1, OwnedShrinks
<1>3. \A k \in Inums, q \in Paths :
         LookIn(addrs'[k], Left(entry)', q) # LookIn(addrs[k], Left(entry), q) =>
             k = i /\ LookIn(addrs'[k], Left(entry)', q) = 0
  BY DEF OnePointer
<1> QED
  BY <1>1, <1>2, <1>3

\* An address is cleared from which nothing is left to be reached.
LEMMA AddressCleared ==
    ASSUME NEW ad \in [Inums -> AddrMap], NEW ad2, NEW en, NEW i \in Inums,
           NEW a \in Addresses, ad2 = [ad EXCEPT ![i][a] = 0], NEW en2,
           \A q \in Paths, j \in Indexes, k \in Inums :
              Append(q, j) \in Paths /\ LookIn(ad[k], en, q) # 0
                    /\ ~(k = i /\ q = <<a>>) =>
                 en2[LookIn(ad[k], en, q)][j] = en[LookIn(ad[k], en, q)][j],
           \A j \in Indexes : Append(<<a>>, j) \in Paths =>
              LookIn(ad[i], en, Append(<<a>>, j)) = 0
    PROVE  OnePointer(ad, en, ad2, en2, i, <<a>>, 0)
<1>1. <<a>> \in Paths
  BY RootPath
<1>2. \A k \in Inums, c \in Addresses :
         ad2[k][c] = IF k = i /\ <<c>> = <<a>> THEN 0 ELSE ad[k][c]
  <2> TAKE k \in Inums, c \in Addresses
  <2>1. <<c>> = <<a>> <=> c = a
    OBVIOUS
  <2>2. ad2[k][c] = IF k = i /\ c = a THEN 0 ELSE ad[k][c]
    BY DEF AddrMap
  <2> QED
    BY <2>1, <2>2
<1>3. \A q \in Paths, j \in Indexes : Append(q, j) # <<a>>
  BY NotRoot
<1>4. \A k \in Inums, q \in Paths, j \in Indexes :
         Append(q, j) \in Paths /\ LookIn(ad[k], en, q) # 0 /\ ~(k = i /\ q = <<a>>) =>
            en2[LookIn(ad[k], en, q)][j] =
               IF k = i /\ Append(q, j) = <<a>> THEN 0
               ELSE en[LookIn(ad[k], en, q)][j]
  BY <1>3
<1>5. \A j \in Indexes : Append(<<a>>, j) \in Paths =>
         LookIn(ad[i], en, Append(<<a>>, j)) = 0 /\ (0 # 0 => en2[0][j] = 0)
  OBVIOUS
<1>6. \A q \in Paths, j \in Indexes : <<a>> = Append(q, j) => LookIn(ad[i], en, q) # 0
  BY <1>3
<1> QED
  BY <1>1, <1>2, <1>4, <1>5, <1>6, PointerSet

\* A direct block is freed, or an indirect one read.
LEMMA TruncAddrKeeps ==
    ASSUME BlockMapInv, NEW i \in Inums, TruncAddr(i)
    PROVE  BlockMapInv'
<1> DEFINE a == FirstAddr(i)
<1>1. /\ InTrunc(i) /\ Frames(i) = <<>> /\ entry' = entry /\ len' = len
      /\ \/ /\ a < NDIRECT /\ Bfree(addrs[i][a])
            /\ addrs' = [addrs EXCEPT ![i][a] = 0] /\ UNCHANGED job
         \/ /\ a \in NDIRECT..NDIRECT + 2
            /\ job' = [job EXCEPT ![i].frames =
                  <<[block |-> addrs[i][a], next |-> 0, depth |-> a - NDIRECT + 1]>>]
            /\ UNCHANGED <<addrs, used>>
  BY DEF TruncAddr
<1>2. /\ MapTypes /\ addrs \in [Inums -> AddrMap] /\ entry \in EntryMap
      /\ used \subseteq DataBlocks
  BY DEF BlockMapInv, MapTypes
<1>3. a \in Addresses /\ addrs[i][a] # 0
  BY <1>1, FirstAddrIs, BlockSizes DEF Addresses
<1>4. /\ <<a>> \in Paths /\ Len(<<a>>) = 1 /\ <<a>>[1] = a
      /\ LookIn(addrs[i], Left(entry), <<a>>) = addrs[i][a]
      /\ a \in Nat /\ addrs[i][a] \in DataBlocks
  BY <1>2, <1>3, RootPath, LookRoot, BlockSizes DEF AddrMap, Numbers
<1>5. CASE /\ a < NDIRECT /\ Bfree(addrs[i][a])
           /\ addrs' = [addrs EXCEPT ![i][a] = 0] /\ UNCHANGED job
  <2> HIDE DEF a
  <2>1. Left(entry)' = Left(entry) /\ InTrunc(i)' /\ Frames(i)' = <<>>
    BY <1>1, <1>5, JobSame
  <2>2. \A j \in Indexes : Append(<<a>>, j) \notin Paths
    BY <1>4, <1>5, NextPath DEF Height
  <2>3. OnePointer(addrs, Left(entry), addrs', Left(entry)', i, <<a>>, 0)
    <3>1. OnePointer(addrs, Left(entry), addrs', Left(entry), i, <<a>>, 0)
      BY <1>2, <1>3, <1>5, <2>2, AddressCleared
    <3> QED
      BY <2>1, <3>1
  <2>4. /\ used' \subseteq DataBlocks /\ Owned(addrs', Left(entry)', used')
        /\ \A k \in Inums, q \in Paths :
              LookIn(addrs'[k], Left(entry)', q) # LookIn(addrs[k], Left(entry), q) =>
                  k = i /\ LookIn(addrs'[k], Left(entry)', q) = 0
    BY <1>3, <1>4, <1>5, <2>3, TruncFrees DEF Bfree
  <2>5. /\ addrs' \in [Inums -> AddrMap]
        /\ \A k \in Inums : k # i => addrs'[k] = addrs[k]
    BY <1>2, <1>3, <1>5 DEF AddrMap, Numbers
  <2>6. /\ <<>> \in Seq(Frame) /\ \A n \in 1..Len(<<>>) : FALSE
        /\ job' \in [Inums -> {Idle} \cup [call : {"itrunc"}, frames : Seq(Frame)]]
        /\ \A k \in Inums \ {i} : job'[k] = job[k]
    BY <1>2, <1>5 DEF MapTypes
  <2> QED
    BY <1>1, <2>1, <2>4, <2>5, <2>6, TruncKeeps
<1>6. CASE /\ a \in NDIRECT..NDIRECT + 2
           /\ job' = [job EXCEPT ![i].frames =
                 <<[block |-> addrs[i][a], next |-> 0, depth |-> a - NDIRECT + 1]>>]
           /\ UNCHANGED <<addrs, used>>
  <2> DEFINE f == [block |-> addrs[i][a], next |-> 0, depth |-> a - NDIRECT + 1]
             X == <<f>>
  <2>1. f \in Frame
    BY <1>4, <1>6, BlockSizes DEF Frame
  <2>2. X \in Seq(Frame) /\ Len(X) = 1 /\ X[1] = f
    BY <2>1
  <2>3. f.block = addrs[i][a] /\ f.next = 0 /\ f.depth = a - NDIRECT + 1
    OBVIOUS
  <2>4. job' = [job EXCEPT ![i].frames = X]
    BY <1>6
  <2> HIDE DEF f, X
  <2>5. /\ job' \in [Inums -> {Idle} \cup [call : {"itrunc"}, frames : Seq(Frame)]]
        /\ InTrunc(i)' /\ Frames(i)' = X /\ \A k \in Inums \ {i} : job'[k] = job[k]
    BY <1>1, <1>2, <2>2, <2>4, JobFrames
  <2>6. Left(entry)' = Left(entry)
    <3>1. ASSUME NEW b \in DataBlocks, NEW j \in Indexes
          PROVE  Done(b, j)' <=> Done(b, j)
      <4>1. ~DoneIn(<<>>, b, j)
        BY DEF DoneIn
      <4>2. ~DoneIn(X, b, j)
        BY <2>2, <2>3 DEF DoneIn, UptoIn, Indexes
      <4> QED
        BY <1>1, <2>5, <4>1, <4>2, DoneParts, DoneAfter
    <3> QED
      BY <1>1, <3>1, LeftSame
  <2>7. /\ addrs' \in [Inums -> AddrMap] /\ used' \subseteq DataBlocks
        /\ Owned(addrs', Left(entry)', used')
    BY <1>2, <1>6, <2>6 DEF BlockMapInv
  <2>8. \A k \in Inums, q \in Paths :
           LookIn(addrs'[k], Left(entry)', q) = LookIn(addrs[k], Left(entry), q)
    BY <1>6, <2>6
  <2>9. FirstAddr(i)' = a
    BY <1>6, PathSame
  <2>10. PathOf(a, X, 1) = <<a>>
    BY DEF PathOf
  <2>11. ASSUME NEW n \in 1..Len(X)
         PROVE  /\ PathOf(FirstAddr(i)', X, n) \in Paths
                /\ X[n].block = LookIn(addrs'[i], Left(entry)', PathOf(FirstAddr(i)', X, n))
                /\ X[n].depth = FirstAddr(i)' - NDIRECT + 2 - n
    <3>1. n = 1
      BY <2>2
    <3>2. X[n].depth = a - NDIRECT + 2 - n
      BY <1>4, <2>2, <2>3, <3>1, BlockSizes
    <3> QED
      BY <1>4, <2>2, <2>3, <2>8, <2>9, <2>10, <3>1, <3>2
  <2> QED
    BY <1>1, <1>6, <2>2, <2>5, <2>7, <2>8, <2>11, TruncKeeps
<1> QED
  BY <1>1, <1>5, <1>6

\* A path of frames is determined by the frames before its end.
LEMMA PathOfPrefix ==
    ASSUME NEW a, NEW fs, NEW gs, NEW n \in Nat,
           \A k \in 1..n - 1 : fs[k].next = gs[k].next
    PROVE  PathOf(a, fs, n) = PathOf(a, gs, n)
<1>1. \A k \in 1..n : (IF k = 1 THEN a ELSE fs[k - 1].next - 1) =
                      (IF k = 1 THEN a ELSE gs[k - 1].next - 1)
  <2> TAKE k \in 1..n
  <2>1. k # 1 => k - 1 \in 1..n - 1
    OBVIOUS
  <2> QED
    BY <2>1
<1> QED
  BY <1>1 DEF PathOf

\* A stack without its top.
LEMMA FrontIs ==
    ASSUME NEW S, NEW s \in Seq(S), Len(s) >= 1
    PROVE  /\ Last(s) = s[Len(s)]
           /\ Front(s) \in Seq(S) /\ Len(Front(s)) = Len(s) - 1
           /\ \A n \in 1..Len(s) - 1 : Front(s)[n] = s[n]
<1> DEFINE l == Len(s)
<1>1. l \in Nat /\ l >= 1 /\ \A n \in 1..l - 1 : s[n] \in S
  OBVIOUS
<1>2. Last(s) = s[l] /\ Front(s) = SubSeq(s, 1, l - 1)
  BY DEF Last, Front
<1> HIDE DEF l
<1>3. /\ SubSeq(s, 1, l - 1) \in Seq(S)
      /\ Len(SubSeq(s, 1, l - 1)) = IF 1 <= l - 1 THEN (l - 1) - 1 + 1 ELSE 0
      /\ \A n \in 1..(l - 1) - 1 + 1 : SubSeq(s, 1, l - 1)[n] = s[1 + n - 1]
  <2> DEFINE m == l - 1
  <2>1. m \in Int /\ 1 \in Int /\ \A n \in 1..m : s[n] \in S
    BY <1>1
  <2> HIDE DEF m
  <2>2. /\ SubSeq(s, 1, m) \in Seq(S)
        /\ Len(SubSeq(s, 1, m)) = IF 1 <= m THEN m - 1 + 1 ELSE 0
        /\ \A n \in 1..m - 1 + 1 : SubSeq(s, 1, m)[n] = s[1 + n - 1]
    BY <2>1, SubSeqProperties
  <2> QED
    BY <2>2 DEF m
<1>4. /\ Len(Front(s)) = l - 1
      /\ \A n \in 1..l - 1 : Front(s)[n] = s[n]
  <2> DEFINE g == SubSeq(s, 1, l - 1)
  <2>1. /\ Len(g) = IF 1 <= l - 1 THEN (l - 1) - 1 + 1 ELSE 0
        /\ \A n \in 1..(l - 1) - 1 + 1 : g[n] = s[1 + n - 1]
    BY <1>3
  <2> HIDE DEF g
  <2>2. Len(g) = l - 1
    BY <1>1, <2>1
  <2>3. \A n \in 1..l - 1 : g[n] = s[n]
    BY <1>1, <2>1
  <2> QED
    BY <1>2, <2>2, <2>3 DEF g
<1> QED
  BY <1>2, <1>3, <1>4 DEF l

\* The top frame: f is the block of numbers that itrunc is working on.
LEMMA TopFrame ==
    ASSUME BlockMapInv, NEW i \in Inums, InTrunc(i), Frames(i) # <<>>
    PROVE  LET F == Frames(i)
               m == Len(F)
               q == FramePath(i, m)
           IN  /\ F \in Seq(Frame) /\ m \in Nat /\ m >= 1 /\ m \in 1..m
               /\ Last(F) = F[m] /\ F[m] \in Frame
               /\ Front(F) \in Seq(Frame) /\ Len(Front(F)) = m - 1
               /\ \A n \in 1..m - 1 : Front(F)[n] = F[n]
               /\ F[m].block \in DataBlocks /\ F[m].next \in 0..N
               /\ F[m].depth \in 1..3
               /\ q \in Paths /\ Len(q) = m /\ q[1] = FirstAddr(i)
               /\ F[m].block = LookIn(addrs[i], Left(entry), q)
               /\ F[m].block # 0
               /\ FirstAddr(i) \in Addresses
               /\ F[m].depth = Height(q[1]) - m
               /\ \A l \in Indexes : Done(F[m].block, l) <=> l < F[m].next
               /\ \A l \in Indexes : Left(entry)[F[m].block][l] =
                     IF l < F[m].next THEN 0 ELSE entry[F[m].block][l]
<1> DEFINE F == Frames(i)
           m == Len(F)
           q == FramePath(i, m)
<1>1. MapTypes /\ FramesAt(addrs, entry) /\ FrameDepths /\ Owned(addrs, Left(entry), used)
  BY DEF BlockMapInv
<1>2. F \in Seq(Frame) /\ m \in Nat
  BY <1>1, FrameNumbers
<1>3. m >= 1 /\ m \in 1..m
  BY <1>2
<1>4. /\ Last(F) = F[m]
      /\ Front(F) \in Seq(Frame) /\ Len(Front(F)) = m - 1
      /\ \A n \in 1..m - 1 : Front(F)[n] = F[n]
  BY <1>2, <1>3, FrontIs
<1>5. /\ F[m] \in Frame /\ F[m].block \in DataBlocks
      /\ F[m].next \in 0..N /\ F[m].depth \in 1..3
  BY <1>1, <1>3, FrameTypes
<1>6. q \in Paths /\ F[m].block = LookIn(addrs[i], Left(entry), q)
  BY <1>1, <1>3 DEF FramesAt
<1>7. /\ Len(q) = m /\ q[1] = FirstAddr(i) /\ FirstAddr(i) \in Addresses
  BY <1>2, <1>3, <1>6, FramePathLength
<1>8. F[m].depth = Height(q[1]) - m
  <2>1. F[m].depth = FirstAddr(i) - NDIRECT + 2 - m
    BY <1>1, <1>3 DEF FrameDepths
  <2>2. FirstAddr(i) \in Nat /\ NDIRECT \in Nat
    BY <1>7, BlockSizes
  <2>3. ~(FirstAddr(i) < NDIRECT)
    BY <1>2, <1>3, <1>5, <2>1, <2>2
  <2>4. Height(FirstAddr(i)) = FirstAddr(i) - NDIRECT + 2
    BY <2>3 DEF Height
  <2> DEFINE h == Height(FirstAddr(i))
             d == F[m].depth
  <2>5. Height(q[1]) = h
    BY <1>7
  <2> DEFINE a == FirstAddr(i)
  <2>6. d = h - m
    <3>1. d = a - NDIRECT + 2 - m /\ h = a - NDIRECT + 2 /\ a \in Nat
      BY <2>1, <2>2, <2>4
    <3> HIDE DEF a, d, h, m, F, q
    <3> QED
      BY <1>2, <2>2, <3>1 DEF m
  <2> HIDE DEF h, d
  <2>7. d = Height(q[1]) - m
    BY <2>5, <2>6, Zenon
  <2> QED
    BY <2>7 DEF d
<1>9. \A l \in Indexes : Done(F[m].block, l) <=> l < F[m].next
  <2>1. Upto(i, m) = F[m].next
    BY DEF Upto
  <2> QED
    BY <1>1, <1>3, <2>1, DoneInFrame
<1>10. entry \in EntryMap
  BY <1>1 DEF MapTypes
<1>11. \A l \in Indexes : Left(entry)[F[m].block][l] =
          IF l < F[m].next THEN 0 ELSE entry[F[m].block][l]
  BY <1>5, <1>9, <1>10, LeftTypes
<1>12. F[m].block # 0
  BY <1>5, BlockSizes
<1> HIDE DEF F, m, q
<1> QED
  BY <1>2, <1>3, <1>4, <1>5, <1>6, <1>7, <1>8, <1>9, <1>11, <1>12 DEF F, m, q

\* An entry of a block of numbers is done with, from which nothing is left to
\* be reached.
LEMMA EntryCleared ==
    ASSUME NEW ad, NEW en, NEW us, Owned(ad, en, us), NEW i \in Inums,
           NEW q \in Paths, NEW j \in Indexes, Append(q, j) \in Paths,
           LookIn(ad[i], en, q) # 0, NEW ad2, ad2 = ad, NEW en2,
           \A k \in Inums, r \in Paths, l \in Indexes :
              LookIn(ad[k], en, r) # 0 /\ ~(k = i /\ r = Append(q, j)) =>
                 en2[LookIn(ad[k], en, r)][l] =
                    IF LookIn(ad[k], en, r) = LookIn(ad[i], en, q) /\ l = j THEN 0
                    ELSE en[LookIn(ad[k], en, r)][l],
           \A l \in Indexes : Append(Append(q, j), l) \in Paths =>
              LookIn(ad[i], en, Append(Append(q, j), l)) = 0
    PROVE  OnePointer(ad, en, ad2, en2, i, Append(q, j), 0)
<1> DEFINE p == Append(q, j)
<1>1. \A a : <<a>> # p
  BY NotRoot
<1> DEFINE v == 0
<1>2. \A k \in Inums, a \in Addresses :
         ad2[k][a] = IF k = i /\ <<a>> = p THEN v ELSE ad[k][a]
  <2> HIDE DEF p, v
  <2> QED
    BY <1>1
<1>3. \A r \in Paths, l \in Indexes : Append(r, l) = p => r = q /\ l = j
  BY PathsDiffer
<1>4. ASSUME NEW k \in Inums, NEW r \in Paths, NEW l \in Indexes,
             LookIn(ad[k], en, r) # 0, ~(k = i /\ r = p)
      PROVE  en2[LookIn(ad[k], en, r)][l] =
                IF k = i /\ Append(r, l) = p THEN v ELSE en[LookIn(ad[k], en, r)][l]
  <2>1. en2[LookIn(ad[k], en, r)][l] =
           IF LookIn(ad[k], en, r) = LookIn(ad[i], en, q) /\ l = j THEN 0
           ELSE en[LookIn(ad[k], en, r)][l]
    BY <1>4
  <2>2. LookIn(ad[k], en, r) = LookIn(ad[i], en, q) => k = i /\ r = q
    BY <1>4, OneWay
  <2>3. CASE k = i /\ Append(r, l) = p
    BY <1>3, <2>1, <2>3
  <2>4. CASE ~(k = i /\ Append(r, l) = p)
    BY <2>1, <2>2, <2>4
  <2> QED
    BY <2>3, <2>4
<1>5. \A l \in Indexes : Append(p, l) \in Paths =>
         LookIn(ad[i], en, Append(p, l)) = 0 /\ (v # 0 => en2[v][l] = 0)
  OBVIOUS
<1>6. \A r \in Paths, l \in Indexes : p = Append(r, l) => LookIn(ad[i], en, r) # 0
  BY <1>3
<1>7. p \in Paths
  OBVIOUS
<1> HIDE DEF p, v
<1>8. OnePointer(ad, en, ad2, en2, i, p, v)
  <2>1. \A k \in Inums, r \in Paths, l \in Indexes :
           Append(r, l) \in Paths /\ LookIn(ad[k], en, r) # 0 /\ ~(k = i /\ r = p) =>
              en2[LookIn(ad[k], en, r)][l] =
                 IF k = i /\ Append(r, l) = p THEN v ELSE en[LookIn(ad[k], en, r)][l]
    BY <1>4
  <2> QED
    BY <1>2, <1>5, <1>6, <1>7, <2>1, PointerSet
<1> QED
  BY <1>8 DEF p, v

\* The top of a stack replaced.
LEMMA PutOnTop ==
    ASSUME NEW S, NEW s \in Seq(S), Len(s) >= 1, NEW f \in S
    PROVE  LET X == Append(Front(s), f)
           IN  /\ X \in Seq(S) /\ Len(X) = Len(s) /\ X[Len(s)] = f
               /\ \A n \in 1..Len(s) - 1 : X[n] = s[n]
<1> DEFINE l == Len(s)
           g == Front(s)
<1>1. l \in Nat /\ l >= 1
  OBVIOUS
<1>2. g \in Seq(S) /\ Len(g) = l - 1 /\ \A n \in 1..l - 1 : g[n] = s[n]
  BY FrontIs
<1> HIDE DEF l, g
<1>3. /\ Append(g, f) \in Seq(S) /\ Len(Append(g, f)) = (l - 1) + 1
      /\ Append(g, f)[(l - 1) + 1] = f
      /\ \A n \in 1..l - 1 : Append(g, f)[n] = g[n]
  BY <1>1, <1>2
<1>4. (l - 1) + 1 = l
  BY <1>1
<1>5. Append(g, f) \in Seq(S) /\ Len(Append(g, f)) = l /\ Append(g, f)[l] = f
  BY <1>3, <1>4
<1>6. \A n \in 1..l - 1 : Append(g, f)[n] = s[n]
  BY <1>2, <1>3
<1> QED
  BY <1>5, <1>6 DEF l, g

\* The data block of an entry is freed.
LEMMA TruncDataKeeps ==
    ASSUME BlockMapInv, NEW i \in Inums, InTrunc(i), Frames(i) # <<>>,
           NEW f, f = Last(Frames(i)), NEW j, j = NextEntry(f), j < N, f.depth = 1,
           Bfree(entry[f.block][j]), UNCHANGED <<addrs, entry, len>>,
           job' = [job EXCEPT ![i].frames = Append(Front(@), [f EXCEPT !.next = j + 1])]
    PROVE  BlockMapInv'
<1> DEFINE F == Frames(i)
           m == Len(F)
           q == FramePath(i, m)
           top == [f EXCEPT !.next = j + 1]
           X == Append(Front(F), top)
           b == f.block
           L == Left(entry)
<1>1. /\ MapTypes /\ addrs \in [Inums -> AddrMap] /\ entry \in EntryMap
      /\ used \subseteq DataBlocks /\ Owned(addrs, L, used) /\ FramesAt(addrs, entry)
      /\ FrameDepths
  BY DEF BlockMapInv, MapTypes
<1>2. /\ F \in Seq(Frame) /\ m \in Nat /\ m >= 1 /\ m \in 1..m
      /\ f = F[m] /\ f \in Frame
      /\ b \in DataBlocks /\ f.next \in 0..N /\ f.depth \in 1..3
      /\ q \in Paths /\ Len(q) = m /\ q[1] = FirstAddr(i)
      /\ b = LookIn(addrs[i], L, q) /\ b # 0
      /\ f.depth = Height(q[1]) - m
      /\ \A l \in Indexes : L[b][l] = IF l < f.next THEN 0 ELSE entry[b][l]
  BY TopFrame
<1>3. /\ j \in f.next..N /\ entry[b][j] # 0
      /\ \A l \in f.next..j - 1 : entry[b][l] = 0
  BY <1>2, NextEntryIs
<1>4. N \in Nat /\ f.next \in Nat /\ j \in Nat /\ j \in Indexes /\ j + 1 \in 0..N
  BY <1>2, <1>3, BlockSizes DEF Indexes
<1>5. /\ top \in Frame /\ top.next = j + 1 /\ top.block = b /\ top.depth = f.depth
  BY <1>2, <1>4 DEF Frame
<1>6. /\ X \in Seq(Frame) /\ Len(X) = m /\ X[m] = top
      /\ \A n \in 1..m - 1 : X[n] = F[n]
  BY <1>2, <1>5, PutOnTop
<1>7. job' = [job EXCEPT ![i].frames = X]
  BY <1>1 DEF Frames, MapTypes
<1> HIDE DEF F, m, q, top, X, b, L
<1>8. /\ job' \in [Inums -> {Idle} \cup [call : {"itrunc"}, frames : Seq(Frame)]]
      /\ InTrunc(i)' /\ Frames(i)' = X /\ \A k \in Inums \ {i} : job'[k] = job[k]
  BY <1>1, <1>6, <1>7, JobFrames
<1>9. ASSUME NEW c \in DataBlocks, NEW l \in Indexes
      PROVE  Done(c, l)' <=> Done(c, l) \/ (c = b /\ l \in f.next..j)
  <2>1. l \in Int
    BY BlockSizes DEF Indexes
  <2>2. ASSUME NEW n \in 1..m - 1
        PROVE  X[n].block = F[n].block /\ UptoIn(X, n) = UptoIn(F, n)
    BY <1>2, <1>6 DEF UptoIn, m
  <2>3. X[m].block = b /\ F[m].block = b /\ UptoIn(X, m) = j + 1 /\ UptoIn(F, m) = f.next
    BY <1>2, <1>5, <1>6 DEF UptoIn, m, b
  <2>4. l < j + 1 <=> l < f.next \/ l \in f.next..j
    BY <1>3, <1>4, <2>1
  <2>5. DoneIn(X, c, l) <=> DoneIn(F, c, l) \/ (c = b /\ l \in f.next..j)
    <3>1. DoneIn(X, c, l) <=>
             \/ \E n \in 1..m - 1 : X[n].block = c /\ l < UptoIn(X, n)
             \/ X[m].block = c /\ l < UptoIn(X, m)
      <4>1. 1..Len(X) = (1..m - 1) \cup {m}
        BY <1>2, <1>6
      <4> QED
        BY <4>1 DEF DoneIn
    <3>2. DoneIn(F, c, l) <=>
             \/ \E n \in 1..m - 1 : F[n].block = c /\ l < UptoIn(F, n)
             \/ F[m].block = c /\ l < UptoIn(F, m)
      <4>1. 1..Len(F) = (1..m - 1) \cup {m}
        BY <1>2 DEF m
      <4> QED
        BY <4>1 DEF DoneIn
    <3> QED
      BY <2>2, <2>3, <2>4, <3>1, <3>2
  <2>6. Done(c, l) <=> DoneByOthers(i, c, l) \/ DoneIn(F, c, l)
    BY DoneParts DEF F
  <2>7. Done(c, l)' <=> DoneByOthers(i, c, l) \/ DoneIn(X, c, l)
    BY <1>8, DoneAfter
  <2> QED
    BY <2>5, <2>6, <2>7
<1>10. ASSUME NEW c \in DataBlocks, NEW l \in Indexes
       PROVE  Left(entry)'[c][l] = IF c = b /\ l = j THEN 0 ELSE L[c][l]
  <2>1. Left(entry)'[c][l] = IF Done(c, l)' THEN 0 ELSE entry[c][l]
    BY DEF Left, Indexes
  <2>2. L[c][l] = IF Done(c, l) THEN 0 ELSE entry[c][l]
    BY <1>1, LeftTypes DEF L
  <2>3. c = b /\ l \in f.next..j => l = j \/ entry[c][l] = 0
    BY <1>3, <1>4
  <2>4. j \in f.next..j
    BY <1>3, <1>4
  <2> QED
    BY <1>9, <2>1, <2>2, <2>3, <2>4
<1> DEFINE p == Append(q, j)
<1>11. p \in Paths /\ Len(p) = m + 1
  <2>1. m < Height(q[1])
    <3> DEFINE h == Height(q[1])
    <3>1. f.depth = h - m /\ h \in Int
      BY <1>2, BlockSizes DEF Paths
    <3> HIDE DEF h
    <3>2. m < h
      BY <1>2, <3>1
    <3> QED
      BY <3>2 DEF h
  <2> QED
    BY <1>2, <1>4, <2>1, NextPath
<1>12. \A l \in Indexes : Append(p, l) \notin Paths
  <2>1. p[1] = q[1]
    BY <1>2, <1>4, NextPath
  <2> DEFINE h == Height(q[1])
             d == Len(p)
  <2>2. h \in Int /\ f.depth = h - m /\ d = m + 1 /\ h = Height(p[1])
    <3>1. q[1] \in Addresses
      BY <1>2 DEF Paths
    <3>2. h \in Int
      BY <3>1, BlockSizes
    <3>3. f.depth = h - m
      BY <1>2
    <3>4. d = m + 1
      BY <1>11
    <3>5. h = Height(p[1])
      BY <2>1, Zenon
    <3> QED
      BY <3>2, <3>3, <3>4, <3>5
  <2> HIDE DEF h, d, p
  <2>3. ~(d < h)
    BY <1>2, <2>2
  <2> QED
    BY <1>11, <2>2, <2>3, NextPath DEF d
<1>13. LookIn(addrs[i], L, p) = entry[b][j] /\ LookIn(addrs[i], L, p) # 0
  <2>1. LookIn(addrs[i], L, p) = L[b][j]
    BY <1>2, <1>4, <1>11, LookStep
  <2>2. L[b][j] = entry[b][j]
    BY <1>2, <1>3, <1>4
  <2> QED
    BY <1>3, <2>1, <2>2
<1>14. OnePointer(addrs, L, addrs', Left(entry)', i, p, 0)
  <2>1. ASSUME NEW k \in Inums, NEW r \in Paths, NEW l \in Indexes,
               LookIn(addrs[k], L, r) # 0
        PROVE  Left(entry)'[LookIn(addrs[k], L, r)][l] =
                  IF LookIn(addrs[k], L, r) = LookIn(addrs[i], L, q) /\ l = j THEN 0
                  ELSE L[LookIn(addrs[k], L, r)][l]
    <3>1. LookIn(addrs[k], L, r) \in DataBlocks
      BY <1>1, <2>1 DEF Owned
    <3> QED
      BY <1>2, <1>10, <3>1
  <2>2. \A k \in Inums, r \in Paths, l \in Indexes :
           LookIn(addrs[k], L, r) # 0 /\ ~(k = i /\ r = Append(q, j)) =>
              Left(entry)'[LookIn(addrs[k], L, r)][l] =
                 IF LookIn(addrs[k], L, r) = LookIn(addrs[i], L, q) /\ l = j THEN 0
                 ELSE L[LookIn(addrs[k], L, r)][l]
    BY <2>1
  <2>3. LookIn(addrs[i], L, q) # 0
    BY <1>2
  <2>4. \A l \in Indexes : Append(Append(q, j), l) \in Paths =>
           LookIn(addrs[i], L, Append(Append(q, j), l)) = 0
    BY <1>12
  <2>5. addrs' = addrs /\ q \in Paths /\ Owned(addrs, L, used) /\ Append(q, j) \in Paths
    BY <1>1, <1>2, <1>11
  <2> HIDE DEF p
  <2>6. OnePointer(addrs, L, addrs', Left(entry)', i, Append(q, j), 0)
    BY <1>4, <2>2, <2>3, <2>4, <2>5, EntryCleared
  <2> QED
    BY <2>6 DEF p
<1>15. /\ used' \subseteq DataBlocks /\ Owned(addrs', Left(entry)', used')
       /\ \A k \in Inums, r \in Paths :
             LookIn(addrs'[k], Left(entry)', r) # LookIn(addrs[k], L, r) =>
                 k = i /\ LookIn(addrs'[k], Left(entry)', r) = 0
  <2>1. used' = used \ {LookIn(addrs[i], Left(entry), p)}
    BY <1>13 DEF Bfree, b, L
  <2> HIDE DEF p
  <2> QED
    BY <1>11, <1>13, <1>14, <2>1, TruncFrees DEF L
<1>16. FirstAddr(i)' = FirstAddr(i)
  BY PathSame
<1>17. ASSUME NEW n \in 1..Len(X)
       PROVE  /\ PathOf(FirstAddr(i)', X, n) \in Paths
              /\ X[n].block = LookIn(addrs'[i], Left(entry)', PathOf(FirstAddr(i)', X, n))
              /\ X[n].depth = FirstAddr(i)' - NDIRECT + 2 - n
  <2>1. n \in 1..m /\ n \in Nat /\ n > 0 /\ n # m + 1
    BY <1>2, <1>6
  <2>2. PathOf(FirstAddr(i)', X, n) = FramePath(i, n)
    <3>1. \A k \in 1..n - 1 : k \in 1..m - 1
      BY <1>2, <2>1
    <3>2. \A k \in 1..n - 1 : X[k].next = F[k].next
      BY <1>6, <3>1
    <3>3. PathOf(FirstAddr(i), X, n) = PathOf(FirstAddr(i), F, n)
      BY <2>1, <3>2, PathOfPrefix
    <3> QED
      BY <1>16, <3>3 DEF FramePath, F
  <2>3. /\ FramePath(i, n) \in Paths
        /\ F[n].block = LookIn(addrs[i], L, FramePath(i, n))
        /\ F[n].depth = FirstAddr(i) - NDIRECT + 2 - n
    BY <1>1, <2>1 DEF FramesAt, FrameDepths, F, m, L
  <2>4. X[n].block = F[n].block /\ X[n].depth = F[n].depth
    <3>1. n = m \/ n \in 1..m - 1
      BY <1>2, <2>1
    <3> QED
      BY <1>2, <1>5, <1>6, <3>1 DEF b
  <2>5. FramePath(i, n) # p
    BY <1>11, <2>1, <2>3, FramePathLength
  <2>6. LookIn(addrs'[i], Left(entry)', FramePath(i, n)) = LookIn(addrs[i], L, FramePath(i, n))
    BY <1>14, <2>3, <2>5 DEF OnePointer
  <2> QED
    BY <1>16, <2>2, <2>3, <2>4, <2>6
<1>18. addrs' \in [Inums -> AddrMap] /\ \A k \in Inums : k # i => addrs'[k] = addrs[k]
  BY <1>1
<1> QED
  BY <1>6, <1>8, <1>15, <1>17, <1>18, TruncKeeps DEF L

\* The block of numbers of an entry is read.
LEMMA TruncReadKeeps ==
    ASSUME BlockMapInv, NEW i \in Inums, InTrunc(i), Frames(i) # <<>>,
           NEW f, f = Last(Frames(i)), NEW j, j = NextEntry(f), j < N, f.depth > 1,
           UNCHANGED <<addrs, entry, used, len>>,
           job' = [job EXCEPT ![i].frames =
              Append(Append(Front(@), [f EXCEPT !.next = j + 1]),
                     [block |-> entry[f.block][j], next |-> 0, depth |-> f.depth - 1])]
    PROVE  BlockMapInv' /\ Left(entry)' = Left(entry)
<1> DEFINE F == Frames(i)
           m == Len(F)
           q == FramePath(i, m)
           top == [f EXCEPT !.next = j + 1]
           below == [block |-> entry[f.block][j], next |-> 0, depth |-> f.depth - 1]
           Y == Append(Front(F), top)
           X == Append(Y, below)
           b == f.block
           L == Left(entry)
<1>1. /\ MapTypes /\ addrs \in [Inums -> AddrMap] /\ entry \in EntryMap
      /\ used \subseteq DataBlocks /\ Owned(addrs, L, used) /\ FramesAt(addrs, entry)
      /\ FrameDepths
  BY DEF BlockMapInv, MapTypes
<1>2. /\ F \in Seq(Frame) /\ m \in Nat /\ m >= 1 /\ m \in 1..m
      /\ f = F[m] /\ f \in Frame
      /\ b \in DataBlocks /\ f.next \in 0..N /\ f.depth \in 1..3
      /\ q \in Paths /\ Len(q) = m /\ q[1] = FirstAddr(i)
      /\ b = LookIn(addrs[i], L, q) /\ b # 0
      /\ f.depth = Height(q[1]) - m
      /\ \A l \in Indexes : L[b][l] = IF l < f.next THEN 0 ELSE entry[b][l]
  BY TopFrame
<1>3. /\ j \in f.next..N /\ entry[b][j] # 0
      /\ \A l \in f.next..j - 1 : entry[b][l] = 0
  BY <1>2, NextEntryIs
<1>4. N \in Nat /\ f.next \in Nat /\ j \in Nat /\ j \in Indexes /\ j + 1 \in 0..N
  BY <1>2, <1>3, BlockSizes DEF Indexes
<1>5. /\ top \in Frame /\ top.next = j + 1 /\ top.block = b /\ top.depth = f.depth
  BY <1>2, <1>4 DEF Frame
<1>6. /\ below \in Frame /\ below.block = entry[b][j] /\ below.next = 0
      /\ below.depth = f.depth - 1
  <2>1. entry[b][j] \in DataBlocks
    BY <1>1, <1>2, <1>3, <1>4 DEF EntryMap, Numbers
  <2>2. f.depth - 1 \in 1..3
    BY <1>2
  <2> QED
    BY <1>4, <2>1, <2>2 DEF Frame
<1>7. /\ Y \in Seq(Frame) /\ Len(Y) = m /\ Y[m] = top
      /\ \A n \in 1..m - 1 : Y[n] = F[n]
  BY <1>2, <1>5, PutOnTop
<1>8. job' = [job EXCEPT ![i].frames = X]
  BY <1>1 DEF Frames, MapTypes
<1> HIDE DEF F, m, q, top, below, X, Y, b, L
<1>9. /\ X \in Seq(Frame) /\ Len(X) = m + 1 /\ X[m + 1] = below /\ X[m] = top
      /\ \A n \in 1..m - 1 : X[n] = F[n]
  <2>1. /\ Append(Y, below) \in Seq(Frame) /\ Len(Append(Y, below)) = m + 1
        /\ Append(Y, below)[m + 1] = below
        /\ \A n \in 1..m : Append(Y, below)[n] = Y[n]
    BY <1>6, <1>7
  <2>2. \A n \in 1..m - 1 : n \in 1..m
    BY <1>2
  <2> QED
    BY <1>2, <1>7, <2>1, <2>2 DEF X
<1>10. /\ job' \in [Inums -> {Idle} \cup [call : {"itrunc"}, frames : Seq(Frame)]]
       /\ InTrunc(i)' /\ Frames(i)' = X /\ \A k \in Inums \ {i} : job'[k] = job[k]
  BY <1>1, <1>9, <1>8, JobFrames
<1>11. ASSUME NEW c \in DataBlocks, NEW l \in Indexes
       PROVE  Done(c, l)' <=> Done(c, l) \/ (c = b /\ l \in f.next..j - 1)
  <2>1. l \in Int /\ ~(l < 0)
    BY BlockSizes DEF Indexes
  <2>2. ASSUME NEW n \in 1..m - 1
        PROVE  X[n].block = F[n].block /\ UptoIn(X, n) = UptoIn(F, n)
    BY <1>2, <1>9 DEF UptoIn, m
  <2>3. /\ X[m].block = b /\ F[m].block = b /\ UptoIn(X, m) = j /\ UptoIn(F, m) = f.next
        /\ UptoIn(X, m + 1) = 0
    BY <1>2, <1>4, <1>5, <1>6, <1>9 DEF UptoIn, m, b
  <2>4. l < j <=> l < f.next \/ l \in f.next..j - 1
    BY <1>3, <1>4, <2>1
  <2>5. DoneIn(X, c, l) <=> DoneIn(F, c, l) \/ (c = b /\ l \in f.next..j - 1)
    <3>1. DoneIn(X, c, l) <=>
             \/ \E n \in 1..m - 1 : X[n].block = c /\ l < UptoIn(X, n)
             \/ X[m].block = c /\ l < UptoIn(X, m)
             \/ X[m + 1].block = c /\ l < UptoIn(X, m + 1)
      <4>1. 1..Len(X) = (1..m - 1) \cup {m} \cup {m + 1}
        BY <1>2, <1>9
      <4> QED
        BY <4>1 DEF DoneIn
    <3>2. DoneIn(F, c, l) <=>
             \/ \E n \in 1..m - 1 : F[n].block = c /\ l < UptoIn(F, n)
             \/ F[m].block = c /\ l < UptoIn(F, m)
      <4>1. 1..Len(F) = (1..m - 1) \cup {m}
        BY <1>2 DEF m
      <4> QED
        BY <4>1 DEF DoneIn
    <3> QED
      BY <2>1, <2>2, <2>3, <2>4, <3>1, <3>2
  <2>6. Done(c, l) <=> DoneByOthers(i, c, l) \/ DoneIn(F, c, l)
    BY DoneParts DEF F
  <2>7. Done(c, l)' <=> DoneByOthers(i, c, l) \/ DoneIn(X, c, l)
    BY <1>10, DoneAfter
  <2> QED
    BY <2>5, <2>6, <2>7
<1>12. Left(entry)' = L
  <2>1. \A c \in DataBlocks, l \in Indexes :
           (Done(c, l)' <=> Done(c, l)) \/ entry[c][l] = 0
    BY <1>3, <1>11
  <2> QED
    BY <2>1, LeftSame DEF L
<1> DEFINE p == Append(q, j)
<1>13. p \in Paths
  <2>1. m < Height(q[1])
    <3> DEFINE h == Height(q[1])
    <3>1. f.depth = h - m /\ h \in Int
      BY <1>2, BlockSizes DEF Paths
    <3> HIDE DEF h
    <3>2. m < h
      BY <1>2, <3>1
    <3> QED
      BY <3>2 DEF h
  <2> QED
    BY <1>2, <1>4, <2>1, NextPath
<1>14. LookIn(addrs[i], L, p) = entry[b][j]
  <2>1. LookIn(addrs[i], L, p) = L[b][j]
    BY <1>2, <1>4, <1>13, LookStep
  <2>2. L[b][j] = entry[b][j]
    BY <1>2, <1>3, <1>4
  <2> QED
    BY <2>1, <2>2
<1>15. FirstAddr(i)' = FirstAddr(i)
  BY PathSame
<1>16. ASSUME NEW n \in 1..m
       PROVE  /\ PathOf(FirstAddr(i), X, n) = FramePath(i, n)
              /\ FramePath(i, n) \in Paths
              /\ X[n].block = LookIn(addrs[i], L, FramePath(i, n))
              /\ X[n].depth = FirstAddr(i) - NDIRECT + 2 - n
  <2>1. n \in Nat
    BY <1>2
  <2>2. PathOf(FirstAddr(i), X, n) = FramePath(i, n)
    <3>1. \A k \in 1..n - 1 : k \in 1..m - 1
      BY <1>2
    <3>2. \A k \in 1..n - 1 : X[k].next = F[k].next
      BY <1>9, <3>1
    <3>3. PathOf(FirstAddr(i), X, n) = PathOf(FirstAddr(i), F, n)
      BY <2>1, <3>2, PathOfPrefix
    <3> QED
      BY <3>3 DEF FramePath, F
  <2>3. /\ FramePath(i, n) \in Paths
        /\ F[n].block = LookIn(addrs[i], L, FramePath(i, n))
        /\ F[n].depth = FirstAddr(i) - NDIRECT + 2 - n
    BY <1>1 DEF FramesAt, FrameDepths, F, m, L
  <2>4. X[n].block = F[n].block /\ X[n].depth = F[n].depth
    <3>1. n = m \/ n \in 1..m - 1
      BY <1>2
    <3> QED
      BY <1>2, <1>5, <1>9, <3>1 DEF b
  <2> QED
    BY <2>2, <2>3, <2>4
<1>17. /\ PathOf(FirstAddr(i), X, m + 1) = p
       /\ X[m + 1].depth = FirstAddr(i) - NDIRECT + 2 - (m + 1)
  <2>1. PathOf(FirstAddr(i), X, m) = q /\ X[m].depth = FirstAddr(i) - NDIRECT + 2 - m
    BY <1>2, <1>16 DEF q
  <2>2. X[m].next - 1 = j /\ X[m].depth = f.depth
    BY <1>4, <1>5, <1>9
  <2>3. PathOf(FirstAddr(i), X, m + 1) = p
    <3>1. /\ m \in Nat /\ m > 0 /\ PathOf(FirstAddr(i), X, m) \in Paths
          /\ X[m].next - 1 \in Indexes
      BY <1>2, <1>4, <2>1, <2>2
    <3>2. PathOf(FirstAddr(i), X, m + 1) =
             Append(PathOf(FirstAddr(i), X, m), X[m].next - 1)
      BY <3>1, PathOfGrows
    <3> QED
      BY <2>1, <2>2, <3>2, Zenon
  <2>4. X[m + 1].depth = FirstAddr(i) - NDIRECT + 2 - (m + 1)
    <3> DEFINE a == FirstAddr(i)
               d == f.depth
    <3>1. a \in Nat /\ NDIRECT \in Nat /\ d \in Int
      <4>1. a \in Addresses
        BY <1>2 DEF Paths
      <4> QED
        BY <1>2, <4>1, BlockSizes
    <3>2. d = a - NDIRECT + 2 - m /\ X[m + 1].depth = d - 1
      BY <1>6, <1>9, <2>1, <2>2
    <3> HIDE DEF a, d
    <3>3. d - 1 = a - NDIRECT + 2 - (m + 1)
      BY <1>2, <3>1, <3>2
    <3> QED
      BY <3>2, <3>3 DEF a
  <2> QED
    BY <2>3, <2>4
<1>18. ASSUME NEW n \in 1..Len(X)
       PROVE  /\ PathOf(FirstAddr(i)', X, n) \in Paths
              /\ X[n].block = LookIn(addrs'[i], Left(entry)', PathOf(FirstAddr(i)', X, n))
              /\ X[n].depth = FirstAddr(i)' - NDIRECT + 2 - n
  <2>1. n \in 1..m \/ n = m + 1
    BY <1>2, <1>9
  <2>2. CASE n \in 1..m
    BY <1>12, <1>15, <1>16, <2>2
  <2>3. CASE n = m + 1
    BY <1>6, <1>9, <1>12, <1>13, <1>14, <1>15, <1>17, <2>3
  <2> QED
    BY <2>1, <2>2, <2>3
<1>19. /\ addrs' \in [Inums -> AddrMap] /\ used' \subseteq DataBlocks
       /\ Owned(addrs', Left(entry)', used')
       /\ \A k \in Inums : k # i => addrs'[k] = addrs[k]
       /\ \A k \in Inums, r \in Paths :
             LookIn(addrs'[k], Left(entry)', r) = LookIn(addrs[k], L, r)
  BY <1>1, <1>12
<1>20. BlockMapInv'
  <2>1. \A k \in Inums, r \in Paths :
           LookIn(addrs'[k], Left(entry)', r) # LookIn(addrs[k], Left(entry), r) =>
               k = i /\ LookIn(addrs'[k], Left(entry)', r) = 0
    BY <1>19 DEF L
  <2>2. X \in Seq(Frame)
    BY <1>9
  <2> HIDE DEF p
  <2> QED
    BY <1>10, <1>18, <1>19, <2>1, <2>2, TruncKeeps
<1> QED
  BY <1>12, <1>20 DEF L

\* An entry that is not 0.
LEMMA TruncEntryKeeps ==
    ASSUME BlockMapInv, NEW i \in Inums, TruncEntry(i)
    PROVE  BlockMapInv'
<1> DEFINE f == Last(Frames(i))
           j == NextEntry(f)
<1>1. /\ InTrunc(i) /\ Frames(i) # <<>> /\ j < N
      /\ UNCHANGED <<addrs, entry, len>>
      /\ \/ /\ f.depth = 1 /\ Bfree(entry[f.block][j])
            /\ job' = [job EXCEPT ![i].frames =
                          Append(Front(@), [f EXCEPT !.next = j + 1])]
         \/ /\ f.depth > 1 /\ UNCHANGED used
            /\ job' = [job EXCEPT ![i].frames =
                 Append(Append(Front(@), [f EXCEPT !.next = j + 1]),
                        [block |-> entry[f.block][j], next |-> 0, depth |-> f.depth - 1])]
  BY DEF TruncEntry
<1> HIDE DEF f, j
<1>2. f = Last(Frames(i)) /\ j = NextEntry(f)
  BY DEF f, j
<1>3. CASE /\ f.depth = 1 /\ Bfree(entry[f.block][j])
           /\ job' = [job EXCEPT ![i].frames =
                         Append(Front(@), [f EXCEPT !.next = j + 1])]
  BY <1>1, <1>2, <1>3, TruncDataKeeps
<1>4. CASE /\ f.depth > 1 /\ UNCHANGED used
           /\ job' = [job EXCEPT ![i].frames =
                Append(Append(Front(@), [f EXCEPT !.next = j + 1]),
                       [block |-> entry[f.block][j], next |-> 0, depth |-> f.depth - 1])]
  BY <1>1, <1>2, <1>4, TruncReadKeeps
<1> QED
  BY <1>1, <1>3, <1>4

\* The block of numbers that an address leads to is freed.
LEMMA TruncRootKeeps ==
    ASSUME BlockMapInv, NEW i \in Inums, InTrunc(i), Frames(i) # <<>>,
           Len(Frames(i)) = 1, NEW f, f = Last(Frames(i)), NextEntry(f) = N,
           Bfree(f.block), addrs' = [addrs EXCEPT ![i][FirstAddr(i)] = 0],
           job' = [job EXCEPT ![i].frames = Front(@)], UNCHANGED <<entry, len>>
    PROVE  BlockMapInv'
<1> DEFINE F == Frames(i)
           q == FramePath(i, 1)
           a == FirstAddr(i)
           b == f.block
           L == Left(entry)
<1>1. /\ MapTypes /\ addrs \in [Inums -> AddrMap] /\ entry \in EntryMap
      /\ used \subseteq DataBlocks /\ Owned(addrs, L, used)
  BY DEF BlockMapInv, MapTypes
<1>2. /\ F \in Seq(Frame) /\ Len(F) = 1
      /\ f = F[1] /\ f \in Frame
      /\ b \in DataBlocks /\ f.next \in 0..N
      /\ q \in Paths /\ Len(q) = 1 /\ q[1] = a
      /\ b = LookIn(addrs[i], L, q) /\ b # 0
      /\ \A l \in Indexes : L[b][l] = IF l < f.next THEN 0 ELSE entry[b][l]
      /\ a \in Addresses
  BY TopFrame
<1>3. q = <<a>>
  BY DEF FramePath, PathOf
<1>4. \A l \in Indexes : L[b][l] = 0
  <2>1. \A l \in f.next..N - 1 : entry[b][l] = 0
    BY <1>2, NextEntryIs
  <2> TAKE l \in Indexes
  <2>2. l < f.next \/ l \in f.next..N - 1
    BY <1>2, BlockSizes DEF Indexes
  <2> QED
    BY <1>2, <2>1, <2>2
<1>5. job' = [job EXCEPT ![i].frames = <<>>]
  <2>1. Front(F) = <<>>
    <3>1. Front(F) \in Seq(Frame) /\ Len(Front(F)) = 1 - 1
      BY <1>2, FrontIs
    <3> QED
      BY <3>1
  <2> QED
    BY <1>1, <2>1 DEF Frames, MapTypes
<1>6. /\ job' \in [Inums -> {Idle} \cup [call : {"itrunc"}, frames : Seq(Frame)]]
      /\ InTrunc(i)' /\ Frames(i)' = <<>> /\ \A k \in Inums \ {i} : job'[k] = job[k]
      /\ <<>> \in Seq(Frame)
  <2>1. <<>> \in Seq(Frame)
    OBVIOUS
  <2> QED
    BY <1>1, <1>5, <2>1, JobFrames
<1> HIDE DEF F, q, a, b, L
<1>7. ASSUME NEW c \in DataBlocks, NEW l \in Indexes, c # b
      PROVE  Left(entry)'[c][l] = L[c][l]
  <2>1. ~DoneIn(<<>>, c, l)
    BY DEF DoneIn
  <2>2. ~DoneIn(F, c, l)
    BY <1>2, <1>7 DEF DoneIn, b
  <2>3. Done(c, l)' <=> Done(c, l)
    BY <1>6, <2>1, <2>2, DoneParts, DoneAfter DEF F
  <2>4. Left(entry)'[c][l] = IF Done(c, l)' THEN 0 ELSE entry[c][l]
    BY DEF Left, Indexes
  <2>5. L[c][l] = IF Done(c, l) THEN 0 ELSE entry[c][l]
    BY <1>1, LeftTypes DEF L
  <2> QED
    BY <2>3, <2>4, <2>5
<1>8. OnePointer(addrs, L, addrs', Left(entry)', i, <<a>>, 0)
  <2>1. ASSUME NEW r \in Paths, NEW l \in Indexes, NEW k \in Inums,
               LookIn(addrs[k], L, r) # 0, ~(k = i /\ r = <<a>>)
        PROVE  Left(entry)'[LookIn(addrs[k], L, r)][l] = L[LookIn(addrs[k], L, r)][l]
    <3>1. LookIn(addrs[k], L, r) \in DataBlocks
      BY <1>1, <2>1 DEF Owned
    <3>2. LookIn(addrs[k], L, r) # b
      <4> SUFFICES ASSUME LookIn(addrs[k], L, r) = b PROVE FALSE
        OBVIOUS
      <4>1. LookIn(addrs[k], L, r) = LookIn(addrs[i], L, q)
        BY <1>2
      <4>2. k = i /\ r = q
        BY <1>1, <1>2, <2>1, <4>1, OneWay
      <4> QED
        BY <1>3, <2>1, <4>2
    <3> QED
      BY <1>7, <3>1, <3>2
  <2>2. \A l \in Indexes : Append(<<a>>, l) \in Paths =>
           LookIn(addrs[i], L, Append(<<a>>, l)) = 0
    <3> SUFFICES ASSUME NEW l \in Indexes, Append(q, l) \in Paths
                 PROVE  LookIn(addrs[i], L, Append(q, l)) = 0
      BY <1>3
    <3>1. LookIn(addrs[i], L, Append(q, l)) = L[b][l]
      BY <1>2, LookStep
    <3> QED
      BY <1>4, <3>1
  <2>3. addrs' = [addrs EXCEPT ![i][a] = 0]
    BY DEF a
  <2>4. \A r \in Paths, l \in Indexes, k \in Inums :
           Append(r, l) \in Paths /\ LookIn(addrs[k], L, r) # 0 /\ ~(k = i /\ r = <<a>>) =>
              Left(entry)'[LookIn(addrs[k], L, r)][l] = L[LookIn(addrs[k], L, r)][l]
    BY <2>1
  <2> QED
    BY <1>1, <1>2, <2>2, <2>3, <2>4, AddressCleared
<1>9. /\ used' \subseteq DataBlocks /\ Owned(addrs', Left(entry)', used')
      /\ \A k \in Inums, r \in Paths :
            LookIn(addrs'[k], Left(entry)', r) # LookIn(addrs[k], Left(entry), r) =>
                k = i /\ LookIn(addrs'[k], Left(entry)', r) = 0
  <2>1. used' = used \ {LookIn(addrs[i], Left(entry), <<a>>)}
    BY <1>2, <1>3 DEF Bfree, b, L
  <2>2. <<a>> \in Paths /\ LookIn(addrs[i], Left(entry), <<a>>) # 0
    BY <1>2, <1>3 DEF L
  <2>3. OnePointer(addrs, Left(entry), addrs', Left(entry)', i, <<a>>, 0)
    BY <1>8 DEF L
  <2> QED
    BY <2>1, <2>2, <2>3, TruncFrees
<1>10. addrs' \in [Inums -> AddrMap] /\ \A k \in Inums : k # i => addrs'[k] = addrs[k]
  BY <1>1, <1>2 DEF AddrMap, Numbers, a
<1>11. \A n \in 1..Len(<<>>) : FALSE
  OBVIOUS
<1> QED
  BY <1>6, <1>9, <1>10, <1>11, TruncKeeps

\* A block of numbers in the tree is freed.
LEMMA TruncInnerKeeps ==
    ASSUME BlockMapInv, NEW i \in Inums, InTrunc(i), Frames(i) # <<>>,
           Len(Frames(i)) > 1, NEW f, f = Last(Frames(i)), NextEntry(f) = N,
           Bfree(f.block), addrs' = addrs,
           job' = [job EXCEPT ![i].frames = Front(@)], UNCHANGED <<entry, len>>
    PROVE  BlockMapInv'
<1> DEFINE F == Frames(i)
           m == Len(F)
           X == Front(F)
           p == FramePath(i, m)
           q == FramePath(i, m - 1)
           e == F[m - 1].next - 1
           b == f.block
           L == Left(entry)
<1>1. /\ MapTypes /\ addrs \in [Inums -> AddrMap] /\ entry \in EntryMap
      /\ used \subseteq DataBlocks /\ Owned(addrs, L, used) /\ FramesAt(addrs, entry)
      /\ FrameDepths
  BY DEF BlockMapInv, MapTypes
<1>2. /\ F \in Seq(Frame) /\ m \in Nat /\ m >= 1
      /\ f = F[m] /\ f \in Frame
      /\ X \in Seq(Frame) /\ Len(X) = m - 1 /\ \A n \in 1..m - 1 : X[n] = F[n]
      /\ b \in DataBlocks /\ f.next \in 0..N
      /\ p \in Paths /\ Len(p) = m
      /\ b = LookIn(addrs[i], L, p) /\ b # 0
      /\ \A l \in Indexes : L[b][l] = IF l < f.next THEN 0 ELSE entry[b][l]
  BY TopFrame
<1>3. m > 1 /\ m - 1 \in 1..m - 1 /\ m - 1 \in Nat /\ m - 1 > 0 /\ m \in 2..m
  BY <1>2
<1>4. \A l \in Indexes : L[b][l] = 0
  <2>1. \A l \in f.next..N - 1 : entry[b][l] = 0
    BY <1>2, NextEntryIs
  <2> TAKE l \in Indexes
  <2>2. l < f.next \/ l \in f.next..N - 1
    BY <1>2, BlockSizes DEF Indexes
  <2> QED
    BY <1>2, <2>1, <2>2
<1>5. job' = [job EXCEPT ![i].frames = X]
  BY <1>1 DEF Frames, MapTypes
<1>6. e \in Indexes
  <2>1. p[m] = e
    <3>1. m \in Nat /\ m \in 1..m /\ m # 1
      BY <1>2, <1>3
    <3> HIDE DEF m
    <3>2. PathOf(FirstAddr(i), F, m)[m] = F[m - 1].next - 1
      BY <3>1, PathOfAt
    <3> QED
      BY <3>2 DEF FramePath
  <2>2. \A k \in 2..Len(p) : p[k] \in Indexes
    BY <1>2 DEF Paths
  <2> HIDE DEF p, e, m
  <2> QED
    BY <1>2, <1>3, <2>1, <2>2
<1>7. /\ q \in Paths /\ F[m - 1].block = LookIn(addrs[i], L, q)
      /\ F[m - 1].block \in DataBlocks /\ F[m - 1].block # 0
  <2>1. m - 1 \in 1..Len(F)
    BY <1>2, <1>3
  <2> QED
    BY <1>1, <2>1, FrameTypes, BlockSizes DEF FramesAt
<1>8. p = Append(q, e)
  <2>1. PathOf(FirstAddr(i), F, (m - 1) + 1) = Append(PathOf(FirstAddr(i), F, m - 1), e)
    <3> DEFINE o == m - 1
    <3>1. /\ o \in Nat /\ o > 0 /\ PathOf(FirstAddr(i), F, o) \in Paths
          /\ F[o].next - 1 \in Indexes
      BY <1>3, <1>6, <1>7 DEF FramePath
    <3> HIDE DEF o
    <3>2. PathOf(FirstAddr(i), F, o + 1) = Append(PathOf(FirstAddr(i), F, o), F[o].next - 1)
      BY <3>1, PathOfGrows
    <3> QED
      BY <3>2 DEF o
  <2>2. (m - 1) + 1 = m
    BY <1>2
  <2> QED
    BY <2>1, <2>2 DEF FramePath
<1> DEFINE c == F[m - 1].block
<1> HIDE DEF F, m, p, q, b, e, L, X, c
<1>9. /\ job' \in [Inums -> {Idle} \cup [call : {"itrunc"}, frames : Seq(Frame)]]
      /\ InTrunc(i)' /\ Frames(i)' = X /\ \A k \in Inums \ {i} : job'[k] = job[k]
  BY <1>1, <1>2, <1>5, JobFrames
<1>10. ASSUME NEW d \in DataBlocks, NEW l \in Indexes, d # b
       PROVE  Done(d, l)' <=> Done(d, l) \/ (d = c /\ l = e)
  <2>1. l \in Int /\ e \in Int
    BY <1>6, BlockSizes DEF Indexes
  <2>2. ASSUME NEW n \in 1..m - 2
        PROVE  X[n].block = F[n].block /\ UptoIn(X, n) = UptoIn(F, n)
    <3>1. n \in 1..m - 1 /\ n # m - 1 /\ n # m
      BY <1>2
    <3> QED
      BY <1>2, <3>1 DEF UptoIn, m
  <2>3. /\ X[m - 1].block = c /\ F[m - 1].block = c
        /\ UptoIn(X, m - 1) = F[m - 1].next /\ UptoIn(F, m - 1) = e
    <3>1. X[m - 1] = F[m - 1] /\ m - 1 # m
      BY <1>2, <1>3
    <3> QED
      BY <1>2, <3>1 DEF UptoIn, m, c, e
  <2>4. l < F[m - 1].next <=> l < e \/ l = e
    <3>1. F[m - 1].next \in Nat
      <4>1. m - 1 \in 1..Len(F)
        BY <1>2, <1>3 DEF m
      <4> QED
        BY <1>1, <4>1, FrameTypes, BlockSizes DEF F
    <3> QED
      BY <2>1, <3>1 DEF e
  <2>5. DoneIn(X, d, l) <=> DoneIn(F, d, l) \/ (d = c /\ l = e)
    <3>1. DoneIn(X, d, l) <=>
             \/ \E n \in 1..m - 2 : X[n].block = d /\ l < UptoIn(X, n)
             \/ X[m - 1].block = d /\ l < UptoIn(X, m - 1)
      <4>1. 1..Len(X) = (1..m - 2) \cup {m - 1}
        BY <1>2, <1>3
      <4> QED
        BY <4>1 DEF DoneIn
    <3>2. DoneIn(F, d, l) <=>
             \/ \E n \in 1..m - 2 : F[n].block = d /\ l < UptoIn(F, n)
             \/ F[m - 1].block = d /\ l < UptoIn(F, m - 1)
      <4>1. 1..Len(F) = (1..m - 2) \cup {m - 1} \cup {m}
        BY <1>2, <1>3 DEF m
      <4>2. F[m].block # d
        BY <1>2, <1>10 DEF b
      <4> QED
        BY <4>1, <4>2 DEF DoneIn
    <3> QED
      BY <2>2, <2>3, <2>4, <3>1, <3>2
  <2>6. Done(d, l) <=> DoneByOthers(i, d, l) \/ DoneIn(F, d, l)
    BY DoneParts DEF F
  <2>7. Done(d, l)' <=> DoneByOthers(i, d, l) \/ DoneIn(X, d, l)
    BY <1>9, DoneAfter
  <2> QED
    BY <2>5, <2>6, <2>7
<1>11. ASSUME NEW d \in DataBlocks, NEW l \in Indexes, d # b
       PROVE  Left(entry)'[d][l] = IF d = c /\ l = e THEN 0 ELSE L[d][l]
  <2>1. Left(entry)'[d][l] = IF Done(d, l)' THEN 0 ELSE entry[d][l]
    BY DEF Left, Indexes
  <2>2. L[d][l] = IF Done(d, l) THEN 0 ELSE entry[d][l]
    BY <1>1, LeftTypes DEF L
  <2> QED
    BY <1>10, <1>11, <2>1, <2>2
<1>12. OnePointer(addrs, L, addrs', Left(entry)', i, p, 0)
  <2>1. ASSUME NEW k \in Inums, NEW r \in Paths, NEW l \in Indexes,
               LookIn(addrs[k], L, r) # 0, ~(k = i /\ r = p)
        PROVE  Left(entry)'[LookIn(addrs[k], L, r)][l] =
                  IF LookIn(addrs[k], L, r) = LookIn(addrs[i], L, q) /\ l = e THEN 0
                  ELSE L[LookIn(addrs[k], L, r)][l]
    <3>1. LookIn(addrs[k], L, r) \in DataBlocks
      BY <1>1, <2>1 DEF Owned
    <3>2. LookIn(addrs[k], L, r) # b
      <4> SUFFICES ASSUME LookIn(addrs[k], L, r) = b PROVE FALSE
        OBVIOUS
      <4>1. LookIn(addrs[k], L, r) = LookIn(addrs[i], L, p)
        BY <1>2
      <4>2. k = i /\ r = p
        BY <1>1, <1>2, <2>1, <4>1, OneWay
      <4> QED
        BY <2>1, <4>2
    <3>3. LookIn(addrs[i], L, q) = c
      BY <1>7 DEF c
    <3> QED
      BY <1>11, <3>1, <3>2, <3>3
  <2>2. \A k \in Inums, r \in Paths, l \in Indexes :
           LookIn(addrs[k], L, r) # 0 /\ ~(k = i /\ r = Append(q, e)) =>
              Left(entry)'[LookIn(addrs[k], L, r)][l] =
                 IF LookIn(addrs[k], L, r) = LookIn(addrs[i], L, q) /\ l = e THEN 0
                 ELSE L[LookIn(addrs[k], L, r)][l]
    BY <1>8, <2>1
  <2>3. LookIn(addrs[i], L, q) # 0
    BY <1>7
  <2>4. \A l \in Indexes : Append(Append(q, e), l) \in Paths =>
           LookIn(addrs[i], L, Append(Append(q, e), l)) = 0
    <3> SUFFICES ASSUME NEW l \in Indexes, Append(p, l) \in Paths
                 PROVE  LookIn(addrs[i], L, Append(p, l)) = 0
      BY <1>8
    <3>1. LookIn(addrs[i], L, Append(p, l)) = L[b][l]
      BY <1>2, LookStep
    <3> QED
      BY <1>4, <3>1
  <2>5. Owned(addrs, L, used) /\ q \in Paths /\ Append(q, e) \in Paths
    BY <1>1, <1>2, <1>7, <1>8
  <2>6. OnePointer(addrs, L, addrs', Left(entry)', i, Append(q, e), 0)
    BY <1>6, <2>2, <2>3, <2>4, <2>5, EntryCleared
  <2> QED
    BY <1>8, <2>6
<1>13. /\ used' \subseteq DataBlocks /\ Owned(addrs', Left(entry)', used')
       /\ \A k \in Inums, r \in Paths :
             LookIn(addrs'[k], Left(entry)', r) # LookIn(addrs[k], Left(entry), r) =>
                 k = i /\ LookIn(addrs'[k], Left(entry)', r) = 0
  <2>1. used' = used \ {LookIn(addrs[i], Left(entry), p)}
    BY <1>2 DEF Bfree, b, L
  <2>2. p \in Paths /\ LookIn(addrs[i], Left(entry), p) # 0
    BY <1>2 DEF L
  <2>3. OnePointer(addrs, Left(entry), addrs', Left(entry)', i, p, 0)
    BY <1>12 DEF L
  <2> QED
    BY <2>1, <2>2, <2>3, TruncFrees
<1>14. FirstAddr(i)' = FirstAddr(i)
  BY PathSame
<1>15. ASSUME NEW n \in 1..Len(X)
       PROVE  /\ PathOf(FirstAddr(i)', X, n) \in Paths
              /\ X[n].block = LookIn(addrs'[i], Left(entry)', PathOf(FirstAddr(i)', X, n))
              /\ X[n].depth = FirstAddr(i)' - NDIRECT + 2 - n
  <2>1. n \in 1..m - 1 /\ n \in 1..m /\ n \in Nat /\ n > 0 /\ n # m
    BY <1>2
  <2>2. PathOf(FirstAddr(i)', X, n) = FramePath(i, n)
    <3>1. \A k \in 1..n - 1 : k \in 1..m - 1
      BY <1>2, <2>1
    <3>2. \A k \in 1..n - 1 : X[k].next = F[k].next
      BY <1>2, <3>1
    <3>3. PathOf(FirstAddr(i), X, n) = PathOf(FirstAddr(i), F, n)
      BY <2>1, <3>2, PathOfPrefix
    <3> QED
      BY <1>14, <3>3 DEF FramePath, F
  <2>3. /\ FramePath(i, n) \in Paths
        /\ F[n].block = LookIn(addrs[i], L, FramePath(i, n))
        /\ F[n].depth = FirstAddr(i) - NDIRECT + 2 - n
    BY <1>1, <2>1 DEF FramesAt, FrameDepths, F, m, L
  <2>4. X[n].block = F[n].block /\ X[n].depth = F[n].depth
    BY <1>2, <2>1
  <2>5. FramePath(i, n) # p
    BY <1>2, <2>1, <2>3, FramePathLength
  <2>6. LookIn(addrs'[i], Left(entry)', FramePath(i, n)) = LookIn(addrs[i], L, FramePath(i, n))
    BY <1>12, <2>3, <2>5 DEF OnePointer
  <2> QED
    BY <1>14, <2>2, <2>3, <2>4, <2>6
<1>16. addrs' \in [Inums -> AddrMap] /\ \A k \in Inums : k # i => addrs'[k] = addrs[k]
  BY <1>1
<1> QED
  BY <1>2, <1>9, <1>13, <1>15, <1>16, TruncKeeps

\* A block of numbers, all of whose entries are done.
LEMMA TruncBlockKeeps ==
    ASSUME BlockMapInv, NEW i \in Inums, TruncBlock(i)
    PROVE  BlockMapInv'
<1> DEFINE f == Last(Frames(i))
<1>1. /\ InTrunc(i) /\ Frames(i) # <<>> /\ NextEntry(f) = N /\ Bfree(f.block)
      /\ addrs' = IF Len(Frames(i)) > 1 THEN addrs
                  ELSE [addrs EXCEPT ![i][FirstAddr(i)] = 0]
      /\ job' = [job EXCEPT ![i].frames = Front(@)] /\ UNCHANGED <<entry, len>>
  BY DEF TruncBlock, PopFrame
<1> HIDE DEF f
<1>2. f = Last(Frames(i))
  BY DEF f
<1>3. CASE Len(Frames(i)) > 1
  BY <1>1, <1>2, <1>3, TruncInnerKeeps
<1>4. CASE ~(Len(Frames(i)) > 1)
  <2>1. Len(Frames(i)) = 1
    <3>1. Frames(i) \in Seq(Frame)
      BY <1>1, Jobs DEF BlockMapInv
    <3>2. Len(Frames(i)) \in Nat /\ Len(Frames(i)) # 0
      BY <1>1, <3>1
    <3> QED
      BY <1>4, <3>2
  <2> QED
    BY <1>1, <1>2, <1>4, <2>1, TruncRootKeeps
<1> QED
  BY <1>3, <1>4

-----------------------------------------------------------------------------
(* The block map's theorems.                                               *)

\* Empty files on a disk with nothing in use.
LEMMA InitKeeps ==
    ASSUME BlockMapInit
    PROVE  BlockMapInv
<1>1. /\ addrs = [i \in Inums |-> [a \in Addresses |-> 0]]
      /\ entry = [b \in DataBlocks |-> Filled] /\ used = {}
      /\ len = [i \in Inums |-> 0] /\ job = [i \in Inums |-> Idle]
  BY DEF BlockMapInit, Addresses
<1>2. \A i \in Inums : ~InTrunc(i)
  BY <1>1 DEF InTrunc, Idle
<1>3. MapTypes
  <2>1. addrs \in [Inums -> AddrMap]
    BY <1>1 DEF AddrMap, Numbers
  <2>2. entry \in EntryMap
    BY <1>1, BlockSizes DEF EntryMap, Filled, Indexes, Numbers
  <2>3. \A i \in Inums : len[i] <= MaxLen[i]
    BY <1>1, BlockMapAssumption
  <2> QED
    BY <1>1, <2>1, <2>2, <2>3 DEF MapTypes
<1>4. \A i \in Inums, p \in Paths : LookIn(addrs[i], Left(entry), p) = 0
  <2> TAKE i \in Inums
  <2> DEFINE S == {p \in Paths : LookIn(addrs[i], Left(entry), p) = 0}
  <2>1. ASSUME NEW a \in Addresses PROVE <<a>> \in S
    <3>1. addrs[i][a] = 0
      BY <1>1
    <3> QED
      BY <3>1, LookRoot, RootPath
  <2>2. ASSUME NEW q \in Paths, NEW j \in Indexes, q \in S, Append(q, j) \in Paths
        PROVE  Append(q, j) \in S
    BY <2>2, LookStep
  <2>3. Paths \subseteq S
    BY <2>1, <2>2, PathInduct
  <2> QED
    BY <2>3
<1>5. Owned(addrs, Left(entry), used)
  BY <1>1, <1>4 DEF Owned
<1>6. FramesAt(addrs, entry) /\ FrameDepths
  BY <1>2 DEF FramesAt, FrameDepths
<1>7. Covered
  BY <1>4 DEF Covered
<1>8. NoHoles
  <2>1. \A i \in Inums : 0..len[i] - 1 = {}
    BY <1>1
  <2> QED
    BY <2>1 DEF NoHoles
<1> QED
  BY <1>3, <1>5, <1>6, <1>7, <1>8 DEF BlockMapInv

\* Nothing changes.
LEMMA StutterKeeps ==
    ASSUME BlockMapInv, UNCHANGED blockVars
    PROVE  BlockMapInv'
<1>1. UNCHANGED <<addrs, entry, used, len, job>>
  BY DEF blockVars
<1>2. /\ \A i : (InTrunc(i)' <=> InTrunc(i)) /\ Frames(i)' = Frames(i)
      /\ Left(entry)' = Left(entry)
  BY <1>1, JobSame
<1>3. \A i : FirstAddr(i)' = FirstAddr(i) /\ \A n : FramePath(i, n)' = FramePath(i, n)
  BY <1>1, PathSame
<1>4. MapTypes'
  BY <1>1 DEF BlockMapInv, MapTypes
<1>5. FramesAt(addrs, entry)' /\ FrameDepths'
  BY <1>1, <1>2, <1>3 DEF BlockMapInv, FramesAt, FrameDepths
<1>6. Owned(addrs, Left(entry), used)'
  BY <1>1, <1>2 DEF BlockMapInv
<1>7. Covered' /\ NoHoles'
  BY <1>1, <1>2 DEF BlockMapInv, Covered, NoHoles, Leads
<1> QED
  BY <1>4, <1>5, <1>6, <1>7 DEF BlockMapInv

\* Every step of every inode's holder keeps the invariant.
LEMMA StepKeeps ==
    ASSUME BlockMapInv, [BlockMapNext]_blockVars
    PROVE  BlockMapInv'
<1>1. CASE BlockMapNext
  <2>1. PICK i \in Inums :
           \/ \E bn \in 0..MAXFILE - 1 : WriteBlock(i, bn)
           \/ ItruncCall(i) \/ TruncAddr(i) \/ TruncEntry(i) \/ TruncBlock(i)
           \/ TruncReturn(i)
    BY <1>1 DEF BlockMapNext
  <2>2. CASE \E bn \in 0..MAXFILE - 1 : WriteBlock(i, bn)
    BY <2>2, WriteBlockKeeps
  <2>3. CASE ItruncCall(i)
    BY <2>3, ItruncCallKeeps
  <2>4. CASE TruncAddr(i)
    BY <2>4, TruncAddrKeeps
  <2>5. CASE TruncEntry(i)
    BY <2>5, TruncEntryKeeps
  <2>6. CASE TruncBlock(i)
    BY <2>6, TruncBlockKeeps
  <2>7. CASE TruncReturn(i)
    BY <2>7, TruncReturnKeeps
  <2> QED
    BY <2>1, <2>2, <2>3, <2>4, <2>5, <2>6, <2>7
<1>2. CASE UNCHANGED blockVars
  BY <1>2, StutterKeeps
<1> QED
  BY <1>1, <1>2

\* The inductive invariant of bmap, balloc, bfree and itrunc (fs.c): counting
\* the entries that an itrunc has freed as 0, each pointer of an inode leads
\* to a block in use, in one way; each block in use is led to; the blocks that
\* an itrunc reads are those on its way into the tree; and the blocks of a file
\* are those that its size covers.
THEOREM BlockMapInvariant == BlockMapSpec => []BlockMapInv
<1>1. BlockMapInit => BlockMapInv
  BY InitKeeps
<1>2. BlockMapInv /\ [BlockMapNext]_blockVars => BlockMapInv'
  BY StepKeeps
<1> QED
  BY <1>1, <1>2, PTL DEF BlockMapSpec

\* The types of the block map, and files have no holes.
LEMMA InvTypeOK ==
    ASSUME BlockMapInv
    PROVE  BlockMapTypeOK
<1>1. /\ MapTypes /\ addrs \in [Inums -> AddrMap] /\ entry \in EntryMap
      /\ used \subseteq DataBlocks /\ Owned(addrs, Left(entry), used)
      /\ FramesAt(addrs, entry) /\ NoHoles
  BY DEF BlockMapInv, MapTypes
<1>2. addrs \in [Inums -> [0..NDIRECT + 2 -> DataBlocks \cup {0}]]
  BY <1>1 DEF AddrMap, Addresses, Numbers
<1>3. ASSUME NEW i \in Inums, ~InTrunc(i), NEW bn \in 0..len[i] - 1
      PROVE  Lookup(i, Path(bn)) \in DataBlocks
  <2>1. Path(bn) \in Paths
    BY <1>1, BlocksInFile, PathIsPath
  <2>2. LookIn(addrs[i], entry, Path(bn)) = LookIn(addrs[i], Left(entry), Path(bn))
    BY <1>1, <1>3, <2>1, LookupWhole
  <2>3. LookIn(addrs[i], Left(entry), Path(bn)) # 0
    BY <1>1, <1>3 DEF NoHoles
  <2>4. LookIn(addrs[i], Left(entry), Path(bn)) \in used \cup {0}
    BY <1>1, <2>1 DEF Owned
  <2> QED
    BY <1>1, <2>2, <2>3, <2>4 DEF Lookup
<1> QED
  BY <1>1, <1>2, <1>3 DEF BlockMapTypeOK

\* bmap (fs.c:391) leaves no holes: a block that a file's size covers is there.
THEOREM BlockMapTyped == BlockMapSpec => []BlockMapTypeOK
<1>1. BlockMapInv => BlockMapTypeOK
  BY InvTypeOK
<1> QED
  BY <1>1, BlockMapInvariant, PTL

\* What itrunc reads and frees is in use.
LEMMA InvFreesOnlyUsed ==
    ASSUME BlockMapInv
    PROVE  FreesOnlyUsed
<1>1. /\ MapTypes /\ Owned(addrs, Left(entry), used) /\ FramesAt(addrs, entry)
  BY DEF BlockMapInv
<1> SUFFICES ASSUME NEW i \in Inums, InTrunc(i)
             PROVE  /\ \A n \in DOMAIN Frames(i) : Frames(i)[n].block \in used
                    /\ Frames(i) # <<>> =>
                          LET f == Last(Frames(i))
                          IN  \A j \in f.next..N - 1 : entry[f.block][j] \in used \cup {0}
                    /\ Frames(i) = <<>> =>
                          \A a \in 0..NDIRECT + 2 : addrs[i][a] \in used \cup {0}
  BY DEF FreesOnlyUsed
<1>2. ASSUME NEW n \in DOMAIN Frames(i) PROVE Frames(i)[n].block \in used
  <2>1. n \in 1..Len(Frames(i))
    BY <1>1, Jobs
  <2>2. /\ FramePath(i, n) \in Paths
        /\ Frames(i)[n].block = LookIn(addrs[i], Left(entry), FramePath(i, n))
    BY <1>1, <2>1 DEF FramesAt
  <2>3. Frames(i)[n].block # 0
    BY <1>1, <2>1, FrameTypes, BlockSizes
  <2>4. LookIn(addrs[i], Left(entry), FramePath(i, n)) \in used \cup {0}
    BY <1>1, <2>2 DEF Owned
  <2> QED
    BY <2>2, <2>3, <2>4
<1>3. ASSUME Frames(i) # <<>>, NEW f, f = Last(Frames(i)), NEW j \in f.next..N - 1
      PROVE  entry[f.block][j] \in used \cup {0}
  <2> DEFINE m == Len(Frames(i))
             q == FramePath(i, m)
             h == Height(q[1])
  <2>1. /\ m \in Nat /\ f.next \in 0..N /\ f.depth \in 1..3 /\ f.depth = h - m
        /\ q \in Paths /\ Len(q) = m /\ q[1] \in Addresses
        /\ f.block = LookIn(addrs[i], Left(entry), q) /\ f.block # 0
        /\ \A l \in Indexes : Left(entry)[f.block][l] =
              IF l < f.next THEN 0 ELSE entry[f.block][l]
    BY <1>3, TopFrame
  <2>2. h \in Int
    BY <2>1, BlockSizes
  <2> HIDE DEF m, q, h
  <2>3. m < h
    BY <2>1, <2>2
  <2>4. j \in Indexes /\ ~(j < f.next)
    BY <2>1, BlockSizes DEF Indexes
  <2>5. Append(q, j) \in Paths
    BY <2>1, <2>3, <2>4, NextPath DEF h
  <2>6. LookIn(addrs[i], Left(entry), Append(q, j)) = Left(entry)[f.block][j]
    BY <2>1, <2>4, <2>5, LookStep
  <2>7. LookIn(addrs[i], Left(entry), Append(q, j)) \in used \cup {0}
    BY <1>1, <2>5 DEF Owned
  <2> QED
    BY <2>1, <2>4, <2>6, <2>7
<1>4. ASSUME NEW a \in 0..NDIRECT + 2 PROVE addrs[i][a] \in used \cup {0}
  <2>1. a \in Addresses
    BY DEF Addresses
  <2>2. <<a>> \in Paths /\ LookIn(addrs[i], Left(entry), <<a>>) = addrs[i][a]
    BY <2>1, RootPath, LookRoot
  <2> QED
    BY <1>1, <2>2 DEF Owned
<1> QED
  BY <1>2, <1>3, <1>4

\* The places that lead to a block, while no itrunc runs.
LEMMA PlaceIs ==
    ASSUME NEW x
    PROVE  x \in BlockPlaces <=>
              \E i \in Inums : \E bn \in 0..MaxLen[i] - 1 :
                 \E k \in 1..Len(Path(bn)) : x = <<i, SubSeq(Path(bn), 1, k)>>
  BY DEF BlockPlaces

\* A pointer is a path on which the inode leads to a block, and every such
\* path is a pointer.
LEMMA PointerIs ==
    ASSUME BlockMapInv, \A i \in Inums : ~InTrunc(i), NEW x \in Pointers
    PROVE  \E i \in Inums, p \in Paths :
              /\ x = <<<<i, p>>, LookIn(addrs[i], Left(entry), p)>>
              /\ LookIn(addrs[i], Left(entry), p) # 0
<1>1. /\ MapTypes /\ entry \in EntryMap /\ used \subseteq DataBlocks
      /\ Owned(addrs, Left(entry), used) /\ FramesAt(addrs, entry)
  BY DEF BlockMapInv, MapTypes
<1>2. PICK pl \in BlockPlaces : x = <<pl, Lookup(pl[1], pl[2])>> /\ x[2] # 0
  BY DEF Pointers
<1>3. PICK i \in Inums : \E bn \in 0..MaxLen[i] - 1 :
         \E k \in 1..Len(Path(bn)) : pl = <<i, SubSeq(Path(bn), 1, k)>>
  BY <1>2, PlaceIs
<1>4. PICK bn \in 0..MaxLen[i] - 1 :
         \E k \in 1..Len(Path(bn)) : pl = <<i, SubSeq(Path(bn), 1, k)>>
  BY <1>3
<1>5. PICK k \in 1..Len(Path(bn)) : pl = <<i, SubSeq(Path(bn), 1, k)>>
  BY <1>4
<1> DEFINE p == SubSeq(Path(bn), 1, k)
<1>6. bn \in 0..MAXFILE - 1
  <2>1. MaxLen[i] \in 0..MAXFILE /\ MAXFILE \in Nat
    BY <1>1, BlockMapAssumption, BlocksInFile
  <2> QED
    BY <2>1
<1>7. p \in Paths
  <2>1. Path(bn) \in Paths
    BY <1>6, PathIsPath
  <2> QED
    BY <2>1, <1>5, PathStarts
<1> HIDE DEF p
<1>8. pl = <<i, p>> /\ Lookup(pl[1], pl[2]) = LookIn(addrs[i], entry, p)
  BY <1>5 DEF Lookup, p
<1>9. LookIn(addrs[i], entry, p) = LookIn(addrs[i], Left(entry), p)
  BY <1>1, <1>7, LookupWhole
<1> QED
  BY <1>2, <1>7, <1>8, <1>9

\* The other direction.
LEMMA IsPointer ==
    ASSUME BlockMapInv, \A i \in Inums : ~InTrunc(i), NEW i \in Inums, NEW p \in Paths,
           LookIn(addrs[i], Left(entry), p) # 0
    PROVE  <<<<i, p>>, LookIn(addrs[i], Left(entry), p)>> \in Pointers
<1>1. /\ MapTypes /\ entry \in EntryMap /\ used \subseteq DataBlocks
      /\ Owned(addrs, Left(entry), used) /\ FramesAt(addrs, entry) /\ Covered
  BY DEF BlockMapInv, MapTypes
<1>2. PICK bn \in 0..len[i] - 1 : Leads(p, bn)
  BY <1>1 DEF Covered
<1>3. bn \in 0..MaxLen[i] - 1
  <2>1. MaxLen[i] \in 0..MAXFILE /\ MAXFILE \in Nat /\ bn < MaxLen[i] /\ bn \in Nat
    BY <1>1, BlockMapAssumption, BlocksInFile
  <2> QED
    BY <2>1
<1>4. <<i, p>> \in BlockPlaces
  BY <1>2, <1>3, PlaceIs DEF Leads
<1> DEFINE pl == <<i, p>>
<1>5. Lookup(pl[1], pl[2]) = LookIn(addrs[i], Left(entry), p)
  BY <1>1, LookupWhole DEF Lookup
<1> DEFINE x == <<pl, Lookup(pl[1], pl[2])>>
<1>6. x[2] # 0
  BY <1>5
<1>7. x \in Pointers
  BY <1>4, <1>6 DEF Pointers
<1> QED
  BY <1>5, <1>7

\* Each block in use is pointed to once.
LEMMA InvOwned ==
    ASSUME BlockMapInv, \A i \in Inums : ~InTrunc(i)
    PROVE  /\ {p[2] : p \in Pointers} = used
           /\ Cardinality(Pointers) = Cardinality(used)
<1>1. Owned(addrs, Left(entry), used) /\ used \subseteq DataBlocks /\ 0 \notin used
  BY BlockSizes DEF BlockMapInv, MapTypes
<1>2. ASSUME NEW x \in Pointers PROVE x[2] \in used
  <2>1. PICK i \in Inums, p \in Paths :
              /\ x = <<<<i, p>>, LookIn(addrs[i], Left(entry), p)>>
              /\ LookIn(addrs[i], Left(entry), p) # 0
    BY PointerIs
  <2>2. LookIn(addrs[i], Left(entry), p) \in used \cup {0}
    BY <1>1 DEF Owned
  <2> QED
    BY <2>1, <2>2
<1>3. ASSUME NEW b \in used PROVE \E x \in Pointers : x[2] = b
  <2>1. PICK i \in Inums, p \in Paths : LookIn(addrs[i], Left(entry), p) = b
    BY <1>1 DEF Owned
  <2>2. <<<<i, p>>, LookIn(addrs[i], Left(entry), p)>> \in Pointers
    BY <1>1, <2>1, IsPointer
  <2> QED
    BY <2>1, <2>2
<1>4. ASSUME NEW x \in Pointers, NEW y \in Pointers, x[2] = y[2] PROVE x = y
  <2>1. PICK i \in Inums, p \in Paths :
              /\ x = <<<<i, p>>, LookIn(addrs[i], Left(entry), p)>>
              /\ LookIn(addrs[i], Left(entry), p) # 0
    BY PointerIs
  <2>2. PICK k \in Inums, q \in Paths :
              /\ y = <<<<k, q>>, LookIn(addrs[k], Left(entry), q)>>
              /\ LookIn(addrs[k], Left(entry), q) # 0
    BY PointerIs
  <2>3. LookIn(addrs[i], Left(entry), p) = LookIn(addrs[k], Left(entry), q)
    BY <1>4, <2>1, <2>2
  <2>4. i = k /\ p = q
    BY <1>1, <2>1, <2>3, OneWay
  <2> QED
    BY <2>1, <2>2, <2>4
<1>5. {p[2] : p \in Pointers} = used
  BY <1>2, <1>3
<1> DEFINE f == [x \in Pointers |-> x[2]]
<1>6. ExistsBijection(Pointers, used)
  <2>1. f \in [Pointers -> used]
    BY <1>2
  <2>2. \A x, y \in Pointers : f[x] = f[y] => x = y
    BY <1>4
  <2>3. \A b \in used : \E x \in Pointers : f[x] = b
    BY <1>3
  <2> HIDE DEF f
  <2>4. f \in Injection(Pointers, used) /\ f \in Surjection(Pointers, used)
    BY <2>1, <2>2, <2>3 DEF Injection, IsInjective, Surjection
  <2> QED
    BY <2>4 DEF ExistsBijection, Bijection
<1>7. ExistsBijection(used, Pointers)
  BY <1>6, Fun_ExistsBijSymmetric
<1>8. IsFiniteSet(used)
  BY <1>1, BlockSizes, FS_Subset
<1>9. Cardinality(Pointers) = Cardinality(used)
  BY <1>7, <1>8, FS_Bijection
<1> QED
  BY <1>5, <1>9

\* Nothing is shared, lost or freed early by bmap, balloc, bfree and itrunc
\* (fs.c): outside itrunc each block in use is pointed to from one place and
\* each pointer leads to a block in use; itrunc frees and reads what is in use.
THEOREM BlocksOwnedAlways == BlockMapSpec => []BlocksOwned
<1>1. BlockMapInv => BlocksOwned
  <2> SUFFICES ASSUME BlockMapInv PROVE BlocksOwned
    OBVIOUS
  <2>1. (\A i \in Inums : ~InTrunc(i)) =>
           /\ {p[2] : p \in Pointers} = used
           /\ Cardinality(Pointers) = Cardinality(used)
    BY InvOwned
  <2>2. FreesOnlyUsed
    BY InvFreesOnlyUsed
  <2> QED
    BY <2>1, <2>2 DEF BlocksOwned
<1> QED
  BY <1>1, BlockMapInvariant, PTL

-----------------------------------------------------------------------------
(* A file is a sequence of blocks of its own.                              *)

\* The blocks of a file, as MapIsFlat reads them.
Content(i) ==
    IF InTrunc(i) THEN <<>> ELSE [n \in 1..len[i] |-> Lookup(i, Path(n - 1))]
Contents == [i \in Inums |-> Content(i)]

\* In the invariant the content of a file is what is left of it.
LEMMA ContentIs ==
    ASSUME BlockMapInv, NEW i \in Inums, ~InTrunc(i)
    PROVE  /\ Content(i) = [n \in 1..len[i] |-> LookIn(addrs[i], Left(entry), Path(n - 1))]
           /\ Content(i) \in Seq(DataBlocks) /\ Len(Content(i)) = len[i] /\ len[i] \in Nat
           /\ \A n \in 1..len[i] : /\ n - 1 \in 0..MAXFILE - 1 /\ Path(n - 1) \in Paths
                                   /\ LookIn(addrs[i], Left(entry), Path(n - 1)) # 0
<1>1. /\ MapTypes /\ addrs \in [Inums -> AddrMap] /\ entry \in EntryMap
      /\ used \subseteq DataBlocks /\ Owned(addrs, Left(entry), used)
      /\ FramesAt(addrs, entry) /\ NoHoles
  BY DEF BlockMapInv, MapTypes
<1>2. len[i] \in Nat
  BY <1>1, BlocksInFile
<1>3. ASSUME NEW n \in 1..len[i]
      PROVE  /\ n - 1 \in 0..MAXFILE - 1 /\ Path(n - 1) \in Paths
             /\ Lookup(i, Path(n - 1)) = LookIn(addrs[i], Left(entry), Path(n - 1))
             /\ LookIn(addrs[i], Left(entry), Path(n - 1)) # 0
             /\ LookIn(addrs[i], Left(entry), Path(n - 1)) \in DataBlocks
  <2>1. n - 1 \in 0..len[i] - 1
    BY <1>2
  <2>2. n - 1 \in 0..MAXFILE - 1
    BY <1>1, <2>1, BlocksInFile
  <2>3. Path(n - 1) \in Paths
    BY <2>2, PathIsPath
  <2>4. Lookup(i, Path(n - 1)) = LookIn(addrs[i], Left(entry), Path(n - 1))
    BY <1>1, <2>3, LookupWhole DEF Lookup
  <2>5. LookIn(addrs[i], Left(entry), Path(n - 1)) # 0
    BY <1>1, <2>1 DEF NoHoles
  <2>6. LookIn(addrs[i], Left(entry), Path(n - 1)) \in used \cup {0}
    BY <1>1, <2>3 DEF Owned
  <2> QED
    BY <1>1, <2>2, <2>3, <2>4, <2>5, <2>6
<1>4. Content(i) = [n \in 1..len[i] |-> LookIn(addrs[i], Left(entry), Path(n - 1))]
  BY <1>3 DEF Content
<1> DEFINE C == [n \in 1..len[i] |-> LookIn(addrs[i], Left(entry), Path(n - 1))]
<1>5. C \in Seq(DataBlocks) /\ Len(C) = len[i]
  <2>1. \A n \in 1..len[i] : LookIn(addrs[i], Left(entry), Path(n - 1)) \in DataBlocks
    BY <1>3
  <2> QED
    BY <1>2, <2>1
<1> QED
  BY <1>2, <1>3, <1>4, <1>5

\* The blocks of a file are what its paths lead to.
LEMMA ContentNow ==
    BlockMapInv =>
        \A i \in Inums : ~InTrunc(i) =>
            Content(i) = [n \in 1..len[i] |-> LookIn(addrs[i], Left(entry), Path(n - 1))]
  BY ContentIs

\* The same of the next state.
LEMMA ContentNext ==
    BlockMapInv' =>
        \A i \in Inums : ~InTrunc(i)' =>
            Content(i)' =
               [n \in 1..len'[i] |-> LookIn(addrs'[i], Left(entry)', Path(n - 1))]
<1>1. BlockMapInv' =>
        (\A i \in Inums : ~InTrunc(i) =>
            Content(i) = [n \in 1..len[i] |-> LookIn(addrs[i], Left(entry), Path(n - 1))])'
  BY ContentNow, PTL
<1>2. \A n : Path(n)' = Path(n)
  BY DEF Path
<1> QED
  BY <1>1, <1>2, Zenon DEF LookIn, Follow

\* A sequence is a function on the numbers up to its length.
LEMMA SeqIs ==
    ASSUME NEW S, NEW s \in Seq(S)
    PROVE  s = [n \in 1..Len(s) |-> s[n]]
  OBVIOUS

\* At first the files are empty.
LEMMA ContentsInit ==
    ASSUME BlockMapInit
    PROVE  Contents = [i \in Inums |-> <<>>]
<1>1. ASSUME NEW i \in Inums PROVE Content(i) = <<>>
  <2>1. len[i] = 0 /\ ~InTrunc(i)
    BY DEF BlockMapInit, InTrunc, Idle
  <2>2. Content(i) = [n \in 1..0 |-> Lookup(i, Path(n - 1))]
    BY <2>1 DEF Content
  <2> QED
    BY <2>2
<1> QED
  BY <1>1 DEF Contents

\* A file on which nothing is done, while no entry changes.
LEMMA ContentSame ==
    ASSUME NEW i, entry' = entry, addrs'[i] = addrs[i], len'[i] = len[i],
           InTrunc(i)' <=> InTrunc(i)
    PROVE  Content(i)' = Content(i)
  BY DEF Content, Lookup

\* writei: a file grows by a block of its own, or stays as it is.
LEMMA ContentsWritten ==
    ASSUME BlockMapInv, BlockMapInv', NEW i \in Inums, NEW bn \in 0..MAXFILE - 1,
           WriteBlock(i, bn)
    PROVE  \/ Contents' = Contents
           \/ /\ Contents'[i] # <<>>
              /\ Contents' = [Contents EXCEPT ![i] = Append(@, Last(Contents'[i]))]
              /\ Last(Contents'[i]) \in DataBlocks
              /\ \A g \in Inums : Last(Contents'[i]) \notin Range(Contents[g])
<1> DEFINE L == Left(entry)
           M == Left(entry')
<1>1. /\ MapTypes /\ ~InTrunc(i) /\ bn <= len[i] /\ len[i] \in Nat
      /\ Owned(addrs', M, used')
      /\ \A k \in Inums, q \in Paths :
            LookIn(addrs'[k], M, q) # LookIn(addrs[k], L, q) =>
                k = i /\ LookIn(addrs[k], L, q) = 0 /\ Leads(q, bn)
      /\ LookIn(addrs'[i], M, Path(bn)) # 0
  BY WriteBlockEffect DEF BlockMapInv, MapTypes
<1>2. /\ job' = job /\ len' = [len EXCEPT ![i] = IF bn = @ THEN @ + 1 ELSE @]
      /\ len \in [Inums -> Nat]
  BY <1>1 DEF WriteBlock, MapTypes
<1>3. /\ \A k : (InTrunc(k)' <=> InTrunc(k))
      /\ Left(entry)' = M
  BY <1>2, JobSame
<1>4. ASSUME NEW k \in Inums, ~InTrunc(k)
      PROVE  /\ Content(k) = [n \in 1..len[k] |-> LookIn(addrs[k], L, Path(n - 1))]
             /\ Content(k) \in Seq(DataBlocks) /\ Len(Content(k)) = len[k]
             /\ len[k] \in Nat
             /\ \A n \in 1..len[k] : /\ n - 1 \in 0..MAXFILE - 1 /\ Path(n - 1) \in Paths
                                     /\ LookIn(addrs[k], L, Path(n - 1)) # 0
             /\ \A n \in 1..len[k] :
                   LookIn(addrs'[k], M, Path(n - 1)) = LookIn(addrs[k], L, Path(n - 1))
  <2>1. /\ Content(k) = [n \in 1..len[k] |-> LookIn(addrs[k], L, Path(n - 1))]
        /\ Content(k) \in Seq(DataBlocks) /\ Len(Content(k)) = len[k]
        /\ len[k] \in Nat
        /\ \A n \in 1..len[k] : /\ n - 1 \in 0..MAXFILE - 1 /\ Path(n - 1) \in Paths
                                /\ LookIn(addrs[k], L, Path(n - 1)) # 0
    BY <1>4, ContentIs
  <2>2. \A n \in 1..len[k] :
           LookIn(addrs'[k], M, Path(n - 1)) = LookIn(addrs[k], L, Path(n - 1))
    BY <1>1, <2>1
  <2> QED
    BY <2>1, <2>2
<1>5. ASSUME NEW k \in Inums, ~InTrunc(k)
      PROVE  Content(k)' = [n \in 1..len'[k] |-> LookIn(addrs'[k], M, Path(n - 1))]
  <2>1. ~InTrunc(k)'
    BY <1>3, <1>5
  <2> QED
    BY <1>3, <2>1, ContentNext
<1> HIDE DEF L, M
<1>6. \A k \in Inums : k # i => Content(k)' = Content(k)
  <2> SUFFICES ASSUME NEW k \in Inums, k # i PROVE Content(k)' = Content(k)
    OBVIOUS
  <2>1. CASE InTrunc(k)
    BY <1>3, <2>1 DEF Content
  <2>2. CASE ~InTrunc(k)
    BY <1>2, <1>4, <1>5, <2>2
  <2> QED
    BY <2>1, <2>2
<1>7. CASE bn # len[i]
  <2>1. len'[i] = len[i]
    BY <1>2, <1>7
  <2>2. Content(i)' = Content(i)
    BY <1>1, <1>4, <1>5, <2>1
  <2> QED
    BY <1>6, <2>2 DEF Contents
<1>8. CASE bn = len[i]
  <2> DEFINE v == LookIn(addrs'[i], M, Path(bn))
             c == Content(i)
             d == Content(i)'
             l == len[i]
  <2>1. len'[i] = l + 1 /\ l \in Nat
    BY <1>1, <1>2, <1>8
  <2>2. /\ c \in Seq(DataBlocks) /\ Len(c) = l
        /\ c = [n \in 1..l |-> LookIn(addrs[i], L, Path(n - 1))]
        /\ \A n \in 1..l : /\ n - 1 \in 0..MAXFILE - 1 /\ Path(n - 1) \in Paths
                           /\ LookIn(addrs'[i], M, Path(n - 1)) =
                                 LookIn(addrs[i], L, Path(n - 1))
    BY <1>1, <1>4
  <2>3. d = [n \in 1..l + 1 |-> LookIn(addrs'[i], M, Path(n - 1))]
    BY <1>1, <1>5, <2>1
  <2>4. /\ \A n \in 1..l : d[n] = c[n]
        /\ d[l + 1] = v
    <3>1. \A n \in 1..l : n \in 1..l + 1
      BY <2>1
    <3>2. \A n \in 1..l : d[n] = c[n]
      BY <2>2, <2>3, <3>1
    <3>3. l + 1 \in 1..l + 1 /\ (l + 1) - 1 = bn
      BY <1>8, <2>1
    <3>4. d[l + 1] = v
      BY <2>3, <3>3
    <3> QED
      BY <3>2, <3>4
  <2>5. Path(bn) \in Paths
    BY PathIsPath
  <2>6. v \in DataBlocks
    <3>1. v \in used' \cup {0}
      BY <1>1, <2>5 DEF Owned
    <3>2. used' \subseteq DataBlocks
      BY DEF BlockMapInv, MapTypes
    <3> QED
      BY <1>1, <3>1, <3>2
  <2> HIDE DEF v, c, d, l
  <2>7. d = Append(c, v)
    <3>1. Append(c, v) = [n \in 1..l + 1 |-> Append(c, v)[n]]
      <4>1. Append(c, v) \in Seq(DataBlocks) /\ Len(Append(c, v)) = l + 1
        BY <2>1, <2>2, <2>6
      <4> DEFINE x == Append(c, v)
      <4>2. x \in Seq(DataBlocks) /\ Len(x) = l + 1
        BY <4>1
      <4> HIDE DEF x
      <4>3. x = [n \in 1..Len(x) |-> x[n]] /\ Len(x) = l + 1
        BY <4>2, SeqIs
      <4>4. x = [n \in 1..l + 1 |-> x[n]]
        BY <4>3, Zenon
      <4> QED
        BY <4>4 DEF x
    <3>2. d = [n \in 1..l + 1 |-> d[n]]
      BY <2>3
    <3>3. \A n \in 1..l + 1 : d[n] = Append(c, v)[n]
      <4> TAKE n \in 1..l + 1
      <4>1. n \in 1..l \/ n = l + 1
        BY <2>1
      <4>2. \A m \in 1..l : Append(c, v)[m] = c[m]
        BY <2>1, <2>2
      <4>3. Append(c, v)[l + 1] = v
        BY <2>1, <2>2
      <4> QED
        BY <2>4, <4>1, <4>2, <4>3, Zenon
    <3> QED
      BY <3>1, <3>2, <3>3
  <2>8. d # <<>> /\ Last(d) = v
    <3>1. Len(Append(c, v)) = l + 1 /\ Append(c, v)[l + 1] = v
      BY <2>1, <2>2
    <3>2. Len(d) = l + 1 /\ Len(d) # 0
      BY <2>1, <2>7, <3>1
    <3> QED
      BY <2>7, <3>1, <3>2 DEF Last
  <2>9. Contents' = [Contents EXCEPT ![i] = Append(@, v)] /\ Contents'[i] = d
    BY <1>6, <2>7 DEF Contents, c, d
  <2>10. ASSUME NEW g \in Inums, v \in Range(Contents[g]) PROVE FALSE
    <3>1. v \in Range(Content(g))
      BY <2>10 DEF Contents
    <3>2. ~InTrunc(g)
      <4>1. Range(<<>>) = {}
        BY DEF Range
      <4> QED
        BY <3>1, <4>1 DEF Content
    <3>3. PICK n \in 1..len[g] : v = Content(g)[n]
      BY <1>4, <3>1, <3>2 DEF Range
    <3>4. /\ Path(n - 1) \in Paths /\ n - 1 \in 0..MAXFILE - 1
          /\ v = LookIn(addrs'[g], M, Path(n - 1))
      BY <1>4, <3>2, <3>3
    <3>5. LookIn(addrs'[i], M, Path(bn)) # 0
          /\ LookIn(addrs'[i], M, Path(bn)) = LookIn(addrs'[g], M, Path(n - 1))
      BY <1>1, <3>4 DEF v
    <3>6. i = g /\ Path(bn) = Path(n - 1)
      BY <1>1, <2>5, <3>4, <3>5, OneWay
    <3>7. bn = n - 1
      BY <3>4, <3>6, PathInjective
    <3> QED
      BY <1>8, <2>1, <3>3, <3>6, <3>7 DEF l
  <2> QED
    BY <2>6, <2>8, <2>9, <2>10
<1> QED
  BY <1>7, <1>8

\* itrunc takes all blocks of a file at once, as far as its content goes: what
\* it does afterwards is not seen.
LEMMA ContentsDiscarded ==
    ASSUME MapTypes, NEW i \in Inums, ItruncCall(i)
    PROVE  Contents' = [Contents EXCEPT ![i] = <<>>]
<1>1. /\ job' = [job EXCEPT ![i] = [call |-> "itrunc", frames |-> <<>>]]
      /\ UNCHANGED <<addrs, entry, used, len>>
  BY DEF ItruncCall
<1>2. /\ job'[i].call = "itrunc" /\ \A k \in Inums : k # i => job'[k] = job[k]
  BY <1>1 DEF MapTypes
<1>3. Content(i)' = <<>>
  BY <1>2 DEF Content, InTrunc
<1>4. \A k \in Inums : k # i => Content(k)' = Content(k)
  <2> SUFFICES ASSUME NEW k \in Inums, k # i PROVE Content(k)' = Content(k)
    OBVIOUS
  <2>1. job'[k] = job[k]
    BY <1>2
  <2>2. InTrunc(k)' <=> InTrunc(k)
    BY <2>1 DEF InTrunc
  <2> QED
    BY <1>1, <2>2, ContentSame
<1> QED
  BY <1>3, <1>4 DEF Contents

\* What itrunc frees is no longer part of a file.
LEMMA ContentsFreed ==
    ASSUME MapTypes, MapTypes', NEW i \in Inums,
           TruncAddr(i) \/ TruncEntry(i) \/ TruncBlock(i)
    PROVE  Contents' = Contents
<1>1. /\ entry' = entry /\ len' = len /\ InTrunc(i)
      /\ \A k \in Inums : k # i => addrs'[k] = addrs[k] /\ job'[k] = job[k]
  BY DEF MapTypes, TruncAddr, TruncEntry, TruncBlock, PopFrame
<1>2. InTrunc(i)'
  <2>1. job[i] \in [call : {"itrunc"}, frames : Seq(Frame)] /\ job' = job =>
           job'[i].call = "itrunc"
    OBVIOUS
  <2>2. job[i] \in [call : {"itrunc"}, frames : Seq(Frame)]
    BY <1>1, Jobs
  <2>3. \A X : job' = [job EXCEPT ![i].frames = X] => job'[i].call = "itrunc"
    BY <2>2 DEF MapTypes
  <2>4. job' = job \/ \E X : job' = [job EXCEPT ![i].frames = X]
    BY DEF TruncAddr, TruncEntry, TruncBlock, PopFrame
  <2> QED
    BY <2>1, <2>2, <2>3, <2>4 DEF InTrunc
<1>3. Content(i)' = Content(i)
  BY <1>1, <1>2 DEF Content
<1>4. \A k \in Inums : k # i => Content(k)' = Content(k)
  <2> SUFFICES ASSUME NEW k \in Inums, k # i PROVE Content(k)' = Content(k)
    OBVIOUS
  <2>1. job'[k] = job[k] /\ addrs'[k] = addrs[k]
    BY <1>1
  <2>2. InTrunc(k)' <=> InTrunc(k)
    BY <2>1 DEF InTrunc
  <2> QED
    BY <1>1, <2>1, <2>2, ContentSame
<1> QED
  BY <1>3, <1>4 DEF Contents

\* When itrunc returns the file is still empty.
LEMMA ContentsEmptied ==
    ASSUME MapTypes, NEW i \in Inums, TruncReturn(i)
    PROVE  Contents' = Contents
<1>1. /\ InTrunc(i) /\ len' = [len EXCEPT ![i] = 0] /\ job' = [job EXCEPT ![i] = Idle]
      /\ UNCHANGED <<addrs, entry, used>>
  BY DEF TruncReturn
<1>2. /\ job'[i] = Idle /\ len'[i] = 0
      /\ \A k \in Inums : k # i => job'[k] = job[k] /\ len'[k] = len[k]
  BY <1>1 DEF MapTypes
<1>3. Content(i)' = <<>>
  <2>1. ~InTrunc(i)'
    BY <1>2 DEF InTrunc, Idle
  <2>2. Content(i)' = [n \in 1..0 |-> Lookup(i, Path(n - 1))']
    BY <1>2, <2>1 DEF Content, Lookup, Path
  <2> QED
    BY <2>2
<1>4. \A k \in Inums : k # i => Content(k)' = Content(k)
  <2> SUFFICES ASSUME NEW k \in Inums, k # i PROVE Content(k)' = Content(k)
    OBVIOUS
  <2>1. job'[k] = job[k] /\ len'[k] = len[k]
    BY <1>2
  <2>2. InTrunc(k)' <=> InTrunc(k)
    BY <2>1 DEF InTrunc
  <2> QED
    BY <1>1, <2>1, <2>2, ContentSame
<1>5. Content(i) = <<>>
  BY <1>1 DEF Content
<1> QED
  BY <1>3, <1>4, <1>5 DEF Contents

\* Each step is a step of the flat file or a stutter.
LEMMA FlatStep ==
    ASSUME BlockMapInv, BlockMapInv', [BlockMapNext]_blockVars
    PROVE  FF!FlatNext \/ Contents' = Contents
<1>1. MapTypes /\ MapTypes'
  BY DEF BlockMapInv
<1>2. ASSUME NEW i \in Inums, ItruncCall(i) PROVE FF!FlatNext
  <2>1. Contents' = [Contents EXCEPT ![i] = <<>>]
    BY <1>1, <1>2, ContentsDiscarded
  <2> QED
    BY <2>1 DEF FF!FlatNext, FF!Discard, Contents, Content
<1>3. ASSUME NEW i \in Inums, NEW bn \in 0..MAXFILE - 1, WriteBlock(i, bn)
      PROVE  FF!FlatNext \/ Contents' = Contents
  <2>1. CASE Contents' = Contents
    BY <2>1
  <2>2. CASE /\ Contents'[i] # <<>>
             /\ Contents' = [Contents EXCEPT ![i] = Append(@, Last(Contents'[i]))]
             /\ Last(Contents'[i]) \in DataBlocks
             /\ \A g \in Inums : Last(Contents'[i]) \notin Range(Contents[g])
    <3>1. Contents = [k \in Inums |->
             IF InTrunc(k) THEN <<>> ELSE [n \in 1..len[k] |-> Lookup(k, Path(n - 1))]]
      BY DEF Contents, Content
    <3> DEFINE now == Contents'
    <3>2. /\ now[i] # <<>>
          /\ now = [Contents EXCEPT ![i] = Append(@, FF!Last(now[i]))]
          /\ FF!Last(now[i]) \in DataBlocks
          /\ \A g \in Inums : FF!Last(now[i]) \notin FF!Range(Contents[g])
      BY <2>2 DEF FF!Last, Last, FF!Range, Range
    <3> HIDE DEF now
    <3>3. FF!Extend(now, i)
      BY <3>1, <3>2, Zenon DEF FF!Extend
    <3>4. now = [k \in Inums |->
             IF InTrunc(k) THEN <<>> ELSE [n \in 1..len[k] |-> Lookup(k, Path(n - 1))]]'
      BY DEF now, Contents, Content
    <3> QED
      BY <3>3, <3>4 DEF FF!FlatNext
  <2> QED
    BY <1>3, <2>1, <2>2, ContentsWritten
<1>4. CASE UNCHANGED blockVars
  <2>1. ASSUME NEW k \in Inums PROVE Content(k)' = Content(k)
    BY <1>4, ContentSame DEF blockVars, InTrunc
  <2> QED
    BY <2>1 DEF Contents
<1>5. CASE BlockMapNext
  <2>1. PICK i \in Inums :
           \/ \E bn \in 0..MAXFILE - 1 : WriteBlock(i, bn)
           \/ ItruncCall(i) \/ TruncAddr(i) \/ TruncEntry(i) \/ TruncBlock(i)
           \/ TruncReturn(i)
    BY <1>5 DEF BlockMapNext
  <2> QED
    BY <1>1, <1>2, <1>3, <2>1, ContentsFreed, ContentsEmptied
<1> QED
  BY <1>4, <1>5

\* The block map (bmap, balloc, bfree, itrunc of fs.c) implements a flat file:
\* with direct, single, double and triple indirect blocks, and whatever is done
\* to other inodes, a file is a sequence of blocks of its own that grows at the
\* end and is discarded as a whole.
THEOREM MapImplementsFlat == BlockMapSpec => MapIsFlat
<1>1. BlockMapInit => FF!FlatInit
  <2> SUFFICES ASSUME BlockMapInit PROVE FF!FlatInit
    OBVIOUS
  <2>1. Contents = [i \in Inums |-> <<>>]
    BY ContentsInit
  <2> QED
    BY <2>1 DEF FF!FlatInit, Contents, Content
<1>2. BlockMapInv /\ BlockMapInv' /\ [BlockMapNext]_blockVars =>
         [FF!FlatNext]_([i \in Inums |->
            IF InTrunc(i) THEN <<>>
            ELSE [n \in 1..len[i] |-> Lookup(i, Path(n - 1))]])
  BY FlatStep DEF Contents, Content
<1> QED
  BY <1>1, <1>2, BlockMapInvariant, PTL DEF BlockMapSpec, MapIsFlat, FF!FlatSpec
=============================================================================

----------------------------- MODULE LibraryProofs -----------------------------
(***************************************************************************)
(* Proofs about Library: for every number of names, inodes, blocks,        *)
(* descriptors and calls, a listing shows what can be opened; and until a  *)
(* call is made that the library takes and should not, the inodes, blocks  *)
(* and directories are one tree, the descriptors are apart, and a call     *)
(* changes or removes the file its path or descriptor means.               *)
(*                                                                         *)
(* What a call does is stated once, as a relation between the state before *)
(* and after it that knows nothing of paths (FileMade, DirAdded,           *)
(* FileRemoved, ...).  Two inductions follow: Known, of the entries that   *)
(* have a name, holds whatever is called; the tree is Known and Owned, of  *)
(* the blocks, and NamesRight and Apart, and rests on Known.  A step keeps *)
(* NamesRight if it adds one name at most and takes away none without its  *)
(* inode (NamesStay), which is shown of each kind of step.                 *)
(***************************************************************************)
EXTENDS Library, WellFoundedInduction, FiniteSetTheorems, TLAPS

(* Min of numbers is one of them, and the least.                           *)
LEMMA LeastIs ==
  ASSUME NEW S \in SUBSET Nat, S # {}
  PROVE  /\ Min(S) \in S /\ \A m \in S : Min(S) <= m
         /\ \A m \in S : (\A k \in S : m <= k) => m = Min(S)
  <1> DEFINE R == {ss \in Nat \X Nat : ss[1] < ss[2]}
  <1>1. IsWellFoundedOn(R, Nat)
    BY NatLessThanWellFounded DEF OpToRel
  <1>2. PICK m \in S : \A k \in S : ~(<<k, m>> \in R)
    <2> HIDE DEF R
    <2> QED BY <1>1, WFMin
  <1>3. \A k \in S : m <= k
    <2> SUFFICES ASSUME NEW k \in S PROVE m <= k
      OBVIOUS
    <2>1. <<k, m>> \in Nat \X Nat /\ ~(k < m)
      BY <1>2
    <2> QED BY <2>1
  <1>4. Min(S) \in S /\ \A k \in S : Min(S) <= k
    BY <1>3 DEF Min
  <1> HIDE DEF R
  <1>5. ASSUME NEW k \in S, \A l \in S : k <= l PROVE k = Min(S)
    <2>1. k \in Nat /\ Min(S) \in Nat /\ k <= Min(S) /\ Min(S) <= k
      BY <1>4, <1>5
    <2> QED BY <2>1
  <1> QED BY <1>4, <1>5

(* Min and Max of two numbers.                                             *)
LEMMA MostIs ==
  ASSUME NEW a, NEW b, {a, b} \subseteq Nat, a < b
  PROVE  Min({a, b}) = a /\ Max({a, b}) = b
  <1>1. Min({a, b}) = a
    BY DEF Min
  <1>2. Max({a, b}) = b
    BY DEF Max
  <1> QED BY <1>1, <1>2

(* The sets of the model are of numbers, and none is empty.                *)
LEMMA Counts ==
  /\ NIno \in Nat \ {0} /\ NBlk \in Nat \ {0} /\ NFd \in Nat \ {0} /\ NDirect \in Nat \ {0}
  /\ NDirent \in Nat /\ NDirent > 2
  /\ Ino \subseteq Nat /\ Blk \subseteq Nat \ {0} /\ Fd \subseteq Nat /\ Slot \subseteq Nat
  /\ 1 \in Slot /\ 2 \in Slot /\ 0 \in Ino /\ 0 \notin Blk /\ 0 \in Fd /\ 1 \in Blk
  BY CountAssumption, SlotAssumption DEF Ino, Blk, Fd, Slot

(* Inodes and blocks are finitely many.                                    *)
LEMMA Finite ==
  /\ \A S \in SUBSET Ino : IsFiniteSet(S) /\ Cardinality(S) \in Nat
  /\ \A S \in SUBSET Blk : IsFiniteSet(S) /\ Cardinality(S) \in Nat
  <1>1. IsFiniteSet(Ino) /\ IsFiniteSet(Blk)
    BY CountAssumption, FS_Interval DEF Ino, Blk
  <1> QED BY <1>1, FS_Subset, FS_CardinalityType

(* An ascending enumeration exists                                          *)
Ascends(q, S) == /\ q \in [1 .. Cardinality(S) -> S]
                 /\ \A j, k \in DOMAIN q : j < k => q[j] < q[k]

(* Every set of blocks can be listed in ascending order: its largest comes *)
(* last.                                                                   *)
LEMMA SomeOrder ==
  ASSUME NEW n \in Nat
  PROVE  \A S \in SUBSET Blk : Cardinality(S) = n => \E q : Ascends(q, S)
  <1> DEFINE Bad == {m \in Nat : \E S \in SUBSET Blk : Cardinality(S) = m /\ \A q : ~Ascends(q, S)}
  <1> SUFFICES ASSUME Bad # {} PROVE FALSE
    OBVIOUS
  <1>1. Bad \subseteq Nat
    OBVIOUS
  <1>2. Min(Bad) \in Bad /\ \A m \in Bad : Min(Bad) <= m
    <2> HIDE DEF Bad
    <2> QED BY <1>1, LeastIs
  <1>3. PICK S \in SUBSET Blk : Cardinality(S) = Min(Bad) /\ \A q : ~Ascends(q, S)
    BY <1>2
  <1>4. CASE S = {}
    <2>1. Cardinality(S) = 0
      BY <1>4, FS_EmptySet
    <2>2. Ascends(<<>>, S)
      BY <2>1, <1>4 DEF Ascends
    <2> QED BY <2>2, <1>3
  <1>5. CASE S # {}
    <2>1. IsFiniteSet(S) /\ Cardinality(S) \in Nat /\ S \subseteq Nat
      BY Finite, Counts
    <2> DEFINE Down == {NBlk - b : b \in S}
    <2>2. Down \subseteq Nat /\ Down # {}
      <3>1. \A b \in S : NBlk - b \in Nat
        BY Counts DEF Blk
      <3> QED BY <3>1, <1>5
    <2>3. PICK b \in S : NBlk - b = Min(Down)
      <3> Min(Down) \in Down
        <4> HIDE DEF Down
        <4> QED BY <2>2, LeastIs
      <3> QED OBVIOUS
    <2>4. \A c \in S : c <= b
      <3> SUFFICES ASSUME NEW c \in S PROVE c <= b
        OBVIOUS
      <3>1. NBlk - c \in Down
        OBVIOUS
      <3>2. NBlk - b <= NBlk - c
        <4> HIDE DEF Down
        <4>1. Min(Down) <= NBlk - c
          BY <3>1, <2>2, LeastIs
        <4> QED BY <4>1, <2>3
      <3> QED BY <3>2, <2>1, Counts
    <2> DEFINE T == S \ {b}
    <2>5. T \in SUBSET Blk /\ Cardinality(T) = Cardinality(S) - 1 /\ Cardinality(T) \in Nat
      BY <2>1, FS_RemoveElement, Finite
    <2>6. ~(Cardinality(T) \in Bad)
      <3> HIDE DEF Bad
      <3> QED BY <2>5, <1>2, <1>3, <2>1
    <2>7. PICK q : Ascends(q, T)
      BY <2>5, <2>6
    <2> DEFINE k0 == Cardinality(S)
               r == [j \in 1 .. k0 |-> IF j = k0 THEN b ELSE q[j]]
    <2>8. k0 \in Nat /\ q \in [1 .. k0 - 1 -> T] /\ \A j, k \in 1 .. k0 - 1 : j < k => q[j] < q[k]
      BY <2>7, <2>5, <2>1 DEF Ascends
    <2> HIDE DEF k0, T
    <2>9. T \subseteq S /\ b \notin T
      BY DEF T
    <2>10. r \in [1 .. k0 -> S]
      <3> SUFFICES ASSUME NEW j \in 1 .. k0, j # k0 PROVE q[j] \in S
        BY <2>3
      <3>1. j \in 1 .. k0 - 1
        BY <2>8
      <3> QED BY <3>1, <2>8, <2>9
    <2>11. ASSUME NEW j \in 1 .. k0, NEW k \in 1 .. k0, j < k
          PROVE r[j] < r[k]
      <3>1. j \in 1 .. k0 - 1 /\ q[j] \in T /\ r[j] = q[j]
        <4>1. j \in 1 .. k0 - 1 /\ j # k0
          BY <2>8, <2>11
        <4> QED BY <4>1, <2>8
      <3>2. CASE k = k0
        <4> r[k] = b
          BY <3>2
        <4> q[j] <= b /\ q[j] # b /\ q[j] \in Nat /\ b \in Nat
          BY <3>1, <2>4, <2>1, <2>9
        <4> QED BY <3>1
      <3>3. CASE k # k0
        <4>1. k \in 1 .. k0 - 1 /\ r[k] = q[k]
          BY <3>3, <2>8
        <4> QED BY <3>1, <4>1, <2>8, <2>11
      <3> QED BY <3>2, <3>3
    <2> HIDE DEF r
    <2>12. DOMAIN r = 1 .. k0
      BY <2>10
    <2> QED BY <2>10, <2>11, <2>12, <1>3 DEF Ascends, k0
  <1> QED BY <1>4, <1>5

(* InOrder lists every block of a set, each once.                          *)
LEMMA InOrderIs ==
  ASSUME NEW S \in SUBSET Blk
  PROVE  /\ InOrder(S) \in Seq(Blk) /\ Len(InOrder(S)) = Cardinality(S)
         /\ Cardinality(S) \in Nat
         /\ \A k \in 1 .. Cardinality(S) : InOrder(S)[k] \in S
         /\ \A j, k \in 1 .. Cardinality(S) : InOrder(S)[j] = InOrder(S)[k] => j = k
         /\ \A b \in S : \E k \in 1 .. Cardinality(S) : InOrder(S)[k] = b
  <1> DEFINE n == Cardinality(S)
             q == InOrder(S)
  <1>1. IsFiniteSet(S) /\ n \in Nat /\ S \subseteq Nat
    BY Finite, Counts
  <1>2. Ascends(q, S)
    <2>1. PICK r : Ascends(r, S)
      BY <1>1, SomeOrder
    <2> QED BY <2>1 DEF Ascends, InOrder
  <1> HIDE DEF n, q
  <1>3. q \in [1 .. n -> S] /\ \A j, k \in 1 .. n : j < k => q[j] < q[k]
    BY <1>2 DEF Ascends, n
  <1>4. q \in Seq(Blk) /\ Len(q) = n
    <2> q \in [1 .. n -> Blk]
      BY <1>3
    <2> QED BY <1>1
  <1>5. ASSUME NEW j \in 1 .. n, NEW k \in 1 .. n, q[j] = q[k] PROVE j = k
    <2>1. q[j] \in Nat /\ q[k] \in Nat
      BY <1>3, <1>1
    <2> QED BY <2>1, <1>3, <1>5
  <1> DEFINE T == {q[k] : k \in 1 .. n}
  <1>6. Cardinality(T) = n /\ T \subseteq S
    <2>1. T \subseteq S
      BY <1>3
    <2>2. q \in Bijection(1 .. n, T)
      BY <1>3, <1>5 DEF Bijection, Injection, Surjection, IsInjective
    <2>3. IsFiniteSet(1 .. n) /\ Cardinality(1 .. n) = n
      BY <1>1, FS_Interval
    <2>4. Cardinality(T) = Cardinality(1 .. n)
      <3> HIDE DEF T
      <3> QED BY <2>2, <2>3, FS_Bijection DEF ExistsBijection
    <2> QED BY <2>1, <2>3, <2>4
  <1>7. T = S
    <2> HIDE DEF T
    <2> QED BY <1>6, <1>1, FS_Subset DEF n
  <1> QED BY <1>1, <1>3, <1>4, <1>5, <1>7 DEF n, q

(* FreeBlocks: the k first free blocks.                                     *)
IsFirst(S, k, F) == /\ Cardinality(S) = k
                    /\ \A b \in S, c \in F \ S : b < c

(* So many blocks as are free can be taken in the order of the bitmap.     *)
LEMMA SomeFirst ==
  ASSUME NEW F \in SUBSET Blk, NEW k \in Nat, k <= Cardinality(F)
  PROVE  \E S \in SUBSET F : IsFirst(S, k, F)
  <1> DEFINE Bad == {m \in Nat : m <= Cardinality(F) /\ \A S \in SUBSET F : ~IsFirst(S, m, F)}
  <1> SUFFICES ASSUME Bad # {} PROVE FALSE
    OBVIOUS
  <1>1. /\ Min(Bad) \in Bad /\ \A m \in Bad : Min(Bad) <= m
    <2>1. Bad \subseteq Nat
      OBVIOUS
    <2> HIDE DEF Bad
    <2> QED BY <2>1, LeastIs
  <1> DEFINE n == Min(Bad)
  <1>2. n \in Nat /\ n <= Cardinality(F) /\ \A S \in SUBSET F : ~IsFirst(S, n, F)
    BY <1>1
  <1>3. n # 0
    <2>1. IsFirst({}, 0, F)
      BY FS_EmptySet DEF IsFirst
    <2> QED BY <2>1, <1>2
  <1>4. n - 1 \in Nat /\ n - 1 <= Cardinality(F) /\ n - 1 \notin Bad
    <2>1. n \in Nat /\ \A m \in Bad : n <= m
      BY <1>1
    <2>2. Cardinality(F) \in Nat
      BY Finite
    <2> HIDE DEF Bad, n
    <2> QED BY <2>1, <1>2, <1>3, <2>2
  <1>5. PICK S \in SUBSET F : IsFirst(S, n - 1, F)
    BY <1>4
  <1>6. F \ S # {} /\ F \ S \subseteq Nat /\ F \subseteq Nat
    <2>1. F \subseteq Nat
      BY Counts
    <2>2. CASE F \ S = {}
      <3>1. F = S
        BY <2>2
      <3>2. Cardinality(F) = n - 1
        BY <3>1, <1>5 DEF IsFirst
      <3> HIDE DEF n
      <3> QED BY <3>2, <1>2
    <2> QED BY <2>1, <2>2
  <1> DEFINE b == Min(F \ S)
  <1>7. b \in F \ S /\ \A c \in F \ S : b <= c
    BY <1>6, LeastIs
  <1> HIDE DEF b
  <1>8. Cardinality(S \cup {b}) = n
    <2>1. S \in SUBSET Blk /\ IsFiniteSet(S)
      BY Finite
    <2>2. Cardinality(S \cup {b}) = Cardinality(S) + 1
      BY <2>1, <1>7, FS_AddElement
    <2> QED BY <2>2, <1>5, <1>2 DEF IsFirst
  <1>9. ASSUME NEW a \in S \cup {b}, NEW c \in F \ (S \cup {b}) PROVE a < c
    <2>1. c \in F \ S /\ c # b /\ b \in Nat /\ c \in Nat
      BY <1>6, <1>7
    <2>2. CASE a \in S
      BY <2>1, <2>2, <1>5 DEF IsFirst
    <2>3. CASE a = b
      BY <2>1, <2>3, <1>7
    <2> QED BY <2>2, <2>3
  <1>10. S \cup {b} \in SUBSET F /\ IsFirst(S \cup {b}, n, F)
    <2> HIDE DEF n
    <2> QED BY <1>7, <1>8, <1>9 DEF IsFirst
  <1> QED BY <1>10, <1>2

(* FreeBlocks(k) are k free blocks, and no free block before them is left  *)
(* out.                                                                    *)
LEMMA FreeBlocksAre ==
  ASSUME NEW k \in Nat, Cardinality(Blk \ bbm) >= k
  PROVE  /\ FreeBlocks(k) \subseteq Blk \ bbm /\ Cardinality(FreeBlocks(k)) = k
         /\ \A b \in FreeBlocks(k), c \in (Blk \ bbm) \ FreeBlocks(k) : b < c
         /\ IsFiniteSet(FreeBlocks(k))
  <1>1. Cardinality(Blk \ bbm) \in Nat
    BY Finite
  <1>2. \E S \in SUBSET (Blk \ bbm) : IsFirst(S, k, Blk \ bbm)
    BY <1>1, SomeFirst
  <1>3. FreeBlocks(k) \in SUBSET (Blk \ bbm) /\ IsFirst(FreeBlocks(k), k, Blk \ bbm)
    BY <1>2 DEF FreeBlocks, IsFirst
  <1> QED BY <1>3, Finite DEF IsFirst

(* GetFreeBlock names a block that is free.                                *)
LEMMA FreeBlockIs ==
  ASSUME Cardinality(Blk \ bbm) >= 1
  PROVE  FreeBlock \in Blk \ bbm /\ FreeBlocks(1) = {FreeBlock}
  <1>1. /\ FreeBlocks(1) \subseteq Blk \ bbm /\ Cardinality(FreeBlocks(1)) = 1
        /\ IsFiniteSet(FreeBlocks(1))
    BY FreeBlocksAre
  <1>2. PICK b : FreeBlocks(1) = {b}
    BY <1>1, FS_Singleton
  <1>3. b \in Nat /\ b \in Blk \ bbm
    BY <1>1, <1>2, Counts
  <1>4. Min({b}) = b
    <2>1. {b} \in SUBSET Nat /\ {b} # {}
      BY <1>3
    <2> QED BY <2>1, LeastIs
  <1> QED BY <1>2, <1>3, <1>4 DEF FreeBlock

(* The two blocks a growing directory takes are free, and two.             *)
LEMMA NextBlockIs ==
  ASSUME Cardinality(Blk \ bbm) >= 2
  PROVE  /\ FreeBlock \in Blk \ bbm /\ NextBlock \in Blk \ bbm /\ FreeBlock # NextBlock
         /\ FreeBlocks(2) = {FreeBlock, NextBlock}
  <1> DEFINE F == Blk \ bbm
  <1>1. Cardinality(F) \in Nat /\ F \subseteq Nat
    BY Finite, Counts
  <1>2. FreeBlock \in F /\ FreeBlocks(1) = {FreeBlock} /\ FreeBlock \in Nat
        /\ \A c \in F \ {FreeBlock} : FreeBlock < c
    <2>1. Cardinality(F) >= 1
      BY <1>1
    <2>2. FreeBlock \in F /\ FreeBlocks(1) = {FreeBlock}
      BY <2>1, FreeBlockIs
    <2> QED BY <2>1, <2>2, <1>1, FreeBlocksAre
  <1>3. /\ FreeBlocks(2) \subseteq F /\ Cardinality(FreeBlocks(2)) = 2
        /\ \A b \in FreeBlocks(2), c \in F \ FreeBlocks(2) : b < c
        /\ IsFiniteSet(FreeBlocks(2))
    BY FreeBlocksAre
  <1>4. FreeBlock \in FreeBlocks(2)
    <2> SUFFICES ASSUME FreeBlock \notin FreeBlocks(2) PROVE FALSE
      OBVIOUS
    <2>1. FreeBlocks(2) # {}
      BY <1>3, FS_EmptySet
    <2>2. PICK b \in FreeBlocks(2) : TRUE
      BY <2>1
    <2>3. b < FreeBlock /\ FreeBlock < b /\ b \in Nat
      BY <1>2, <1>3, <1>1, <2>2
    <2> QED BY <2>3, <1>2
  <1>5. PICK c : FreeBlocks(2) \ {FreeBlock} = {c}
    <2>1. IsFiniteSet(FreeBlocks(2) \ {FreeBlock}) /\ Cardinality(FreeBlocks(2) \ {FreeBlock}) = 1
      BY <1>3, <1>4, FS_RemoveElement
    <2> QED BY <2>1, FS_Singleton
  <1>6. FreeBlocks(2) = {FreeBlock, c} /\ FreeBlock # c /\ c \in F /\ c \in Nat /\ FreeBlock < c
    BY <1>1, <1>2, <1>3, <1>4, <1>5
  <1>7. Max({FreeBlock, c}) = c
    <2> {FreeBlock, c} \subseteq Nat
      BY <1>6, <1>2
    <2> QED BY <1>6, MostIs
  <1> QED BY <1>6, <1>2, <1>7 DEF NextBlock

(* GetFreeInode names an inode that is free.                               *)
LEMMA FreeInodeIs ==
  ASSUME Cardinality(Ino \ ibm) >= 1
  PROVE  FreeInode \in Ino \ ibm
  <1>1. Ino \ ibm # {}
    BY FS_EmptySet
  <1>2. Ino \ ibm \subseteq Nat
    BY Counts
  <1> QED BY <1>1, <1>2, LeastIs DEF FreeInode

(* The order of an inode's entries.                                        *)
Before(p, q) == p[1] < q[1] \/ (p[1] = q[1] /\ p[2] <= q[2])

(* First finds the one place that is before all others, if there is any.   *)
LEMMA FirstIs ==
  ASSUME NEW n \in Nat, NEW P \in SUBSET ((1 .. n) \X Slot)
  PROVE  /\ First(P) \subseteq P
         /\ P = {} => First(P) = {}
         /\ P # {} => \E p \in P : First(P) = {p}
         /\ \A p \in First(P) : First(P) = {p}
         /\ \A p \in First(P) : \A q \in P : Before(p, q)
         /\ \A p \in P : (\A q \in P : Before(p, q)) => First(P) = {p}
  <1>1. \A p \in P : p[1] \in Nat /\ p[2] \in Nat /\ p = <<p[1], p[2]>>
    <2> SUFFICES ASSUME NEW p \in P PROVE p[1] \in Nat /\ p[2] \in Nat /\ p = <<p[1], p[2]>>
      OBVIOUS
    <2>1. p \in (1 .. n) \X Slot
      OBVIOUS
    <2>2. PICK k \in 1 .. n, s \in Slot : p = <<k, s>>
      BY <2>1
    <2>3. k \in Nat /\ s \in Nat
      BY Counts
    <2> QED BY <2>2, <2>3
  <1>2. First(P) = {p \in P : \A q \in P : Before(p, q)}
    BY DEF First, Before
  <1>3. ASSUME NEW p \in P, NEW q \in P, Before(p, q), Before(q, p) PROVE p = q
    <2>1. p[1] = q[1] /\ p[2] = q[2]
      BY <1>1, <1>3 DEF Before
    <2> QED BY <2>1, <1>1
  <1>4. ASSUME P # {} PROVE \E p \in P : \A q \in P : Before(p, q)
    <2> DEFINE A == {p[1] : p \in P}
               a == Min(A)
    <2>1. A \subseteq Nat /\ A # {}
      BY <1>1, <1>4
    <2>2. a \in A /\ \A m \in A : a <= m
      <3> HIDE DEF A
      <3> QED BY <2>1, LeastIs
    <2> HIDE DEF a
    <2> DEFINE C == {p[2] : p \in {q \in P : q[1] = a}}
               c == Min(C)
    <2>3. C \subseteq Nat /\ C # {}
      BY <1>1, <2>2
    <2>4. c \in C /\ \A m \in C : c <= m
      <3> HIDE DEF C
      <3> QED BY <2>3, LeastIs
    <2> HIDE DEF c
    <2>5. PICK p \in P : p[1] = a /\ p[2] = c
      BY <2>4
    <2>6. ASSUME NEW q \in P PROVE Before(p, q)
      <3>1. a <= q[1] /\ q[1] \in Nat /\ a \in Nat /\ (q[1] = a => c <= q[2])
        BY <2>2, <2>4, <1>1, <2>5
      <3> QED BY <3>1, <2>5 DEF Before
    <2> QED BY <2>6
  <1> QED BY <1>2, <1>3, <1>4

-----------------------------------------------------------------------------
(* What an entry can hold.                                                 *)
AnyName  == Name \cup {"", ".", "..", "data"}
AnyEntry == [name : AnyName, ino : Ino, dir : BOOLEAN]
NBlocks(i) == Len(ino[i].i_block)

(* The types of the variables.                                             *)
Typed ==
  /\ ino \in [Ino -> [dir : BOOLEAN, i_block : Seq(Blk)]] /\ ino[Root].i_block # <<>>
  /\ blk \in [Blk -> [Slot -> AnyEntry]]
  /\ ibm \subseteq Ino /\ Root \in ibm /\ bbm \subseteq Blk
  /\ fdt \in [Fd -> [valid : BOOLEAN, offset : Nat, inodeNo : Ino]]
  /\ odd \in BOOLEAN

(* An entry with a name names an inode in use that is not the root and, if *)
(* it is a directory, has a block; no two entries name the same. This      *)
(* holds after calls, too, that should not be made.                        *)
Known ==
  /\ \A b \in Blk, s \in Slot : blk[b][s].name \in Name =>
       /\ blk[b][s].ino \in ibm \ {Root}
       /\ blk[b][s].dir => ino[blk[b][s].ino].i_block # <<>>
  /\ \A b, c \in Blk, s, t \in Slot :
       /\ blk[b][s].name \in Name /\ blk[c][t].name \in Name
       /\ blk[b][s].ino = blk[c][t].ino
       => b = c /\ s = t

(* The blocks of an inode are a sequence.                                  *)
LEMMA SeqBlocks ==
  ASSUME Typed, NEW i \in Ino
  PROVE  /\ NBlocks(i) \in Nat /\ ino[i].i_block \in Seq(Blk)
         /\ ino[i].i_block \in [1 .. NBlocks(i) -> Blk]
         /\ \A k \in 1 .. NBlocks(i) : ino[i].i_block[k] \in Blk
         /\ Places(i) = (1 .. NBlocks(i)) \X Slot
         /\ ino[i].i_block # <<>> => NBlocks(i) >= 1 /\ 1 \in 1 .. NBlocks(i)
  <1>1. ino[i].i_block \in Seq(Blk)
    BY DEF Typed
  <1> QED BY <1>1 DEF NBlocks, Places

(* A place of an inode is an entry of one of its blocks.                   *)
LEMMA PlaceIs ==
  ASSUME Typed, NEW i \in Ino, NEW p \in Places(i)
  PROVE  /\ p[1] \in 1 .. NBlocks(i) /\ p[2] \in Slot /\ p = <<p[1], p[2]>>
         /\ ino[i].i_block[p[1]] \in Blk
         /\ At(i, p) = blk[ino[i].i_block[p[1]]][p[2]]
         /\ At(i, p) \in AnyEntry
  <1>1. PICK k \in 1 .. NBlocks(i), s \in Slot : p = <<k, s>>
    BY SeqBlocks
  <1>2. ino[i].i_block[k] \in Blk
    BY SeqBlocks
  <1>3. At(i, p) = blk[ino[i].i_block[p[1]]][p[2]]
    BY DEF At
  <1>4. blk[ino[i].i_block[k]][s] \in AnyEntry
    BY <1>2 DEF Typed
  <1> QED BY <1>1, <1>2, <1>3, <1>4

(* First, of places of an inode.                                           *)
LEMMA FirstPlace ==
  ASSUME Typed, NEW i \in Ino, NEW P \in SUBSET Places(i)
  PROVE  /\ First(P) \subseteq P
         /\ P = {} => First(P) = {}
         /\ P # {} => \E p \in P : First(P) = {p}
         /\ \A p \in First(P) : First(P) = {p}
         /\ \A p \in First(P) : \A q \in P : Before(p, q)
         /\ \A p \in P : (\A q \in P : Before(p, q)) => First(P) = {p}
  <1>1. NBlocks(i) \in Nat /\ P \in SUBSET ((1 .. NBlocks(i)) \X Slot)
    BY SeqBlocks
  <1> QED BY <1>1, FirstIs

(* Named, of an inode.                                                     *)
LEMMA NamedAre ==
  ASSUME Typed, NEW i \in Ino, NEW n, NEW dirs
  PROVE  /\ Named(i, n, dirs) \in SUBSET Places(i)
         /\ First(Named(i, n, dirs)) \subseteq Named(i, n, dirs)
         /\ \A p \in Named(i, n, dirs) : At(i, p).name = n /\ At(i, p).dir \in dirs
  <1>1. Named(i, n, dirs) \in SUBSET Places(i)
    BY DEF Named
  <1> QED BY <1>1, FirstPlace DEF Named

(* A path has one name or two, and GetEntryPath is its first name or       *)
(* nothing.                                                                *)
LEMMA PathIs ==
  ASSUME NEW p \in Path
  PROVE  /\ Len(p) \in {1, 2} /\ p[Len(p)] \in Name /\ p[1] \in Name
         /\ GetEntryPath(p) # <<>> => GetEntryPath(p)[1] = p[1] /\ Len(p) = 2
         /\ Len(p) = 2 /\ p[1] # p[2] => GetEntryPath(p) # <<>>
         /\ Len(p) = 1 => GetEntryPath(p) = <<>>
  <1>1. CASE p \in {<<n>> : n \in Name}
    <2>1. PICK n \in Name : p = <<n>>
      BY <1>1
    <2> QED BY <2>1 DEF GetEntryPath
  <1>2. CASE p \in Name \X Name
    <2>1. PICK m \in Name, n \in Name : p = <<m, n>>
      BY <1>2
    <2>2. Len(p) = 2 /\ p[1] = m /\ p[2] = n
      BY <2>1
    <2>3. SubSeq(p, 1, Len(p) - 1) # <<>> /\ SubSeq(p, 1, Len(p) - 1)[1] = p[1]
      <3>1. Len(p) - 1 = 1 /\ p \in Seq({m, n})
        BY <2>2, <2>1
      <3>2. Len(SubSeq(p, 1, 1)) = 1 /\ SubSeq(p, 1, 1)[1] = p[1]
        BY <3>1, <2>1, <2>2
      <3>3. SubSeq(p, 1, Len(p) - 1) = SubSeq(p, 1, 1)
        BY <3>1
      <3>4. SubSeq(p, 1, 1) # <<>>
        <4> DEFINE q == SubSeq(p, 1, 1)
        <4>1. Len(q) = 1
          BY <3>2
        <4> HIDE DEF q
        <4>2. q # <<>>
          BY <4>1
        <4> QED BY <4>2 DEF q
      <3> QED BY <3>2, <3>3, <3>4
    <2> QED BY <2>2, <2>3 DEF GetEntryPath
  <1> QED BY <1>1, <1>2 DEF Path

(* GetEntryPath leads to an inode in use that has blocks: the root, or a   *)
(* directory named there.                                                  *)
LEMMA WalkIs ==
  ASSUME Typed, Known, NEW p \in Path, NEW d \in Walk(GetEntryPath(p))
  PROVE  /\ d \in ibm /\ d \in Ino /\ ino[d].i_block # <<>>
         /\ d = Root \/ \E q \in Places(Root) : At(Root, q).name = p[1] /\ At(Root, q).dir /\ d = At(Root, q).ino
  <1>1. CASE GetEntryPath(p) = <<>>
    <2>1. d = Root
      BY <1>1 DEF Walk
    <2> QED BY <2>1 DEF Typed
  <1>2. CASE GetEntryPath(p) # <<>>
    <2>1. GetEntryPath(p)[1] = p[1]
      BY <1>2, PathIs
    <2>2. d \in Child(Root, p[1])
      BY <1>2, <2>1 DEF Walk
    <2>3. Root \in Ino
      BY DEF Typed
    <2>4. PICK q \in First(Named(Root, p[1], {TRUE})) : d = At(Root, q).ino
      BY <2>2 DEF Child
    <2>5. q \in Places(Root) /\ At(Root, q).name = p[1] /\ At(Root, q).dir
      <3>1. q \in Named(Root, p[1], {TRUE})
        BY <2>3, <2>4, NamedAre
      <3>2. q \in Places(Root) /\ At(Root, q).name = p[1] /\ At(Root, q).dir \in {TRUE}
        BY <3>1 DEF Named
      <3> QED BY <3>2
    <2>6. /\ ino[Root].i_block[q[1]] \in Blk /\ q[2] \in Slot
          /\ At(Root, q) = blk[ino[Root].i_block[q[1]]][q[2]]
      BY <2>3, <2>5, PlaceIs
    <2>7. p[1] \in Name
      BY PathIs
    <2>8. d \in ibm /\ ino[d].i_block # <<>>
      BY <2>4, <2>5, <2>6, <2>7 DEF Known
    <2> QED BY <2>4, <2>5, <2>8 DEF Typed
  <1> QED BY <1>1, <1>2

(* So it does when a directory that is missing is passed over.             *)
LEMMA WalkOverIs ==
  ASSUME Typed, Known, NEW p \in Path, NEW d \in WalkOver(GetEntryPath(p))
  PROVE  /\ d \in ibm /\ d \in Ino /\ ino[d].i_block # <<>>
         /\ d = Root \/ \E q \in Places(Root) : At(Root, q).name = p[1] /\ At(Root, q).dir /\ d = At(Root, q).ino
  BY WalkIs DEF WalkOver, Typed

-----------------------------------------------------------------------------
(* Where there is room, what the bitmaps name is free.                     *)
LEMMA RoomFor ==
  ASSUME NEW a \in Nat, NEW b \in Nat, Room(a, b), Typed
  PROVE  /\ a >= 1 => FreeInode \in Ino \ ibm /\ FreeInode # Root
         /\ b >= 1 => FreeBlock \in Blk \ bbm /\ FreeBlocks(1) = {FreeBlock}
         /\ b >= 2 => /\ NextBlock \in Blk \ bbm /\ FreeBlock # NextBlock
                      /\ FreeBlocks(2) = {FreeBlock, NextBlock}
         /\ Cardinality(Blk \ bbm) >= b
  <1>1. Cardinality(Ino \ ibm) \in Nat /\ Cardinality(Blk \ bbm) \in Nat
    BY Finite
  <1>2. Cardinality(Ino \ ibm) >= a /\ Cardinality(Blk \ bbm) >= b
    BY DEF Room
  <1>3. ASSUME a >= 1 PROVE FreeInode \in Ino \ ibm /\ FreeInode # Root
    <2>1. Cardinality(Ino \ ibm) >= 1
      BY <1>1, <1>2, <1>3
    <2> QED BY <2>1, FreeInodeIs DEF Typed
  <1>4. ASSUME b >= 1 PROVE FreeBlock \in Blk \ bbm /\ FreeBlocks(1) = {FreeBlock}
    <2>1. Cardinality(Blk \ bbm) >= 1
      BY <1>1, <1>2, <1>4
    <2> QED BY <2>1, FreeBlockIs
  <1>5. ASSUME b >= 2 PROVE /\ NextBlock \in Blk \ bbm /\ FreeBlock # NextBlock
                            /\ FreeBlocks(2) = {FreeBlock, NextBlock}
    <2>1. Cardinality(Blk \ bbm) >= 2
      BY <1>1, <1>2, <1>5
    <2> QED BY <2>1, NextBlockIs
  <1> QED BY <1>2, <1>3, <1>4, <1>5

(* The descriptor that is taken was not in use.                            *)
LEMMA UnusedIs ==
  ASSUME Unused # {}
  PROVE  Min(Unused) \in Fd /\ ~fdt[Min(Unused)].valid
  <1>1. Unused \in SUBSET Nat
    BY Counts DEF Unused
  <1>2. Min(Unused) \in Unused
    BY <1>1, LeastIs
  <1> QED BY <1>2 DEF Unused

(* The descriptor g is given to inode i.                                    *)
Gives(g, i) ==
  /\ g \in Fd /\ ~fdt[g].valid
  /\ fdt'[g].valid /\ fdt'[g].inodeNo = i
  /\ \A h \in Fd \ {g} : fdt'[h] = fdt[h]

(* The type of fileDescTable.                                              *)
TypedFdt == fdt \in [Fd -> [valid : BOOLEAN, offset : Nat, inodeNo : Ino]]

(* An entry has the parts it is made of.                                   *)
LEMMA EntryIs ==
  ASSUME NEW n \in AnyName, NEW i \in Ino, NEW x \in BOOLEAN
  PROVE  /\ Entry(n, i, x) \in AnyEntry
         /\ Entry(n, i, x).name = n /\ Entry(n, i, x).ino = i /\ Entry(n, i, x).dir = x
  BY DEF Entry, AnyEntry

(* The entry e names inode i, a file or a directory.                         *)
IsFile(e, n, i) == e.name = n /\ e.ino = i /\ ~e.dir
IsDir(e, n, i)  == e.name = n /\ e.ino = i /\ e.dir

(* Entry makes one or the other.                                           *)
LEMMA EntryOf ==
  ASSUME NEW n, NEW i
  PROVE  IsFile(Entry(n, i, FALSE), n, i) /\ IsDir(Entry(n, i, TRUE), n, i)
  BY DEF Entry, IsFile, IsDir

(* No name is one of those with a meaning.                                 *)
LEMMA Special ==
  /\ {"", ".", "..", "data"} \subseteq AnyName /\ Name \subseteq AnyName
  /\ "" \notin Name /\ "." \notin Name /\ ".." \notin Name /\ "data" \notin Name
  BY NameAssumption DEF AnyName

(* Append, element by element.                                             *)
LEMMA AppendIs ==
  ASSUME NEW S, NEW s \in Seq(S), NEW x \in S
  PROVE  /\ Append(s, x) \in Seq(S) /\ Append(s, x) # <<>>
         /\ Len(Append(s, x)) = Len(s) + 1 /\ Len(s) \in Nat
         /\ \A k \in 1 .. Len(s) : Append(s, x)[k] = s[k]
         /\ Append(s, x)[Len(s) + 1] = x
  OBVIOUS

(* MakeInSlot's change of the blocks: one entry of b, and the first two of *)
(* f.                                                                      *)
TwoWritten(h, b, s, x, f, D) ==
  [h EXCEPT ![b][s] = x, ![f] = [t \in Slot |-> IF t <= 2 THEN D[t] ELSE @[t]]]

(* What is in the blocks after it.                                         *)
LEMMA TwoWrites ==
  ASSUME NEW h \in [Blk -> [Slot -> AnyEntry]], NEW b \in Blk, NEW f \in Blk, NEW s \in Slot,
         NEW x \in AnyEntry, NEW D \in [Slot -> AnyEntry]
  PROVE  LET r == TwoWritten(h, b, s, x, f, D) IN
         /\ r \in [Blk -> [Slot -> AnyEntry]]
         /\ r[f][1] = D[1] /\ r[f][2] = D[2]
         /\ \A c \in Blk, t \in Slot : ~(c = f /\ t \in {1, 2}) =>
              /\ c # b \/ t # s => r[c][t] = h[c][t]
              /\ c = b /\ t = s => r[c][t] = x
  <1> DEFINE r == TwoWritten(h, b, s, x, f, D)
             k == [h EXCEPT ![b][s] = x]
  <1>1. r = [h EXCEPT ![b][s] = x, ![f] = [t \in Slot |-> IF t <= 2 THEN D[t] ELSE @[t]]]
    BY DEF TwoWritten
  <1> HIDE DEF r
  <1>2. /\ \A t \in Slot : r[f][t] = IF t <= 2 THEN D[t] ELSE k[f][t]
        /\ r[f] = [t \in Slot |-> IF t <= 2 THEN D[t] ELSE k[f][t]]
        /\ \A c \in Blk : c # f => r[c] = k[c]
        /\ r = [c \in Blk |-> r[c]]
    <2>1. \A t \in Slot : r[f][t] = IF t <= 2 THEN D[t] ELSE k[f][t]
      BY <1>1
    <2>2. r[f] = [t \in Slot |-> IF t <= 2 THEN D[t] ELSE k[f][t]]
      BY <1>1
    <2>3. \A c \in Blk : c # f => r[c] = k[c]
      BY <1>1
    <2>4. r = [c \in Blk |-> r[c]]
      BY <1>1
    <2> HIDE DEF k
    <2> QED BY <2>1, <2>2, <2>3, <2>4
  <1>3. /\ k \in [Blk -> [Slot -> AnyEntry]]
        /\ \A c \in Blk, t \in Slot : k[c][t] = IF c = b /\ t = s THEN x ELSE h[c][t]
    OBVIOUS
  <1> HIDE DEF k
  <1>4. \A c \in Blk : r[c] \in [Slot -> AnyEntry]
    <2>1. r[f] \in [Slot -> AnyEntry]
      BY <1>2, <1>3
    <2> QED BY <1>2, <1>3, <2>1
  <1>5. r \in [Blk -> [Slot -> AnyEntry]]
    BY <1>2, <1>4
  <1>6. ASSUME NEW c \in Blk, NEW t \in Slot, ~(c = f /\ t \in {1, 2}) PROVE r[c][t] = k[c][t]
    <2>1. t \in Nat /\ (t <= 2 => t \in {1, 2})
      BY DEF Slot
    <2> QED BY <1>2, <1>6, <2>1
  <1>7. r[f][1] = D[1] /\ r[f][2] = D[2]
    <2>1. 1 \in Slot /\ 2 \in Slot
      BY Counts
    <2> QED BY <1>2, <2>1
  <1>8. \A c \in Blk, t \in Slot : ~(c = f /\ t \in {1, 2}) =>
              /\ c # b \/ t # s => r[c][t] = h[c][t]
              /\ c = b /\ t = s => r[c][t] = x
    BY <1>3, <1>6
  <1> QED BY <1>5, <1>7, <1>8 DEF r

(* The file i is made: its entry is in slot s of b, its block is f.         *)
FileMade(n, i, f, b, s) ==
  /\ i \in Ino \ ibm /\ i # Root /\ f \in Blk \ bbm /\ b \in Blk /\ s \in Slot
  /\ IsFile(blk'[b][s], n, i)
  /\ \A c \in Blk, t \in Slot : c # b \/ t # s => blk'[c][t] = blk[c][t]
  /\ ~ino'[i].dir /\ ino'[i].i_block = <<f>>
  /\ \A j \in Ino \ {i} : ino'[j] = ino[j]
  /\ ibm' = ibm \cup {i} /\ bbm' = bbm \cup {f} /\ odd' = odd
  /\ \E g \in Fd : Gives(g, i)
  /\ Typed'

(* CreateInSlot makes a file.                                              *)
LEMMA CreateInSlotDoes ==
  ASSUME Typed, NEW d \in Ino, NEW p \in Places(d), NEW n \in Name, CreateInSlot(d, p, n),
         NEW i, i = FreeInode, NEW f, f = FreeBlock, NEW b, b = ino[d].i_block[p[1]]
  PROVE  FileMade(n, i, f, b, p[2])
  <1>1. Room(1, 1) /\ Unused # {}
    BY DEF CreateInSlot
  <1>2. i \in Ino \ ibm /\ i # Root /\ f \in Blk \ bbm
    BY <1>1, RoomFor
  <1>3. b \in Blk /\ p[2] \in Slot
    BY PlaceIs
  <1>4. /\ blk' = [blk EXCEPT ![b][p[2]] = Entry(n, i, FALSE)]
        /\ ino' = [ino EXCEPT ![i] = [dir |-> FALSE, i_block |-> <<f>>]]
        /\ ibm' = ibm \cup {i} /\ bbm' = bbm \cup {f} /\ odd' = odd
        /\ fdt' = [fdt EXCEPT ![Min(Unused)].valid = TRUE, ![Min(Unused)].inodeNo = i]
    BY DEF CreateInSlot
  <1>5. Entry(n, i, FALSE) \in AnyEntry
    BY <1>2, Special, EntryIs
  <1>6. /\ blk' \in [Blk -> [Slot -> AnyEntry]]
        /\ blk'[b][p[2]] = Entry(n, i, FALSE)
        /\ \A c \in Blk, t \in Slot : c # b \/ t # p[2] => blk'[c][t] = blk[c][t]
    BY <1>3, <1>4, <1>5 DEF Typed
  <1>7. /\ ino' \in [Ino -> [dir : BOOLEAN, i_block : Seq(Blk)]]
        /\ ino'[i] = [dir |-> FALSE, i_block |-> <<f>>]
        /\ \A j \in Ino \ {i} : ino'[j] = ino[j]
    BY <1>2, <1>4 DEF Typed
  <1>8. Min(Unused) \in Fd /\ ~fdt[Min(Unused)].valid
    BY <1>1, UnusedIs
  <1>9. TypedFdt' /\ Gives(Min(Unused), i)
    BY <1>2, <1>4, <1>8 DEF Typed, TypedFdt, Gives
  <1>10. Typed'
    BY <1>2, <1>4, <1>6, <1>7, <1>9 DEF Typed, TypedFdt
  <1>11. IsFile(blk'[b][p[2]], n, i)
    BY <1>6, EntryOf
  <1>12. /\ ibm' = ibm \cup {i} /\ bbm' = bbm \cup {f} /\ odd' = odd
         /\ \A c \in Blk, t \in Slot : c # b \/ t # p[2] => blk'[c][t] = blk[c][t]
    BY <1>4, <1>6
  <1> QED BY <1>2, <1>3, <1>7, <1>8, <1>9, <1>10, <1>11, <1>12 DEF FileMade

(* Directory d grows by f, which names i.                                   *)
FileAdded(d, n, i, f) ==
  /\ i \in Ino \ ibm /\ i # Root /\ f \in Blk \ bbm
  /\ IsFile(blk'[f][1], n, i)
  /\ \A c \in Blk, t \in Slot : c # f \/ t # 1 => blk'[c][t] = blk[c][t]
  /\ \A j \in Ino \ {d} : ino'[j] = ino[j]
  /\ ino'[d].i_block # <<>>
  /\ ibm' = ibm \cup {i} /\ odd'
  /\ Typed'

(* CreateInBlock adds one to a block that is new.                          *)
LEMMA CreateInBlockDoes ==
  ASSUME Typed, NEW d \in Ino, NEW n \in Name, CreateInBlock(d, n), ino[d].i_block # <<>>,
         NEW i, i = FreeInode, NEW f, f = FreeBlock
  PROVE  FileAdded(d, n, i, f)
  <1>1. Room(1, 1)
    BY DEF CreateInBlock
  <1>2. i \in Ino \ ibm /\ i # Root /\ f \in Blk \ bbm
    BY <1>1, RoomFor
  <1>3. /\ blk' = [blk EXCEPT ![f][1] = Entry(n, i, FALSE)]
        /\ ino' = [ino EXCEPT ![d].i_block = Append(@, f)]
        /\ ibm' = ibm \cup {i} /\ bbm' = bbm \cup {f} /\ odd' = TRUE /\ fdt' = fdt
    BY DEF CreateInBlock
  <1>4. Entry(n, i, FALSE) \in AnyEntry
    BY <1>2, Special, EntryIs
  <1>5. /\ blk' \in [Blk -> [Slot -> AnyEntry]]
        /\ blk'[f][1] = Entry(n, i, FALSE)
        /\ \A c \in Blk, t \in Slot : c # f \/ t # 1 => blk'[c][t] = blk[c][t]
    BY <1>2, <1>3, <1>4, Counts DEF Typed
  <1>6. Append(ino[d].i_block, f) \in Seq(Blk) /\ Append(ino[d].i_block, f) # <<>>
    <2>1. ino[d].i_block \in Seq(Blk)
      BY SeqBlocks
    <2> QED BY <1>2, <2>1
  <1>7. /\ ino' \in [Ino -> [dir : BOOLEAN, i_block : Seq(Blk)]]
        /\ ino'[d].i_block # <<>>
        /\ \A j \in Ino \ {d} : ino'[j] = ino[j]
    <2> HIDE DEF Blocks
    <2> QED BY <1>3, <1>6 DEF Typed
  <1>8. Typed'
    BY <1>2, <1>3, <1>5, <1>7 DEF Typed
  <1>9. IsFile(blk'[f][1], n, i)
    BY <1>5, EntryOf
  <1>10. /\ ibm' = ibm \cup {i} /\ odd'
         /\ \A c \in Blk, t \in Slot : c # f \/ t # 1 => blk'[c][t] = blk[c][t]
    BY <1>3, <1>5
  <1> QED BY <1>2, <1>7, <1>8, <1>9, <1>10 DEF FileAdded

(* The first entries of a new directory.                                   *)
LEMMA DotsIs ==
  ASSUME NEW i \in Ino, NEW d \in Ino
  PROVE  /\ Dots(i, d) \in [Slot -> AnyEntry]
         /\ IsDir(Dots(i, d)[1], ".", i) /\ IsDir(Dots(i, d)[2], "..", d)
         /\ \A t \in Slot : Dots(i, d)[t].name \in {"", ".", ".."} /\ (t # 1 /\ t # 2 => Dots(i, d)[t].name = "")
  <1>1. Entry(".", i, TRUE) \in AnyEntry /\ Entry("..", d, TRUE) \in AnyEntry /\ Empty \in AnyEntry
        /\ Empty.name = "" /\ Entry(".", i, TRUE).name = "." /\ Entry("..", d, TRUE).name = ".."
    BY EntryIs, Special, Counts DEF Empty
  <1>2. Dots(i, d) = [s \in Slot |-> IF s = 1 THEN Entry(".", i, TRUE)
                                   ELSE IF s = 2 THEN Entry("..", d, TRUE) ELSE Empty]
    BY DEF Dots
  <1> HIDE DEF Dots
  <1>3. Dots(i, d) \in [Slot -> AnyEntry]
    BY <1>1, <1>2
  <1>4. Dots(i, d)[1] = Entry(".", i, TRUE) /\ Dots(i, d)[2] = Entry("..", d, TRUE)
    BY <1>2, Counts
  <1>5. ASSUME NEW t \in Slot
        PROVE Dots(i, d)[t].name \in {"", ".", ".."} /\ (t # 1 /\ t # 2 => Dots(i, d)[t].name = "")
    <2>1. Dots(i, d)[t] \in {Entry(".", i, TRUE), Entry("..", d, TRUE), Empty}
          /\ (t # 1 /\ t # 2 => Dots(i, d)[t] = Empty)
      BY <1>2
    <2> QED BY <2>1, <1>1
  <1>6. IsDir(Dots(i, d)[1], ".", i) /\ IsDir(Dots(i, d)[2], "..", d)
    BY <1>4, EntryOf
  <1> QED BY <1>3, <1>5, <1>6

(* What a directory says it is, is an inode.                               *)
LEMMA SelfIs ==
  ASSUME Typed, NEW d \in Ino, ino[d].i_block # <<>>
  PROVE  Self(d) \in Ino
  <1>1. ino[d].i_block[1] \in Blk /\ 1 \in Slot
    BY SeqBlocks, Counts
  <1>2. blk[ino[d].i_block[1]][1] \in AnyEntry
    <2>1. blk[ino[d].i_block[1]] \in [Slot -> AnyEntry]
      BY <1>1 DEF Typed
    <2> QED BY <1>1, <2>1
  <1> QED BY <1>2 DEF Self, AnyEntry

(* The directory i is made: its entry is in slot s of b, its block is f.    *)
DirMade(d, n, i, f, b, s) ==
  /\ i \in Ino \ ibm /\ i # Root /\ f \in Blk \ bbm /\ b \in Blk /\ s \in Slot
  /\ IsDir(blk'[f][1], ".", i) /\ IsDir(blk'[f][2], "..", Self(d))
  /\ b # f => IsDir(blk'[b][s], n, i)
  /\ \A c \in Blk, t \in Slot : ~(c = f /\ t \in {1, 2}) =>
       /\ c # b \/ t # s => blk'[c][t] = blk[c][t]
       /\ c = b /\ t = s => IsDir(blk'[c][t], n, i)
  /\ ino'[i].dir /\ ino'[i].i_block = <<f>>
  /\ \A j \in Ino \ {i} : ino'[j] = ino[j]
  /\ ibm' = ibm \cup {i} /\ bbm' = bbm \cup {f} /\ UNCHANGED <<fdt, odd>>
  /\ Typed'

(* MakeInSlot makes a directory.                                           *)
LEMMA MakeInSlotDoes ==
  ASSUME Typed, NEW d \in Ino, ino[d].i_block # <<>>, NEW p \in Places(d), NEW n \in Name,
         MakeInSlot(d, p, n), UNCHANGED <<fdt, odd>>,
         NEW i, i = FreeInode, NEW f, f = FreeBlock, NEW b, b = ino[d].i_block[p[1]]
  PROVE  DirMade(d, n, i, f, b, p[2])
  <1>1. Room(1, 1)
    BY DEF MakeInSlot
  <1>2. i \in Ino \ ibm /\ i # Root /\ f \in Blk \ bbm
    BY <1>1, RoomFor
  <1>3. b \in Blk /\ p[2] \in Slot /\ Self(d) \in Ino
    BY PlaceIs, SelfIs
  <1>4. /\ blk' = [blk EXCEPT ![b][p[2]] = Entry(n, i, TRUE),
                              ![f] = [s \in Slot |-> IF s <= 2 THEN Dots(i, Self(d))[s] ELSE @[s]]]
        /\ ino' = [ino EXCEPT ![i] = [dir |-> TRUE, i_block |-> <<f>>]]
        /\ ibm' = ibm \cup {i} /\ bbm' = bbm \cup {f}
    BY DEF MakeInSlot
  <1>5. /\ Entry(n, i, TRUE) \in AnyEntry
        /\ Dots(i, Self(d)) \in [Slot -> AnyEntry]
        /\ IsDir(Dots(i, Self(d))[1], ".", i) /\ IsDir(Dots(i, Self(d))[2], "..", Self(d))
    <2>1. Entry(n, i, TRUE) \in AnyEntry
      BY <1>2, Special, EntryIs
    <2> QED BY <1>2, <1>3, <2>1, DotsIs
  <1>6. /\ blk' \in [Blk -> [Slot -> AnyEntry]]
        /\ blk'[f][1] = Dots(i, Self(d))[1] /\ blk'[f][2] = Dots(i, Self(d))[2]
        /\ \A c \in Blk, t \in Slot : ~(c = f /\ t \in {1, 2}) =>
              /\ c # b \/ t # p[2] => blk'[c][t] = blk[c][t]
              /\ c = b /\ t = p[2] => blk'[c][t] = Entry(n, i, TRUE)
    <2> DEFINE D == Dots(i, Self(d))
               x == Entry(n, i, TRUE)
    <2>1. D \in [Slot -> AnyEntry] /\ x \in AnyEntry /\ blk \in [Blk -> [Slot -> AnyEntry]] /\ f \in Blk
      BY <1>2, <1>5 DEF Typed
    <2>2. blk' = TwoWritten(blk, b, p[2], x, f, D)
      BY <1>4 DEF TwoWritten
    <2> HIDE DEF D, x
    <2>3. b \in Blk /\ p[2] \in Slot
      BY <1>3
    <2> DEFINE r == TwoWritten(blk, b, p[2], x, f, D)
    <2>4. /\ r \in [Blk -> [Slot -> AnyEntry]]
          /\ r[f][1] = D[1] /\ r[f][2] = D[2]
          /\ \A c \in Blk, t \in Slot : ~(c = f /\ t \in {1, 2}) =>
                /\ c # b \/ t # p[2] => r[c][t] = blk[c][t]
                /\ c = b /\ t = p[2] => r[c][t] = x
      BY <2>1, <2>3, TwoWrites
    <2> HIDE DEF r
    <2>5. blk' = r
      BY <2>2 DEF r
    <2>6. /\ blk' \in [Blk -> [Slot -> AnyEntry]]
          /\ blk'[f][1] = D[1] /\ blk'[f][2] = D[2]
          /\ \A c \in Blk, t \in Slot : ~(c = f /\ t \in {1, 2}) =>
                /\ c # b \/ t # p[2] => blk'[c][t] = blk[c][t]
                /\ c = b /\ t = p[2] => blk'[c][t] = x
      BY <2>4, <2>5
    <2> QED BY <2>6 DEF D, x
  <1>7. /\ IsDir(blk'[f][1], ".", i) /\ IsDir(blk'[f][2], "..", Self(d))
        /\ b # f => IsDir(blk'[b][p[2]], n, i)
        /\ \A c \in Blk, t \in Slot : ~(c = f /\ t \in {1, 2}) =>
              /\ c # b \/ t # p[2] => blk'[c][t] = blk[c][t]
              /\ c = b /\ t = p[2] => IsDir(blk'[c][t], n, i)
    <2> DEFINE x == Entry(n, i, TRUE)
               D == Dots(i, Self(d))
    <2>1. IsDir(x, n, i)
      BY EntryOf
    <2>2. IsDir(D[1], ".", i) /\ IsDir(D[2], "..", Self(d))
      BY <1>5
    <2>3. /\ blk'[f][1] = D[1] /\ blk'[f][2] = D[2]
          /\ \A c \in Blk, t \in Slot : ~(c = f /\ t \in {1, 2}) =>
                /\ c # b \/ t # p[2] => blk'[c][t] = blk[c][t]
                /\ c = b /\ t = p[2] => blk'[c][t] = x
      BY <1>6
    <2> HIDE DEF x, D
    <2> QED BY <1>3, <2>1, <2>2, <2>3
  <1>8. /\ ino' \in [Ino -> [dir : BOOLEAN, i_block : Seq(Blk)]]
         /\ ino'[i] = [dir |-> TRUE, i_block |-> <<f>>]
         /\ \A j \in Ino \ {i} : ino'[j] = ino[j]
    BY <1>2, <1>4 DEF Typed
  <1>9. Typed'
    BY <1>2, <1>4, <1>6, <1>8 DEF Typed
  <1>10. ibm' = ibm \cup {i} /\ bbm' = bbm \cup {f}
    BY <1>4
  <1> QED BY <1>2, <1>3, <1>7, <1>8, <1>9, <1>10 DEF DirMade

(* Directory d grows by f, which names i; g is the block of i.              *)
DirAdded(d, n, i, f, g) ==
  /\ i \in Ino \ ibm /\ i # Root /\ f \in Blk \ bbm /\ g \in Blk \ bbm /\ f # g
  /\ Self(d) \in Ino
  /\ IsDir(blk'[f][1], n, i) /\ blk'[g] = Dots(i, Self(d))
  /\ \A c \in Blk \ {g}, t \in Slot : c # f \/ t # 1 => blk'[c][t] = blk[c][t]
  /\ ino'[i].dir /\ ino'[i].i_block = <<g>>
  /\ \A j \in Ino \ {i} : j # Self(d) => ino'[j] = ino[j]
  /\ Self(d) # i => /\ ino'[Self(d)].dir = ino[Self(d)].dir
                    /\ ino'[Self(d)].i_block = Append(ino[Self(d)].i_block, f)
  /\ ibm' = ibm \cup {i} /\ bbm' = bbm \cup {f, g} /\ UNCHANGED <<fdt, odd>>
  /\ Typed'

(* MakeInBlock adds one to a block that is new.                            *)
LEMMA MakeInBlockDoes ==
  ASSUME Typed, NEW d \in Ino, ino[d].i_block # <<>>, NEW n \in Name,
         MakeInBlock(d, n), UNCHANGED <<fdt, odd>>,
         NEW i, i = FreeInode, NEW f, f = FreeBlock, NEW g, g = NextBlock
  PROVE  DirAdded(d, n, i, f, g)
  <1>1. Room(1, 2)
    BY DEF MakeInBlock
  <1>2. /\ i \in Ino \ ibm /\ i # Root /\ f \in Blk \ bbm /\ g \in Blk \ bbm /\ f # g
        /\ FreeBlocks(2) = {f, g}
    BY <1>1, RoomFor
  <1>3. Self(d) \in Ino
    BY SelfIs
  <1> DEFINE e == Self(d)
             a == Append(ino[e].i_block, f)
  <1>4. /\ blk' = [blk EXCEPT ![f][1] = Entry(n, i, TRUE), ![g] = Dots(i, e)]
        /\ ino' = [ino EXCEPT ![e].i_block = a,
                              ![i] = [dir |-> TRUE, i_block |-> <<g>>]]
        /\ ibm' = ibm \cup {i} /\ bbm' = bbm \cup {f, g}
    <2>1. blk' = [blk EXCEPT ![f][1] = Entry(n, i, TRUE), ![g] = Dots(i, e)]
      BY DEF MakeInBlock
    <2>2. ino' = [ino EXCEPT ![e].i_block = a,
                             ![i] = [dir |-> TRUE, i_block |-> <<g>>]]
      BY DEF MakeInBlock
    <2>3. ibm' = ibm \cup {i} /\ bbm' = bbm \cup FreeBlocks(2)
      BY DEF MakeInBlock
    <2> HIDE DEF e, a
    <2> QED BY <1>2, <2>1, <2>2, <2>3
  <1>5. Entry(n, i, TRUE) \in AnyEntry /\ Dots(i, e) \in [Slot -> AnyEntry]
    BY <1>2, <1>3, Special, EntryIs, DotsIs
  <1>6. /\ blk' \in [Blk -> [Slot -> AnyEntry]]
        /\ blk'[f][1] = Entry(n, i, TRUE) /\ blk'[g] = Dots(i, e)
        /\ \A c \in Blk \ {g}, t \in Slot : c # f \/ t # 1 => blk'[c][t] = blk[c][t]
    <2> HIDE DEF e
    <2> QED BY <1>2, <1>4, <1>5, Counts DEF Typed
  <1>7. ino[e] \in [dir : BOOLEAN, i_block : Seq(Blk)] /\ a \in Seq(Blk) /\ a # <<>>
    <2>1. ino[e].i_block \in Seq(Blk)
      BY <1>3, SeqBlocks
    <2>2. ino[e] \in [dir : BOOLEAN, i_block : Seq(Blk)]
      BY <1>3 DEF Typed
    <2>3. a \in Seq(Blk) /\ a # <<>>
      <3> HIDE DEF e
      <3>1. ino[e].i_block \in Seq(Blk) /\ f \in Blk
        BY <1>2, <2>1
      <3> QED BY <3>1, AppendIs
    <2> QED BY <2>2, <2>3
  <1>8. /\ ino' \in [Ino -> [dir : BOOLEAN, i_block : Seq(Blk)]]
        /\ ino'[i] = [dir |-> TRUE, i_block |-> <<g>>]
        /\ \A j \in Ino \ {i} : j # e => ino'[j] = ino[j]
        /\ e # i => ino'[e].dir = ino[e].dir /\ ino'[e].i_block = a
    <2> HIDE DEF e, a
    <2>1. [ino[e] EXCEPT !.i_block = a] \in [dir : BOOLEAN, i_block : Seq(Blk)]
      BY <1>7
    <2>2. [ino[e] EXCEPT !.i_block = a].dir = ino[e].dir /\ [ino[e] EXCEPT !.i_block = a].i_block = a
      BY <1>7
    <2>3. [dir |-> TRUE, i_block |-> <<g>>] \in [dir : BOOLEAN, i_block : Seq(Blk)]
      BY <1>2
    <2>4. e \in Ino
      BY <1>3 DEF e
    <2> DEFINE r == [ino[e] EXCEPT !.i_block = a]
    <2>5. ino' = [ino EXCEPT ![e] = r, ![i] = [dir |-> TRUE, i_block |-> <<g>>]]
      <3> ino' = [ino EXCEPT ![e].i_block = a, ![i] = [dir |-> TRUE, i_block |-> <<g>>]]
        BY <1>4
      <3> QED OBVIOUS
    <2> HIDE DEF r
    <2> QED BY <1>2, <2>1, <2>2, <2>3, <2>4, <2>5 DEF Typed, r
  <1>9. ino'[Root].i_block # <<>>
    <2> HIDE DEF a
    <2> QED BY <1>2, <1>7, <1>8, <1>3 DEF Typed
  <1>10. Typed'
    BY <1>2, <1>4, <1>6, <1>8, <1>9 DEF Typed
  <1>11. IsDir(blk'[f][1], n, i)
    BY <1>6, EntryOf
  <1>12. /\ ibm' = ibm \cup {i} /\ bbm' = bbm \cup {f, g} /\ blk'[g] = Dots(i, e)
         /\ \A c \in Blk \ {g}, t \in Slot : c # f \/ t # 1 => blk'[c][t] = blk[c][t]
    BY <1>4, <1>6
  <1> QED BY <1>2, <1>3, <1>8, <1>10, <1>11, <1>12 DEF DirAdded

(* The lesser of two numbers.                                              *)
LEMMA LesserIs ==
  ASSUME NEW a \in Nat, NEW b \in Nat
  PROVE  /\ Min({a, b}) \in {a, b} /\ Min({a, b}) <= a /\ Min({a, b}) <= b
         /\ Min({a, b}) \in Nat
  <1>1. {a, b} \in SUBSET Nat /\ {a, b} # {}
    OBVIOUS
  <1> QED BY <1>1, LeastIs

(* A number, or 0 for a negative one.                                      *)
LEMMA GreaterIs ==
  ASSUME NEW x \in Int
  PROVE  /\ Max({0, x}) \in Nat /\ (Max({0, x}) = 0 \/ Max({0, x}) = x)
         /\ Max({0, x}) >= x
  <1>1. CASE x >= 0
    <2>1. Max({0, x}) = x
      BY <1>1 DEF Max
    <2> QED BY <2>1, <1>1
  <1>2. CASE ~(x >= 0)
    <2>1. Max({0, x}) = 0
      BY <1>2 DEF Max
    <2> QED BY <2>1, <1>2
  <1> QED BY <1>1, <1>2

(* What WriteFile is to write.                                              *)
LEMMA GrownIs ==
  ASSUME Typed, NEW i \in Ino, NEW from \in Nat, NEW n \in Nat \ {0}, from < NDirect
  PROVE  /\ Grown(i, from, n) \in Nat
         /\ Min({from + n, NDirect}) \in Nat /\ Min({from + n, NDirect}) > from
  <1>1. NBlocks(i) \in Nat /\ NDirect \in Nat
    BY SeqBlocks, Counts
  <1> DEFINE m == Min({from + n, NDirect})
  <1>2. m \in {from + n, NDirect} /\ m \in Nat
    BY <1>1, LesserIs
  <1> HIDE DEF m
  <1>3. m > from
    BY <1>1, <1>2
  <1>4. m - NBlocks(i) \in Int
    BY <1>1, <1>2
  <1>5. Max({0, m - NBlocks(i)}) \in Nat
    BY <1>4, GreaterIs
  <1> QED BY <1>2, <1>3, <1>5 DEF Grown, NBlocks, m

(* WriteFile writes blocks the file has.                                   *)
LEMMA WrittenIs ==
  ASSUME Typed, NEW i \in Ino, NEW from \in Nat, NEW n \in Nat \ {0}, from < NDirect,
         NEW b \in Written(i, from, n), b \in Blk
  PROVE  \E k \in 1 .. NBlocks(i) : ino[i].i_block[k] = b
  <1>1. Min({from + n, NDirect}) \in Nat /\ NBlocks(i) \in Nat
    BY GrownIs, SeqBlocks
  <1>2. PICK k \in from .. Min({from + n, NDirect}) - 1 : b = IBlock(i, k)
    BY DEF Written
  <1>3. k \in Nat
    BY <1>1, <1>2
  <1>4. k < NBlocks(i)
    BY <1>2, Counts DEF IBlock, NBlocks, Super
  <1>5. k + 1 \in 1 .. NBlocks(i) /\ b = ino[i].i_block[k + 1]
    BY <1>1, <1>2, <1>3, <1>4 DEF IBlock, NBlocks
  <1> QED BY <1>5

(* Concatenation, element by element.                                      *)
LEMMA ConcatIs ==
  ASSUME NEW S, NEW s \in Seq(S), NEW q \in Seq(S)
  PROVE  /\ s \o q \in Seq(S) /\ Len(s \o q) = Len(s) + Len(q)
         /\ Len(s) \in Nat /\ Len(q) \in Nat
         /\ \A k \in 1 .. Len(s) : (s \o q)[k] = s[k]
         /\ \A k \in 1 .. Len(q) : (s \o q)[Len(s) + k] = q[k]
         /\ s # <<>> => s \o q # <<>>
  <1>1. /\ s \o q \in Seq(S) /\ Len(s \o q) = Len(s) + Len(q)
        /\ Len(s) \in Nat /\ Len(q) \in Nat
        /\ \A k \in 1 .. Len(s) : (s \o q)[k] = s[k]
        /\ \A k \in 1 .. Len(q) : (s \o q)[Len(s) + k] = q[k]
    OBVIOUS
  <1>2. ASSUME s # <<>> PROVE s \o q # <<>>
    <2>1. Len(s) # 0
      BY <1>2
    <2>2. Len(s \o q) # 0
      BY <1>1, <2>1
    <2> DEFINE r == s \o q
    <2>3. Len(r) # 0
      BY <2>2
    <2> HIDE DEF r
    <2>4. r # <<>>
      BY <2>3
    <2> QED BY <2>4 DEF r
  <1> QED BY <1>1, <1>2

(* The file i of descriptor f is written, and grows by the blocks in new.   *)
FileWritten(f, i, new) ==
  /\ fdt[f].valid /\ i \in Ino
  /\ new \subseteq Blk \ bbm /\ bbm' = bbm \cup new /\ UNCHANGED <<ibm, odd>>
  /\ \A j \in Ino \ {i} : ino'[j] = ino[j]
  /\ ino'[i].dir = ino[i].dir
  /\ ino'[i].i_block = ino[i].i_block \o InOrder(new)
  /\ \A b \in Blk : /\ blk'[b] = blk[b] \/ blk'[b] = Data
                    /\ blk'[b] # blk[b] => b \in new \/ \E k \in 1 .. NBlocks(i) : ino[i].i_block[k] = b
  /\ fdt'[f].offset > fdt[f].offset /\ fdt'[f].valid /\ fdt'[f].inodeNo = i
  /\ \A g \in Fd : fdt'[g].valid = fdt[g].valid /\ fdt'[g].inodeNo = fdt[g].inodeNo
  /\ Typed'

(* WriteFile writes the file of its descriptor.                            *)
LEMMA WriteFileDoes ==
  ASSUME Typed, NEW f \in Fd, NEW n \in 1 .. NDirect, WriteFile(f, n),
         NEW i, i = fdt[f].inodeNo, NEW new, new = FreeBlocks(Grown(i, fdt[f].offset, n))
  PROVE  FileWritten(f, i, new)
  <1> DEFINE from == fdt[f].offset
             grown == Grown(i, from, n)
             m == Min({from + n, NDirect})
  <1>1. i \in Ino /\ from \in Nat /\ n \in Nat \ {0} /\ NDirect \in Nat
    BY Counts DEF Typed
  <1>2. fdt[f].valid /\ from < NDirect /\ Room(0, grown)
    BY DEF WriteFile
  <1>3. grown \in Nat /\ m \in Nat /\ m > from
    BY <1>1, <1>2, GrownIs
  <1>4. new \subseteq Blk \ bbm
    <2>1. Cardinality(Blk \ bbm) >= grown
      BY <1>2, <1>3, RoomFor
    <2> HIDE DEF grown
    <2>2. FreeBlocks(grown) \subseteq Blk \ bbm
      BY <1>3, <2>1, FreeBlocksAre
    <2> QED BY <2>2 DEF grown
  <1> DEFINE a == ino[i].i_block \o InOrder(new)
  <1>5. a \in Seq(Blk) /\ (ino[i].i_block # <<>> => a # <<>>)
    <2>1. InOrder(new) \in Seq(Blk) /\ ino[i].i_block \in Seq(Blk)
      BY <1>1, <1>4, InOrderIs, SeqBlocks
    <2> QED BY <2>1, ConcatIs
  <1>6. /\ ino' = [ino EXCEPT ![i].i_block = a]
        /\ bbm' = bbm \cup new
        /\ fdt' = [fdt EXCEPT ![f].offset = m]
        /\ UNCHANGED <<ibm, odd>>
    BY DEF WriteFile
  <1>7. blk' = [b \in DOMAIN blk |-> IF b \in Written(i, from, n) \cup new THEN Data ELSE blk[b]]
    BY DEF WriteFile
  <1> HIDE DEF from, grown, m, a
  <1>8. Data \in [Slot -> AnyEntry]
    BY EntryIs, Special, Counts DEF Data
  <1>9. /\ blk' \in [Blk -> [Slot -> AnyEntry]]
        /\ \A b \in Blk : blk'[b] = IF b \in Written(i, from, n) \cup new THEN Data ELSE blk[b]
    BY <1>7, <1>8 DEF Typed
  <1>10. ASSUME NEW b \in Blk, blk'[b] # blk[b]
         PROVE  b \in new \/ \E k \in 1 .. NBlocks(i) : ino[i].i_block[k] = b
    BY <1>1, <1>2, <1>9, <1>10, WrittenIs
  <1>11. /\ ino' \in [Ino -> [dir : BOOLEAN, i_block : Seq(Blk)]]
         /\ ino'[i].dir = ino[i].dir /\ ino'[i].i_block = a
         /\ \A j \in Ino \ {i} : ino'[j] = ino[j]
         /\ ino'[Root].i_block # <<>>
    <2>1. ino[i] \in [dir : BOOLEAN, i_block : Seq(Blk)] /\ Root \in Ino
      BY <1>1 DEF Typed
    <2> QED BY <1>1, <1>5, <1>6, <2>1 DEF Typed
  <1>12. /\ fdt' \in [Fd -> [valid : BOOLEAN, offset : Nat, inodeNo : Ino]]
         /\ fdt'[f].offset = m /\ fdt'[f].valid = fdt[f].valid
         /\ \A g \in Fd : fdt'[g].valid = fdt[g].valid /\ fdt'[g].inodeNo = fdt[g].inodeNo
    BY <1>3, <1>6 DEF Typed
  <1>13. Typed'
    BY <1>4, <1>6, <1>9, <1>11, <1>12 DEF Typed
  <1>14. fdt'[f].offset > fdt[f].offset
    BY <1>3, <1>12 DEF from
  <1>15. \A b \in Blk : blk'[b] = blk[b] \/ blk'[b] = Data
    BY <1>9
  <1>16. ino'[i].i_block = ino[i].i_block \o InOrder(new)
    BY <1>11 DEF a
  <1> QED BY <1>1, <1>2, <1>4, <1>6, <1>10, <1>11, <1>12, <1>13, <1>14, <1>15, <1>16 DEF FileWritten

(* ReadFile moves an offset.                                               *)
LEMMA ReadFileDoes ==
  ASSUME Typed, NEW f \in Fd, NEW n \in 1 .. NDirect, ReadFile(f, n)
  PROVE  /\ UNCHANGED <<ino, blk, ibm, bbm, odd>>
         /\ \A g \in Fd : fdt'[g].valid = fdt[g].valid /\ fdt'[g].inodeNo = fdt[g].inodeNo
         /\ Typed'
  <1>1. fdt[f].offset \in Nat /\ n \in Nat /\ NDirect \in Nat /\ fdt[f].offset < NDirect
    BY Counts DEF ReadFile, Typed
  <1> DEFINE m == Min({n, NDirect - fdt[f].offset})
  <1>2. m \in Nat
    BY <1>1, LesserIs
  <1>3. fdt' = [fdt EXCEPT ![f].offset = m] /\ UNCHANGED <<ino, blk, ibm, bbm, odd>>
    BY DEF ReadFile
  <1> HIDE DEF m
  <1>4. /\ fdt' \in [Fd -> [valid : BOOLEAN, offset : Nat, inodeNo : Ino]]
        /\ \A g \in Fd : fdt'[g].valid = fdt[g].valid /\ fdt'[g].inodeNo = fdt[g].inodeNo
    BY <1>2, <1>3 DEF Typed
  <1> QED BY <1>3, <1>4 DEF Typed

(* CloseFile leaves a descriptor unused.                                   *)
LEMMA CloseFileDoes ==
  ASSUME Typed, NEW f \in Fd, CloseFile(f)
  PROVE  /\ UNCHANGED <<ino, blk, ibm, bbm, odd>>
         /\ \A g \in Fd : fdt'[g].inodeNo = fdt[g].inodeNo /\ (fdt'[g].valid => fdt[g].valid)
         /\ Typed'
  <1>1. fdt' = [fdt EXCEPT ![f].valid = FALSE] /\ UNCHANGED <<ino, blk, ibm, bbm, odd>>
    BY DEF CloseFile
  <1>2. /\ fdt' \in [Fd -> [valid : BOOLEAN, offset : Nat, inodeNo : Ino]]
        /\ \A g \in Fd : fdt'[g].inodeNo = fdt[g].inodeNo /\ (fdt'[g].valid => fdt[g].valid)
    BY <1>1 DEF Typed
  <1> QED BY <1>1, <1>2 DEF Typed

(* Mount leaves no descriptor in use.                                      *)
LEMMA RemountDoes ==
  ASSUME Typed, Remount
  PROVE  /\ UNCHANGED <<ino, blk, ibm, bbm, odd>>
         /\ \A g \in Fd : ~fdt'[g].valid
         /\ Typed'
  BY Counts DEF Typed, Remount, Closed

(* OpenFile gives a file the descriptor that names it, or one that is      *)
(* unused.                                                                 *)
LEMMA DescriptorDoes ==
  ASSUME Typed, NEW i \in Ino, Unused # {} \/ Reopened(i) # {}, Descriptor(i)
  PROVE  /\ TypedFdt'
         /\ \/ \A g \in Fd : fdt'[g].valid = fdt[g].valid /\ fdt'[g].inodeNo = fdt[g].inodeNo
            \/ /\ \E g \in Fd : Gives(g, i)
               /\ \A g \in Fd : fdt[g].inodeNo # i
  <1>2. CASE Reopened(i) # {}
    <2>1. fdt' = [fdt EXCEPT ![Min(Reopened(i))].offset = 0]
      BY <1>2 DEF Descriptor
    <2> QED BY <2>1 DEF Typed, TypedFdt
  <1>3. CASE Reopened(i) = {}
    <2>0. Min(Unused) \in Fd /\ ~fdt[Min(Unused)].valid
      BY <1>3, UnusedIs
    <2>1. fdt' = [fdt EXCEPT ![Min(Unused)] = [valid |-> TRUE, offset |-> 0, inodeNo |-> i]]
      BY <1>3 DEF Descriptor
    <2>2. \A g \in Fd : fdt[g].inodeNo # i
      BY <1>3 DEF Reopened
    <2>3. TypedFdt' /\ Gives(Min(Unused), i)
      BY <2>0, <2>1 DEF Typed, TypedFdt, Gives
    <2> QED BY <2>0, <2>2, <2>3
  <1> QED BY <1>2, <1>3

(* RemoveFile finds an entry of the path's last name, or of its first that  *)
(* is a directory, in the root or in an inode named there.                  *)
LEMMA TargetIs ==
  ASSUME Typed, NEW p \in Path, NEW t \in Target(p)
  PROVE  /\ t[2] \in Ino /\ t[1] \in Places(t[2]) /\ t = <<t[1], t[2]>>
         /\ \E c, n \in Name : t[1] \in First(Named(t[2], c, {TRUE}) \cup Named(t[2], n, {FALSE}))
  <1>1. Root \in Ino /\ p[1] \in Name /\ p[Len(p)] \in Name /\ Len(p) \in {1, 2}
    BY PathIs DEF Typed
  <1>2. ASSUME NEW i \in Ino, NEW c \in Name, NEW n \in Name, NEW h \in Hits(i, c, n)
        PROVE  /\ h[2] = i /\ h[1] \in Places(i) /\ h = <<h[1], h[2]>> /\ At(i, h[1]).ino \in Ino
               /\ h[1] \in First(Named(i, c, {TRUE}) \cup Named(i, n, {FALSE}))
    <2> DEFINE P == Named(i, c, {TRUE}) \cup Named(i, n, {FALSE})
    <2>1. P \in SUBSET Places(i)
      BY DEF Named
    <2>2. First(P) \subseteq P
      <3> HIDE DEF P
      <3> QED BY <2>1, FirstPlace
    <2>3. h \in First(P) \X {i}
      BY DEF Hits
    <2>4. h[2] = i /\ h[1] \in First(P) /\ h = <<h[1], h[2]>>
      <3> HIDE DEF P
      <3> QED BY <2>3
    <2>5. h[1] \in Places(i)
      <3> HIDE DEF P
      <3> QED BY <2>1, <2>2, <2>4
    <2>6. At(i, h[1]) \in AnyEntry
      BY <2>5, PlaceIs
    <2> QED BY <2>4, <2>5, <2>6 DEF AnyEntry
  <1> DEFINE hit == Hits(Root, p[1], p[Len(p)])
  <1>3. ASSUME t \in hit
        PROVE  /\ t[2] \in Ino /\ t[1] \in Places(t[2]) /\ t = <<t[1], t[2]>>
               /\ \E c, n \in Name : t[1] \in First(Named(t[2], c, {TRUE}) \cup Named(t[2], n, {FALSE}))
    <2> DEFINE c == p[1]
               n == p[Len(p)]
    <2>1. c \in Name /\ n \in Name /\ Root \in Ino /\ t \in Hits(Root, c, n)
      BY <1>1, <1>3
    <2> HIDE DEF c, n
    <2>2. /\ t[2] = Root /\ t[1] \in Places(Root) /\ t = <<t[1], t[2]>>
          /\ t[1] \in First(Named(Root, c, {TRUE}) \cup Named(Root, n, {FALSE}))
      BY <2>1, <1>2
    <2> QED BY <2>1, <2>2
  <1>4. CASE Len(p) = 1
    <2>1. Target(p) = hit
      BY <1>4 DEF Target
    <2> QED BY <1>3, <2>1
  <1>5. CASE Len(p) = 2
    <2> DEFINE below == IF hit = {} THEN {Root} ELSE {At(h[2], h[1]).ino : h \in hit}
    <2>1. Target(p) = UNION {IF Places(i) = {} THEN hit ELSE Hits(i, p[2], p[2]) : i \in below}
      BY <1>5 DEF Target
    <2>2. below \subseteq Ino
      <3>1. ASSUME NEW h \in hit PROVE At(h[2], h[1]).ino \in Ino
        BY <1>1, <1>2
      <3> HIDE DEF hit
      <3> QED BY <3>1, <1>1
    <2> HIDE DEF hit
    <2>3. PICK i \in below : t \in hit \/ t \in Hits(i, p[2], p[2])
      BY <2>1
    <2> HIDE DEF below
    <2>4. CASE t \in hit
      BY <1>3, <2>4
    <2>5. CASE t \in Hits(i, p[2], p[2])
      <3> DEFINE n == p[2]
      <3>1. i \in Ino /\ n \in Name /\ t \in Hits(i, n, n)
        BY <2>2, <2>3, <2>5, <1>1, <1>5
      <3> HIDE DEF n
      <3>2. /\ t[2] = i /\ t[1] \in Places(i) /\ t = <<t[1], t[2]>>
            /\ t[1] \in First(Named(i, n, {TRUE}) \cup Named(i, n, {FALSE}))
        BY <3>1, <1>2
      <3> QED BY <3>1, <3>2
    <2> QED BY <2>3, <2>4, <2>5
  <1> QED BY <1>1, <1>4, <1>5

(* The entry t is found; i is the inode it names, and S the slots of its    *)
(* block b that are emptied.                                                *)
FileRemoved(p, t, S, i, b) ==
  /\ i = At(t[2], t[1]).ino /\ b = ino[t[2]].i_block[t[1][1]]
  /\ b \in Blk /\ i \in Ino
  /\ S = IF Cardinality(Freed(i)) < NBlocks(i) THEN {}
         ELSE {s \in SlotOf(b, p[Len(p)]) : blk[b][s].ino \in ibm}
  /\ bbm' = bbm \ Freed(i)
  /\ ibm' = ibm \ {blk[b][s].ino : s \in S}
  /\ \A s \in S : blk[b][s].name = p[Len(p)]
  /\ \A s \in S : blk'[b][s] = Empty
  /\ \A c \in Blk, s \in Slot : c # b \/ s \notin S => blk'[c][s] = blk[c][s]
  /\ blk' \in [Blk -> [Slot -> AnyEntry]]
  /\ odd' = (odd \/ ino[i].dir \/ IsOpen(i))
  /\ UNCHANGED <<ino, fdt>>

(* RemoveFile removes what it finds.                                       *)
LEMMA RemoveFileDoes ==
  ASSUME Typed, NEW p \in Path, RemoveFile(p)
  PROVE  \E t \in Target(p) : \E S \in SUBSET Slot, i \in Ino, b \in Blk : FileRemoved(p, t, S, i, b)
  <1> USE DEF NBlocks
  <1>1. PICK t \in Target(p) :
          LET i == At(t[2], t[1]).ino
              b == ino[t[2]].i_block[t[1][1]]
              S == IF Cardinality(Freed(i)) < Len(ino[i].i_block) THEN {}
                   ELSE {s \in SlotOf(b, p[Len(p)]) : blk[b][s].ino \in ibm}
          IN /\ bbm' = bbm \ Freed(i)
             /\ ibm' = ibm \ {blk[b][s].ino : s \in S}
             /\ blk' = [blk EXCEPT ![b] = [s \in Slot |-> IF s \in S THEN Empty ELSE @[s]]]
             /\ odd' = (odd \/ ino[i].dir \/ IsOpen(i))
             /\ UNCHANGED <<ino, fdt>>
    BY DEF RemoveFile
  <1> DEFINE i == At(t[2], t[1]).ino
             b == ino[t[2]].i_block[t[1][1]]
             S == IF Cardinality(Freed(i)) < Len(ino[i].i_block) THEN {}
                  ELSE {s \in SlotOf(b, p[Len(p)]) : blk[b][s].ino \in ibm}
  <1>2. b \in Blk /\ i \in Ino
    <2>1. t[2] \in Ino /\ t[1] \in Places(t[2])
      BY TargetIs
    <2> QED BY <2>1, PlaceIs DEF AnyEntry
  <1>3. S \in SUBSET Slot /\ \A s \in S : blk[b][s].name = p[Len(p)]
    BY DEF SlotOf
  <1>4. blk' = [blk EXCEPT ![b] = [s \in Slot |-> IF s \in S THEN Empty ELSE blk[b][s]]]
    BY <1>1
  <1>5. Empty \in AnyEntry
    BY EntryIs, Special, Counts DEF Empty
  <1>6. /\ blk' \in [Blk -> [Slot -> AnyEntry]]
        /\ \A s \in S : blk'[b][s] = Empty
        /\ \A c \in Blk, s \in Slot : c # b \/ s \notin S => blk'[c][s] = blk[c][s]
    <2> HIDE DEF S, b
    <2> QED BY <1>2, <1>3, <1>4, <1>5 DEF Typed
  <1>7. /\ bbm' = bbm \ Freed(i)
        /\ ibm' = ibm \ {blk[b][s].ino : s \in S}
        /\ odd' = (odd \/ ino[i].dir \/ IsOpen(i))
        /\ UNCHANGED <<ino, fdt>>
    BY <1>1
  <1>8. S = IF Cardinality(Freed(i)) < NBlocks(i) THEN {}
            ELSE {s \in SlotOf(b, p[Len(p)]) : blk[b][s].ino \in ibm}
    OBVIOUS
  <1>9. i = At(t[2], t[1]).ino /\ b = ino[t[2]].i_block[t[1][1]]
    OBVIOUS
  <1> HIDE DEF S, b, i
  <1>10. FileRemoved(p, t, S, i, b)
    BY <1>2, <1>3, <1>6, <1>7, <1>8, <1>9 DEF FileRemoved
  <1> QED BY <1>2, <1>3, <1>10

(* It keeps the types: what is freed is not the root.                      *)
LEMMA RemoveFileTyped ==
  ASSUME Typed, Known, NEW p \in Path, NEW t, NEW S, NEW i, NEW b, FileRemoved(p, t, S, i, b)
  PROVE  Typed' /\ S \in SUBSET Slot
  <1>1. /\ b \in Blk /\ bbm' = bbm \ Freed(i)
        /\ ibm' = ibm \ {blk[b][s].ino : s \in S}
        /\ \A s \in S : blk[b][s].name = p[Len(p)]
        /\ blk' \in [Blk -> [Slot -> AnyEntry]]
        /\ odd' = (odd \/ ino[i].dir \/ IsOpen(i))
        /\ UNCHANGED <<ino, fdt>>
    BY DEF FileRemoved
  <1>2. S \in SUBSET Slot
    BY DEF FileRemoved, SlotOf
  <1>3. \A s \in S : blk[b][s].ino # Root
    BY <1>1, <1>2, PathIs DEF Known
  <1>4. odd' \in BOOLEAN
    BY <1>1
  <1> QED BY <1>1, <1>2, <1>3, <1>4 DEF Typed

(* Directory i, which the entry of d at q names, is removed.                *)
DirRemoved(p, d, q, i, b) ==
  /\ i = At(d, q).ino /\ b = ino[d].i_block[q[1]]
  /\ d \in ibm /\ d \in Ino /\ b \in Blk /\ i \in ibm /\ i # Root /\ i \in Ino /\ q \in Places(d) /\ q[2] \in Slot
  /\ blk[b][q[2]].name = p[Len(p)] /\ blk[b][q[2]].dir /\ blk[b][q[2]].ino = i
  /\ DirIsEmpty(i)
  /\ \A c \in Blk, s \in Slot :
       blk'[c][s] = IF c = b /\ s = q[2] THEN Empty
                    ELSE IF \E k \in 1 .. NBlocks(i) : ino[i].i_block[k] = c THEN Empty
                    ELSE blk[c][s]
  /\ bbm' = bbm \ {ino[i].i_block[k] : k \in 1 .. NBlocks(i)}
  /\ ibm' = ibm \ {i}
  /\ ino'[i] = NoInode /\ \A j \in Ino \ {i} : ino'[j] = ino[j]
  /\ UNCHANGED <<fdt, odd>>
  /\ Typed'

(* RemoveDir removes a directory that is empty.                            *)
LEMMA RemoveDirDoes ==
  ASSUME Typed, Known, NEW p \in Path, RemoveDir(p)
  PROVE  \E d, q, i, b : DirRemoved(p, d, q, i, b)
  <1> USE DEF NBlocks
  <1>1. PICK d \in Walk(GetEntryPath(p)) :
          \E q \in First({r \in Named(d, p[Len(p)], {TRUE}) : DirIsEmpty(At(d, r).ino)}) :
          LET i == At(d, q).ino
              B == {ino[i].i_block[k] : k \in 1 .. Len(ino[i].i_block)} IN
          /\ blk' = [[b \in Blk |-> IF b \in B THEN Zeroes ELSE blk[b]]
                       EXCEPT ![ino[d].i_block[q[1]]][q[2]] = Empty]
          /\ bbm' = bbm \ B /\ ibm' = ibm \ {i}
          /\ ino' = [ino EXCEPT ![i] = NoInode]
          /\ UNCHANGED <<fdt, odd>>
    BY DEF RemoveDir
  <1>2. PICK q \in First({r \in Named(d, p[Len(p)], {TRUE}) : DirIsEmpty(At(d, r).ino)}) :
          LET i == At(d, q).ino
              B == {ino[i].i_block[k] : k \in 1 .. Len(ino[i].i_block)} IN
          /\ blk' = [[b \in Blk |-> IF b \in B THEN Zeroes ELSE blk[b]]
                       EXCEPT ![ino[d].i_block[q[1]]][q[2]] = Empty]
          /\ bbm' = bbm \ B /\ ibm' = ibm \ {i}
          /\ ino' = [ino EXCEPT ![i] = NoInode]
          /\ UNCHANGED <<fdt, odd>>
    BY <1>1
  <1> DEFINE i == At(d, q).ino
             b == ino[d].i_block[q[1]]
             B == {ino[i].i_block[k] : k \in 1 .. Len(ino[i].i_block)}
             P == {r \in Named(d, p[Len(p)], {TRUE}) : DirIsEmpty(At(d, r).ino)}
  <1>3. d \in ibm /\ d \in Ino
    BY WalkIs
  <1>4. P \in SUBSET Places(d)
    BY DEF Named
  <1>5. q \in P
    <2> HIDE DEF P
    <2>1. First(P) \subseteq P
      BY <1>3, <1>4, FirstPlace
    <2>2. q \in First(P)
      BY <1>2 DEF P
    <2> QED BY <2>1, <2>2
  <1>6. q \in Places(d) /\ At(d, q).name = p[Len(p)] /\ At(d, q).dir /\ DirIsEmpty(i)
    BY <1>5 DEF Named
  <1>7. b \in Blk /\ q[2] \in Slot /\ At(d, q) = blk[b][q[2]] /\ i \in Ino
    BY <1>3, <1>6, PlaceIs DEF AnyEntry
  <1>8. i \in ibm /\ i # Root
    <2>1. blk[b][q[2]].name \in Name /\ blk[b][q[2]].ino = i
      BY <1>6, <1>7, PathIs
    <2> HIDE DEF i, b
    <2> QED BY <1>7, <2>1 DEF Known
  <1>9. Empty \in AnyEntry /\ Zeroes \in [Slot -> AnyEntry] /\ \A s \in Slot : Zeroes[s] = Empty
    BY EntryIs, Special, Counts DEF Empty, Zeroes
  <1> DEFINE m == [c \in Blk |-> IF c \in B THEN Zeroes ELSE blk[c]]
  <1>10. blk' = [m EXCEPT ![b][q[2]] = Empty]
    BY <1>2
  <1>11. m \in [Blk -> [Slot -> AnyEntry]] /\ \A c \in Blk, s \in Slot : m[c][s] = IF c \in B THEN Empty ELSE blk[c][s]
    <2> HIDE DEF B
    <2> QED BY <1>9 DEF Typed
  <1>12. /\ blk' \in [Blk -> [Slot -> AnyEntry]]
         /\ \A c \in Blk, s \in Slot :
              blk'[c][s] = IF c = b /\ s = q[2] THEN Empty ELSE IF c \in B THEN Empty ELSE blk[c][s]
    <2> HIDE DEF m, b, B
    <2> QED BY <1>7, <1>9, <1>10, <1>11
  <1>13. /\ ino' \in [Ino -> [dir : BOOLEAN, i_block : Seq(Blk)]]
         /\ ino'[i] = NoInode /\ \A j \in Ino \ {i} : ino'[j] = ino[j]
    <2>1. NoInode \in [dir : BOOLEAN, i_block : Seq(Blk)]
      BY DEF NoInode
    <2>2. ino' = [ino EXCEPT ![i] = NoInode]
      BY <1>2
    <2> HIDE DEF i
    <2> QED BY <1>7, <2>1, <2>2 DEF Typed
  <1>14. bbm' = bbm \ B /\ ibm' = ibm \ {i} /\ UNCHANGED <<fdt, odd>>
    BY <1>2
  <1>15. Typed'
    <2> HIDE DEF i, B
    <2> QED BY <1>7, <1>8, <1>12, <1>13, <1>14 DEF Typed
  <1>16. \A c \in Blk, s \in Slot :
              blk'[c][s] = IF c = b /\ s = q[2] THEN Empty
                             ELSE IF \E k \in 1 .. NBlocks(i) : ino[i].i_block[k] = c THEN Empty
                             ELSE blk[c][s]
    BY <1>12
  <1>17. i = At(d, q).ino /\ b = ino[d].i_block[q[1]]
    OBVIOUS
  <1>18. blk[b][q[2]].name = p[Len(p)] /\ blk[b][q[2]].dir /\ blk[b][q[2]].ino = i
    BY <1>6, <1>7
  <1>19. bbm' = bbm \ {ino[i].i_block[k] : k \in 1 .. NBlocks(i)}
    BY <1>14
  <1> HIDE DEF m, P, i, b, B
  <1>20. DirRemoved(p, d, q, i, b)
    BY <1>3, <1>6, <1>7, <1>8, <1>13, <1>14, <1>15, <1>16, <1>17, <1>18, <1>19 DEF DirRemoved
  <1> QED BY <1>20

-----------------------------------------------------------------------------
(* After a step, the names are those from before, of inodes that are still  *)
(* in use, and at most one that is new: slot s of block b names inode i.    *)
OneNew(b, s, i) ==
  \A c \in Blk, t \in Slot : blk'[c][t].name \in Name =>
    \/ blk'[c][t] = blk[c][t] /\ blk[c][t].ino \in ibm'
    \/ /\ c = b /\ t = s /\ blk'[c][t].ino = i
       /\ i \in ibm' \ ibm /\ i # Root
       /\ blk'[c][t].dir => ino'[i].i_block # <<>>

(* And no inode in use loses all of its blocks.                             *)
BlocksStay == \A j \in ibm \cap ibm' : ino[j].i_block # <<>> => ino'[j].i_block # <<>>

(* After such a step, Known holds.                                         *)
LEMMA KnownStays ==
  ASSUME Known, NEW b, NEW s, NEW i, OneNew(b, s, i), BlocksStay
  PROVE  Known'
  <1> USE DEF OneNew, BlocksStay
  <1>1. ASSUME NEW c \in Blk, NEW t \in Slot, blk'[c][t].name \in Name
        PROVE  /\ blk'[c][t].ino \in ibm' \ {Root}
               /\ blk'[c][t].dir => ino'[blk'[c][t].ino].i_block # <<>>
    BY <1>1 DEF Known
  <1>2. ASSUME NEW c \in Blk, NEW d \in Blk, NEW t \in Slot, NEW u \in Slot,
               blk'[c][t].name \in Name, blk'[d][u].name \in Name, blk'[c][t].ino = blk'[d][u].ino
        PROVE  c = d /\ t = u
    <2>1. \A e \in Blk, v \in Slot : blk[e][v].name \in Name => blk[e][v].ino \in ibm
      BY DEF Known
    <2> QED BY <1>2, <2>1 DEF Known
  <1> QED BY <1>1, <1>2 DEF Known

(* What the calls write, but for the new name, is no name.                 *)
LEMMA NoNames ==
  /\ Empty.name \notin Name /\ \A s \in Slot : Data[s].name \notin Name
  /\ \A s \in Slot, i, d \in Ino : Dots(i, d)[s].name \notin Name
  <1>1. Empty.name = "" /\ \A s \in Slot : Data[s].name = "data"
    BY DEF Empty, Data, Entry
  <1>2. \A s \in Slot, i, d \in Ino : Dots(i, d)[s].name \in {"", ".", ".."}
    BY DotsIs
  <1> QED BY <1>1, <1>2, Special

(* What Create does, by the place it finds.                                 *)
LEMMA CreateDoes ==
  ASSUME Typed, Known, NEW p \in Path, Create(p)
  PROVE  \E n \in Name, d \in WalkOver(GetEntryPath(p)), i \in Ino, f \in Blk :
           \/ \E q \in First(Named(d, "", BOOLEAN)) : \E b :
                b = ino[d].i_block[q[1]] /\ FileMade(n, i, f, b, q[2])
           \/ FileAdded(d, n, i, f)
  <1>1. PICK d \in WalkOver(GetEntryPath(p)) :
          LET P == Named(d, "", BOOLEAN) IN
          \/ \E q \in First(P) : CreateInSlot(d, q, p[Len(p)])
          \/ P = {} /\ CreateInBlock(d, p[Len(p)])
    BY DEF Create
  <1>2. PICK i, f, n : i = FreeInode /\ f = FreeBlock /\ n = p[Len(p)]
    OBVIOUS
  <1>3. d \in Ino /\ ino[d].i_block # <<>> /\ n \in Name
    BY <1>2, WalkOverIs, PathIs
  <1>4. CASE \E q \in First(Named(d, "", BOOLEAN)) : CreateInSlot(d, q, n)
    <2>1. PICK q \in First(Named(d, "", BOOLEAN)) : CreateInSlot(d, q, n)
      BY <1>4
    <2>2. q \in Places(d)
      BY <1>3, NamedAre
    <2>3. PICK b : b = ino[d].i_block[q[1]]
      OBVIOUS
    <2>4. FileMade(n, i, f, b, q[2])
      BY <1>2, <1>3, <2>1, <2>2, <2>3, CreateInSlotDoes
    <2>5. i \in Ino /\ f \in Blk
      BY <2>4 DEF FileMade
    <2> QED BY <1>3, <2>3, <2>4, <2>5
  <1>5. CASE CreateInBlock(d, n)
    <2>1. FileAdded(d, n, i, f)
      BY <1>2, <1>3, <1>5, CreateInBlockDoes
    <2>2. i \in Ino /\ f \in Blk
      BY <2>1 DEF FileAdded
    <2> QED BY <1>3, <2>1, <2>2
  <1> QED BY <1>2, <1>1, <1>4, <1>5

(* What MakeDir does, by the place it finds.                               *)
LEMMA MakeDirDoes ==
  ASSUME Typed, Known, NEW p \in Path, MakeDir(p)
  PROVE  \E n \in Name, d \in Walk(GetEntryPath(p)), i \in Ino, f \in Blk :
           \/ \E q \in First(Named(d, "", BOOLEAN)) : \E b :
                b = ino[d].i_block[q[1]] /\ DirMade(d, n, i, f, b, q[2])
           \/ \E g : DirAdded(d, n, i, f, g)
  <1>1. PICK d \in Walk(GetEntryPath(p)) :
          LET P == Named(d, "", BOOLEAN) IN
          \/ \E q \in First(P) : MakeInSlot(d, q, p[Len(p)])
          \/ P = {} /\ MakeInBlock(d, p[Len(p)])
    BY DEF MakeDir
  <1>2. PICK i, f, g, n : i = FreeInode /\ f = FreeBlock /\ g = NextBlock /\ n = p[Len(p)]
    OBVIOUS
  <1>3. d \in Ino /\ ino[d].i_block # <<>> /\ n \in Name
    BY <1>2, WalkIs, PathIs
  <1>4. UNCHANGED <<fdt, odd>>
    BY DEF MakeDir
  <1>5. CASE \E q \in First(Named(d, "", BOOLEAN)) : MakeInSlot(d, q, n)
    <2>1. PICK q \in First(Named(d, "", BOOLEAN)) : MakeInSlot(d, q, n)
      BY <1>5
    <2>2. q \in Places(d)
      BY <1>3, NamedAre
    <2>3. PICK b : b = ino[d].i_block[q[1]]
      OBVIOUS
    <2>4. DirMade(d, n, i, f, b, q[2])
      BY <1>2, <1>3, <1>4, <2>1, <2>2, <2>3, MakeInSlotDoes
    <2>5. i \in Ino /\ f \in Blk
      BY <2>4 DEF DirMade
    <2> QED BY <1>3, <2>3, <2>4, <2>5
  <1>6. CASE MakeInBlock(d, n)
    <2>1. DirAdded(d, n, i, f, g)
      BY <1>2, <1>3, <1>6, <1>4, MakeInBlockDoes
    <2>2. i \in Ino /\ f \in Blk
      BY <2>1 DEF DirAdded
    <2> QED BY <1>3, <2>1, <2>2
  <1> QED BY <1>2, <1>1, <1>5, <1>6

(* Known holds after each kind of step: a file is made in a free entry,    *)
LEMMA FileMadeKnown ==
  ASSUME Typed, Known, NEW n, NEW i, NEW f, NEW b, NEW s, FileMade(n, i, f, b, s)
  PROVE  Known'
  <1>1. /\ i \in Ino \ ibm /\ i # Root /\ ibm' = ibm \cup {i}
        /\ blk'[b][s].ino = i /\ ~blk'[b][s].dir
        /\ \A c \in Blk, t \in Slot : c # b \/ t # s => blk'[c][t] = blk[c][t]
        /\ \A j \in Ino \ {i} : ino'[j] = ino[j]
    BY DEF FileMade, IsFile
  <1>2. \A j \in ibm : ino'[j] = ino[j]
    BY <1>1 DEF Typed
  <1>3. \A c \in Blk, t \in Slot : blk[c][t].name \in Name => blk[c][t].ino \in ibm
    BY DEF Known
  <1>4. ASSUME NEW c \in Blk, NEW t \in Slot, blk'[c][t].name \in Name
        PROVE  \/ blk'[c][t] = blk[c][t] /\ blk[c][t].ino \in ibm'
               \/ c = b /\ t = s /\ blk'[c][t].ino = i /\ ~blk'[c][t].dir
    BY <1>1, <1>3, <1>4
  <1>5. OneNew(b, s, i)
    BY <1>1, <1>2, <1>4 DEF OneNew
  <1>6. BlocksStay
    BY <1>1, <1>2, <1>4 DEF BlocksStay
  <1> QED BY <1>5, <1>6, KnownStays

(* or in a block that is new,                                              *)
LEMMA FileAddedKnown ==
  ASSUME Typed, Known, NEW d, NEW n, NEW i, NEW f, FileAdded(d, n, i, f)
  PROVE  Known'
  <1>1. /\ i \in Ino \ ibm /\ i # Root /\ ibm' = ibm \cup {i}
        /\ blk'[f][1].ino = i /\ ~blk'[f][1].dir
        /\ \A c \in Blk, t \in Slot : c # f \/ t # 1 => blk'[c][t] = blk[c][t]
        /\ \A j \in Ino \ {d} : ino'[j] = ino[j]
        /\ ino'[d].i_block # <<>>
    BY DEF FileAdded, IsFile
  <1>2. \A j \in ibm : ino[j].i_block # <<>> => ino'[j].i_block # <<>>
    BY <1>1 DEF Typed
  <1>3. \A c \in Blk, t \in Slot : blk[c][t].name \in Name => blk[c][t].ino \in ibm
    BY DEF Known
  <1>4. ASSUME NEW c \in Blk, NEW t \in Slot, blk'[c][t].name \in Name
        PROVE  \/ blk'[c][t] = blk[c][t] /\ blk[c][t].ino \in ibm'
               \/ c = f /\ t = 1 /\ blk'[c][t].ino = i /\ ~blk'[c][t].dir
    BY <1>1, <1>3, <1>4
  <1>5. OneNew(f, 1, i)
    BY <1>1, <1>2, <1>4 DEF OneNew
  <1>6. BlocksStay
    BY <1>1, <1>2, <1>4 DEF BlocksStay
  <1> QED BY <1>5, <1>6, KnownStays

(* a directory is made in a free entry,                                    *)
LEMMA DirMadeKnown ==
  ASSUME Typed, Known, NEW d \in Ino, NEW n, NEW i, NEW f, NEW b, NEW s, DirMade(d, n, i, f, b, s)
  PROVE  Known'
  <1>1. /\ i \in Ino \ ibm /\ i # Root /\ ibm' = ibm \cup {i}
        /\ \A j \in Ino \ {i} : ino'[j] = ino[j]
        /\ ino'[i].i_block # <<>>
    BY DEF DirMade
  <1>2. ASSUME NEW c \in Blk, NEW t \in Slot, blk'[c][t].name \in Name
        PROVE  \/ blk'[c][t] = blk[c][t]
               \/ c = b /\ t = s /\ blk'[c][t].ino = i
    <2>1. CASE c = f /\ t \in {1, 2}
      <3>1. blk'[f][1].name = "." /\ blk'[f][2].name = ".."
        BY DEF DirMade, IsDir
      <3> QED BY <1>2, <2>1, <3>1, Special
    <2>2. CASE ~(c = f /\ t \in {1, 2})
      <3>1. /\ c # b \/ t # s => blk'[c][t] = blk[c][t]
            /\ c = b /\ t = s => IsDir(blk'[c][t], n, i)
        BY <2>2 DEF DirMade
      <3> QED BY <3>1 DEF IsDir
    <2> QED BY <2>1, <2>2
  <1>3. \A j \in ibm : ino'[j] = ino[j]
    BY <1>1 DEF Typed
  <1>4. \A c \in Blk, t \in Slot : blk[c][t].name \in Name => blk[c][t].ino \in ibm
    BY DEF Known
  <1>5. ASSUME NEW c \in Blk, NEW t \in Slot, blk'[c][t].name \in Name
        PROVE  \/ blk'[c][t] = blk[c][t] /\ blk[c][t].ino \in ibm'
               \/ c = b /\ t = s /\ blk'[c][t].ino = i
    BY <1>1, <1>2, <1>4, <1>5
  <1>6. OneNew(b, s, i)
    BY <1>1, <1>3, <1>5 DEF OneNew
  <1>7. BlocksStay
    BY <1>1, <1>3, <1>5 DEF BlocksStay
  <1> QED BY <1>6, <1>7, KnownStays

(* or in a block that is new,                                              *)
LEMMA DirAddedKnown ==
  ASSUME Typed, Known, NEW d \in Ino, NEW n, NEW i, NEW f, NEW g, DirAdded(d, n, i, f, g)
  PROVE  Known'
  <1>1. PICK e : e = Self(d)
    OBVIOUS
  <1>2. /\ i \in Ino \ ibm /\ i # Root /\ ibm' = ibm \cup {i} /\ e \in Ino
        /\ \A j \in Ino \ {i} : j # e => ino'[j] = ino[j]
        /\ e # i => ino'[e].i_block = Append(ino[e].i_block, f)
        /\ ino'[i].i_block = <<g>> /\ f \in Blk
        /\ blk'[f][1].ino = i /\ blk'[g] = Dots(i, e)
        /\ \A c \in Blk \ {g}, t \in Slot : c # f \/ t # 1 => blk'[c][t] = blk[c][t]
    BY <1>1 DEF DirAdded, IsDir
  <1>3. ASSUME NEW c \in Blk, NEW t \in Slot, blk'[c][t].name \in Name
        PROVE  \/ blk'[c][t] = blk[c][t]
               \/ c = f /\ t = 1 /\ blk'[c][t].ino = i
    <2>1. CASE c = g
      BY <1>2, <1>3, <2>1, NoNames
    <2>2. CASE c # g
      BY <1>2, <2>2
    <2> QED BY <2>1, <2>2
  <1>4. \A j \in ibm : ino[j].i_block # <<>> => ino'[j].i_block # <<>>
    <2>1. ino[e].i_block \in Seq(Blk)
      BY <1>2 DEF Typed
    <2>2. Append(ino[e].i_block, f) # <<>>
      BY <1>2, <2>1, AppendIs
    <2> QED BY <1>2, <2>2 DEF Typed
  <1>5. \A c \in Blk, t \in Slot : blk[c][t].name \in Name => blk[c][t].ino \in ibm
    BY DEF Known
  <1>6. ino'[i].i_block # <<>>
    BY <1>2
  <1>7. ASSUME NEW c \in Blk, NEW t \in Slot, blk'[c][t].name \in Name
        PROVE  \/ blk'[c][t] = blk[c][t] /\ blk[c][t].ino \in ibm'
               \/ c = f /\ t = 1 /\ blk'[c][t].ino = i
    BY <1>2, <1>3, <1>5, <1>7
  <1>8. OneNew(f, 1, i)
    BY <1>2, <1>4, <1>6, <1>7 DEF OneNew
  <1>9. BlocksStay
    BY <1>2, <1>4, <1>6, <1>7 DEF BlocksStay
  <1> QED BY <1>8, <1>9, KnownStays

(* OpenFile of a file that is there changes the descriptors alone, and     *)
(* gives one for the file it has found.                                    *)
LEMMA OpenThereDoes ==
  ASSUME Typed, Known, NEW p \in Path, OpenThere(p)
  PROVE  /\ UNCHANGED <<ino, blk, ibm, bbm, odd>> /\ Typed'
         /\ \E d \in WalkOver(GetEntryPath(p)) : \E q \in Places(d) :
              /\ At(d, q).name \in Name /\ ~At(d, q).dir
              /\ \/ \A g \in Fd : fdt'[g].valid = fdt[g].valid /\ fdt'[g].inodeNo = fdt[g].inodeNo
                 \/ /\ \E g \in Fd : Gives(g, At(d, q).ino)
                    /\ \A g \in Fd : fdt[g].inodeNo # At(d, q).ino
  <1>1. PICK f \in FileAt(p) :
          /\ Unused # {} \/ Reopened(At(f[2], f[1]).ino) # {}
          /\ Descriptor(At(f[2], f[1]).ino) /\ UNCHANGED <<ino, blk, ibm, bbm, odd>>
    BY DEF OpenThere
  <1>2. PICK d \in WalkOver(GetEntryPath(p)) : f \in First(Named(d, p[Len(p)], {FALSE})) \X {d}
    BY DEF FileAt
  <1> DEFINE q == f[1]
  <1>3. q \in First(Named(d, p[Len(p)], {FALSE})) /\ f[2] = d
    BY <1>2
  <1>4. d \in Ino /\ p[Len(p)] \in Name
    BY WalkOverIs, PathIs
  <1> HIDE DEF q
  <1>5. q \in Places(d) /\ At(d, q).name \in Name /\ ~At(d, q).dir
    <2>1. q \in Named(d, p[Len(p)], {FALSE}) /\ q \in Places(d)
      BY <1>3, <1>4, NamedAre
    <2> QED BY <1>4, <2>1 DEF Named
  <1>6. At(d, q).ino \in Ino
    BY <1>4, <1>5, PlaceIs DEF AnyEntry
  <1>7. Descriptor(At(d, q).ino) /\ (Unused # {} \/ Reopened(At(d, q).ino) # {})
    BY <1>1, <1>3 DEF q
  <1>8. Typed'
    BY <1>1, <1>6, <1>7, DescriptorDoes DEF Typed, TypedFdt
  <1> QED BY <1>1, <1>5, <1>6, <1>7, <1>8, DescriptorDoes

(* a call changes no entry,                                                *)
LEMMA SameKnown ==
  ASSUME Known, UNCHANGED <<ino, blk, ibm>>
  PROVE  Known'
  BY DEF Known

(* a file is written: the blocks that change hold no name,                 *)
LEMMA FileWrittenKnown ==
  ASSUME Typed, Known, NEW f, NEW i, NEW new, FileWritten(f, i, new)
  PROVE  Known'
  <1>1. /\ i \in Ino /\ new \subseteq Blk \ bbm /\ ibm' = ibm
        /\ \A j \in Ino \ {i} : ino'[j] = ino[j]
        /\ ino'[i].i_block = ino[i].i_block \o InOrder(new)
        /\ \A b \in Blk : blk'[b] = blk[b] \/ blk'[b] = Data
        /\ Typed'
    BY DEF FileWritten
  <1>2. ASSUME NEW c \in Blk, NEW t \in Slot, blk'[c][t].name \in Name
        PROVE  blk'[c][t] = blk[c][t] /\ blk[c][t].ino \in ibm'
    <2>1. blk'[c][t] = blk[c][t]
      BY <1>1, <1>2, NoNames
    <2> QED BY <1>1, <1>2, <2>1 DEF Known
  <1>3. \A j \in ibm : ino[j].i_block # <<>> => ino'[j].i_block # <<>>
    <2>1. ino[i].i_block \in Seq(Blk) /\ InOrder(new) \in Seq(Blk)
      BY <1>1, InOrderIs DEF Typed
    <2>2. ino[i].i_block # <<>> => ino'[i].i_block # <<>>
      BY <1>1, <2>1, ConcatIs
    <2> QED BY <1>1, <2>2 DEF Typed
  <1>4. OneNew(0, 0, 0)
    BY <1>1, <1>2, <1>3 DEF OneNew
  <1>5. BlocksStay
    BY <1>1, <1>2, <1>3 DEF BlocksStay
  <1> QED BY <1>4, <1>5, KnownStays

(* a file is removed, or the blocks of one and not the name,               *)
LEMMA FileRemovedKnown ==
  ASSUME Typed, Known, NEW p \in Path, NEW t, NEW S, NEW i, NEW b, FileRemoved(p, t, S, i, b)
  PROVE  Known'
  <1>1. /\ b \in Blk /\ S \in SUBSET Slot
        /\ ibm' = ibm \ {blk[b][s].ino : s \in S}
        /\ \A s \in S : blk[b][s].name = p[Len(p)]
        /\ \A s \in S : blk'[b][s] = Empty
        /\ \A c \in Blk, s \in Slot : c # b \/ s \notin S => blk'[c][s] = blk[c][s]
        /\ UNCHANGED <<ino, fdt>>
    <2>1. S \in SUBSET Slot
      BY RemoveFileTyped
    <2> QED BY <2>1 DEF FileRemoved
  <1>2. ASSUME NEW c \in Blk, NEW u \in Slot, blk'[c][u].name \in Name
        PROVE  blk'[c][u] = blk[c][u] /\ blk[c][u].ino \in ibm'
    <2>1. ~(c = b /\ u \in S)
      BY <1>1, <1>2, NoNames
    <2>2. blk'[c][u] = blk[c][u]
      BY <1>1, <2>1
    <2>3. blk[c][u].ino \in ibm
      BY <1>2, <2>2 DEF Known
    <2>4. ASSUME NEW s \in S PROVE blk[b][s].ino # blk[c][u].ino
      <3>1. blk[b][s].name \in Name
        BY <1>1, PathIs
      <3> QED BY <1>1, <1>2, <2>1, <2>2, <3>1 DEF Known
    <2> QED BY <1>1, <2>2, <2>3, <2>4
  <1>3. OneNew(0, 0, 0)
    BY <1>1, <1>2 DEF OneNew
  <1>4. BlocksStay
    BY <1>1, <1>2 DEF BlocksStay
  <1> QED BY <1>3, <1>4, KnownStays

(* a directory is removed.                                                 *)
LEMMA DirRemovedKnown ==
  ASSUME Typed, Known, NEW p \in Path, NEW d, NEW q, NEW i, NEW b, DirRemoved(p, d, q, i, b)
  PROVE  Known'
  <1>1. blk[b][q[2]].ino = i /\ blk[b][q[2]].name \in Name /\ b \in Blk /\ q[2] \in Slot /\ i \in Ino
    BY PathIs DEF DirRemoved
  <1>2. /\ \A c \in Blk, s \in Slot : blk'[c][s] = Empty \/ (~(c = b /\ s = q[2]) /\ blk'[c][s] = blk[c][s])
        /\ ibm' = ibm \ {i}
        /\ \A j \in Ino \ {i} : ino'[j] = ino[j]
    BY DEF DirRemoved
  <1>3. ASSUME NEW c \in Blk, NEW u \in Slot, blk'[c][u].name \in Name
        PROVE  blk'[c][u] = blk[c][u] /\ blk[c][u].ino \in ibm'
    <2>1. ~(c = b /\ u = q[2]) /\ blk'[c][u] = blk[c][u]
      BY <1>2, <1>3, NoNames
    <2>2. blk[c][u].ino \in ibm
      BY <1>3, <2>1 DEF Known
    <2>3. blk[c][u].ino # i
      BY <1>1, <1>3, <2>1 DEF Known
    <2> QED BY <1>2, <2>1, <2>2, <2>3
  <1>4. \A j \in ibm \cap ibm' : ino'[j] = ino[j]
    BY <1>2 DEF Typed
  <1>5. OneNew(0, 0, 0)
    BY <1>2, <1>3, <1>4 DEF OneNew
  <1>6. BlocksStay
    BY <1>2, <1>3, <1>4 DEF BlocksStay
  <1> QED BY <1>5, <1>6, KnownStays

(* A disk with nothing but the root has no name.                           *)
LEMMA InitKnown ==
  ASSUME Init
  PROVE  Typed /\ Known
  <1>1. /\ Root \in Ino /\ Empty \in AnyEntry /\ Empty.name = "" /\ Zeroes \in [Slot -> AnyEntry]
        /\ Entry(".", Root, TRUE) \in AnyEntry /\ Entry(".", Root, TRUE).name = "."
        /\ \A s \in Slot : Zeroes[s] = Empty
    BY EntryIs, Special, Counts DEF Empty, Root, Zeroes
  <1>2. ino \in [Ino -> [dir : BOOLEAN, i_block : Seq(Blk)]] /\ ino[Root].i_block # <<>>
    <2>1. ino = [i \in Ino |-> IF i = Root THEN [dir |-> TRUE, i_block |-> <<1>>] ELSE NoInode]
      BY DEF Init
    <2>2. /\ NoInode \in [dir : BOOLEAN, i_block : Seq(Blk)]
          /\ [dir |-> TRUE, i_block |-> <<1>>] \in [dir : BOOLEAN, i_block : Seq(Blk)]
      BY Counts DEF NoInode
    <2>3. ino[Root] = [dir |-> TRUE, i_block |-> <<1>>]
      BY <1>1, <2>1
    <2> QED BY <2>1, <2>2, <2>3
  <1> DEFINE e == Entry(".", Root, TRUE)
  <1>3. blk = [b \in Blk |-> IF b = 1 THEN [Zeroes EXCEPT ![1] = e] ELSE Zeroes]
    BY DEF Init
  <1>4. e \in AnyEntry /\ e.name = "."
    BY <1>1
  <1> HIDE DEF e
  <1>5. /\ blk \in [Blk -> [Slot -> AnyEntry]]
        /\ \A b \in Blk, s \in Slot : blk[b][s].name \in {"", "."}
    BY <1>1, <1>3, <1>4, Counts
  <1>6. fdt \in [Fd -> [valid : BOOLEAN, offset : Nat, inodeNo : Ino]]
    BY Counts DEF Init, Closed
  <1>7. Typed
    BY <1>1, <1>2, <1>5, <1>6, Counts DEF Init, Typed
  <1>8. Known
    BY <1>5, Special DEF Known
  <1> QED BY <1>7, <1>8

(* Every call keeps Known and the types,                                   *)
LEMMA CallKnown ==
  ASSUME Typed, Known, Call
  PROVE  Typed' /\ Known'
  <1>1. ASSUME NEW p \in Path, NEW create \in BOOLEAN, OpenFile(p, create) PROVE Typed' /\ Known'
    <2>1. CASE OpenThere(p)
      BY <2>1, OpenThereDoes, SameKnown
    <2>2. CASE Create(p)
      <3>1. PICK n \in Name, d \in WalkOver(GetEntryPath(p)), i \in Ino, f \in Blk :
               \/ \E q \in First(Named(d, "", BOOLEAN)) : \E b :
                    b = ino[d].i_block[q[1]] /\ FileMade(n, i, f, b, q[2])
               \/ FileAdded(d, n, i, f)
        BY <2>2, CreateDoes
      <3>2. ASSUME NEW b, NEW s, FileMade(n, i, f, b, s) PROVE Typed' /\ Known'
        <4>1. Typed'
          BY <3>2 DEF FileMade
        <4>2. Known'
          BY <3>2, FileMadeKnown
        <4> QED BY <4>1, <4>2
      <3>3. ASSUME FileAdded(d, n, i, f) PROVE Typed' /\ Known'
        <4>1. Typed'
          BY <3>3 DEF FileAdded
        <4>2. Known'
          BY <3>3, FileAddedKnown
        <4> QED BY <4>1, <4>2
      <3> QED BY <3>1, <3>2, <3>3
    <2> QED BY <1>1, <2>1, <2>2 DEF OpenFile
  <1>2. ASSUME NEW p \in Path, RemoveFile(p) PROVE Typed' /\ Known'
    <2>1. PICK t \in Target(p) : \E S \in SUBSET Slot, i \in Ino, b \in Blk : FileRemoved(p, t, S, i, b)
      BY <1>2, RemoveFileDoes
    <2>2. PICK S \in SUBSET Slot, i \in Ino, b \in Blk : FileRemoved(p, t, S, i, b)
      BY <2>1
    <2> QED BY <2>2, RemoveFileTyped, FileRemovedKnown
  <1>3. ASSUME NEW p \in Path, MakeDir(p) PROVE Typed' /\ Known'
    <2>1. PICK n \in Name, d \in Walk(GetEntryPath(p)), i \in Ino, f \in Blk :
             \/ \E q \in First(Named(d, "", BOOLEAN)) : \E b :
                  b = ino[d].i_block[q[1]] /\ DirMade(d, n, i, f, b, q[2])
             \/ \E g : DirAdded(d, n, i, f, g)
      BY <1>3, MakeDirDoes
    <2>2. d \in Ino
      BY WalkIs
    <2>3. ASSUME NEW b, NEW s, DirMade(d, n, i, f, b, s) PROVE Typed' /\ Known'
      <3>1. Typed'
        BY <2>2, <2>3 DEF DirMade
      <3>2. Known'
        BY <2>2, <2>3, DirMadeKnown
      <3> QED BY <3>1, <3>2
    <2>4. ASSUME NEW g, DirAdded(d, n, i, f, g) PROVE Typed' /\ Known'
      <3>1. Typed'
        BY <2>2, <2>4 DEF DirAdded
      <3>2. Known'
        BY <2>2, <2>4, DirAddedKnown
      <3> QED BY <3>1, <3>2
    <2> QED BY <2>1, <2>3, <2>4
  <1>4. ASSUME NEW p \in Path, RemoveDir(p) PROVE Typed' /\ Known'
    <2>1. PICK d, q, i, b : DirRemoved(p, d, q, i, b)
      BY <1>4, RemoveDirDoes
    <2>2. Typed'
      BY <2>1 DEF DirRemoved
    <2>3. Known'
      BY <2>1, DirRemovedKnown
    <2> QED BY <2>2, <2>3
  <1>5. ASSUME NEW f \in Fd, NEW n \in 1 .. NDirect, WriteFile(f, n) PROVE Typed' /\ Known'
    <2>1. PICK i, new : i = fdt[f].inodeNo /\ new = FreeBlocks(Grown(i, fdt[f].offset, n))
      OBVIOUS
    <2>2. FileWritten(f, i, new)
      BY <1>5, <2>1, WriteFileDoes
    <2>3. Typed'
      BY <2>2 DEF FileWritten
    <2>4. Known'
      BY <2>2, FileWrittenKnown
    <2> QED BY <2>3, <2>4
  <1>6. ASSUME NEW f \in Fd, NEW n \in 1 .. NDirect, ReadFile(f, n) PROVE Typed' /\ Known'
    BY <1>6, ReadFileDoes, SameKnown
  <1>7. ASSUME NEW f \in Fd, CloseFile(f) PROVE Typed' /\ Known'
    BY <1>7, CloseFileDoes, SameKnown
  <1>8. ASSUME Remount PROVE Typed' /\ Known'
    BY <1>8, RemountDoes, SameKnown
  <1> QED BY <1>1, <1>2, <1>3, <1>4, <1>5, <1>6, <1>7, <1>8 DEF Call

(* and so does every step.                                                 *)
LEMMA NextKnown ==
  ASSUME Typed, Known, [Next]_vars
  PROVE  Typed' /\ Known'
  <1>1. CASE Next
    BY <1>1, CallKnown DEF Next
  <1>2. CASE UNCHANGED vars
    BY <1>2 DEF vars, Typed, Known
  <1> QED BY <1>1, <1>2

(* The types and Known hold always.                                        *)
LEMMA AlwaysKnown == Spec => [](Typed /\ Known)
  <1>1. Init => Typed /\ Known
    BY InitKnown
  <1>2. (Typed /\ Known) /\ [Next]_vars => (Typed /\ Known)'
    BY NextKnown
  <1> QED BY <1>1, <1>2, PTL DEF Spec

(* A path with two names leads to the directory its first name has in the  *)
(* root.                                                                   *)
LEMMA BelowIs ==
  ASSUME Typed, NEW d \in Name, NEW n \in Name, n # d
  PROVE  /\ GetEntryPath(<<d, n>>) # <<>> /\ GetEntryPath(<<d, n>>)[1] = d
         /\ Walk(GetEntryPath(<<d, n>>)) = Child(Root, d)
         /\ \A i \in Child(Root, d) : i \in Ino /\ Child(Root, d) = {i}
  <1>1. <<d, n>> \in Path /\ Len(<<d, n>>) = 2 /\ <<d, n>>[1] = d /\ <<d, n>>[2] = n
    BY DEF Path
  <1>2. GetEntryPath(<<d, n>>) # <<>> /\ GetEntryPath(<<d, n>>)[1] = d
    BY <1>1, PathIs
  <1>3. Walk(GetEntryPath(<<d, n>>)) = Child(Root, d)
    BY <1>2 DEF Walk
  <1>4. ASSUME NEW i \in Child(Root, d) PROVE i \in Ino /\ Child(Root, d) = {i}
    <2>1. PICK q \in First(Named(Root, d, {TRUE})) : i = At(Root, q).ino
      BY <1>4 DEF Child
    <2>2. Root \in Ino /\ Named(Root, d, {TRUE}) \in SUBSET Places(Root)
      BY NamedAre DEF Typed
    <2>3. First(Named(Root, d, {TRUE})) = {q} /\ q \in Places(Root)
      BY <2>1, <2>2, FirstPlace
    <2>4. At(Root, q).ino \in Ino
      BY <2>2, <2>3, PlaceIs DEF AnyEntry
    <2> QED BY <2>1, <2>3, <2>4 DEF Child
  <1> QED BY <1>2, <1>3, <1>4

(* The file OpenFile finds is the first of that name in the directory.     *)
LEMMA FileAtIs ==
  ASSUME Typed, NEW i \in Ino, NEW p, WalkOver(GetEntryPath(p)) = {i}
  PROVE  /\ FileAt(p) = First(Named(i, p[Len(p)], {FALSE})) \X {i}
         /\ FileAt(p) = {} <=> Named(i, p[Len(p)], {FALSE}) = {}
  <1>1. FileAt(p) = First(Named(i, p[Len(p)], {FALSE})) \X {i}
    BY DEF FileAt
  <1>2. Named(i, p[Len(p)], {FALSE}) \in SUBSET Places(i)
    BY NamedAre
  <1>3. First(Named(i, p[Len(p)], {FALSE})) = {} <=> Named(i, p[Len(p)], {FALSE}) = {}
    BY <1>2, FirstPlace
  <1> DEFINE F == First(Named(i, p[Len(p)], {FALSE}))
  <1>4. FileAt(p) = F \X {i} /\ (F = {} <=> Named(i, p[Len(p)], {FALSE}) = {})
    BY <1>1, <1>3
  <1> HIDE DEF F
  <1>5. F \X {i} = {} <=> F = {}
    <2>1. ASSUME NEW q \in F PROVE <<q, i>> \in F \X {i}
      OBVIOUS
    <2> QED BY <2>1
  <1> QED BY <1>1, <1>4, <1>5

(* It is there if and only if EnumerateDirStatus lists it.                 *)
LEMMA ListsRight ==
  ASSUME Typed
  PROVE  ListsWhatOpens
  <1> SUFFICES ASSUME NEW d \in Name, NEW n \in Name, NEW i \in Child(Root, d), n # d
               PROVE  (FileAt(<<d, n>>) # {}) = (\E q \in Listed(i) : At(i, q).name = n /\ ~At(i, q).dir)
    BY DEF ListsWhatOpens
  <1>1. i \in Ino /\ WalkOver(GetEntryPath(<<d, n>>)) = {i}
    BY BelowIs DEF WalkOver
  <1> DEFINE p == <<d, n>>
  <1>2. p[Len(p)] = n
    OBVIOUS
  <1> HIDE DEF p
  <1>3. FileAt(p) = {} <=> Named(i, n, {FALSE}) = {}
    BY <1>1, <1>2, FileAtIs DEF p
  <1>4. Named(i, n, {FALSE}) # {} <=> \E q \in Listed(i) : At(i, q).name = n /\ ~At(i, q).dir
    <2>1. \A q \in Places(i) : At(i, q).dir \in BOOLEAN
      BY <1>1, PlaceIs DEF AnyEntry
    <2>2. \A q \in Places(i) : q \in Named(i, n, {FALSE}) <=> At(i, q).name = n /\ ~At(i, q).dir
      BY <2>1 DEF Named
    <2>3. n \notin {"", ".", ".."}
      BY Special
    <2>4. Named(i, n, {FALSE}) \subseteq Places(i) /\ Listed(i) \subseteq Places(i)
      BY DEF Named, Listed
    <2>5. \A q \in Places(i) : At(i, q).name = n => q \in Listed(i)
      BY <2>3 DEF Listed
    <2> QED BY <2>2, <2>4, <2>5
  <1> QED BY <1>3, <1>4 DEF p

(* Of a directory in the root, OpenFile finds the files EnumerateDirStatus *)
(* lists, also after the calls that should not be made.                    *)
THEOREM ListingOpens == Spec => []ListsWhatOpens
  <1>1. Typed /\ Known => ListsWhatOpens
    BY ListsRight
  <1> QED BY <1>1, AlwaysKnown, PTL

-----------------------------------------------------------------------------
(* Inode i has block b.                                                    *)
Holds(i, b) == \E k \in 1 .. NBlocks(i) : ino[i].i_block[k] = b

(* The blocks in use are those of the inodes in use, each of one.           *)
Owned ==
  /\ \A i \in ibm : ino[i].i_block # <<>>
  /\ \A i \in ibm, k \in Nat : k \in 1 .. NBlocks(i) => ino[i].i_block[k] \in bbm
  /\ \A i, j \in ibm, k, l \in Nat :
       k \in 1 .. NBlocks(i) /\ l \in 1 .. NBlocks(j) /\ ino[i].i_block[k] = ino[j].i_block[l]
       => i = j /\ k = l
  /\ \A b \in bbm : \E i \in ibm : Holds(i, b)

(* A name is in a block of a directory, and knows what it names.            *)
Housed ==
  \A b \in Blk, s \in Slot : blk[b][s].name \in Name =>
    /\ \E d \in ibm : ino[d].dir /\ Holds(d, b)
    /\ blk[b][s].dir <=> ino[blk[b][s].ino].dir

(* Every inode in use but the root is named.                               *)
AllNamed ==
  \A i \in ibm : i # Root => \E b \in Blk, s \in Slot : blk[b][s].name \in Name /\ blk[b][s].ino = i

(* The first block of inode i says that it is i, and in d.                 *)
HasDots(i, d) == /\ IsDir(blk[ino[i].i_block[1]][1], ".", i)
                 /\ IsDir(blk[ino[i].i_block[1]][2], "..", d)

(* A directory that is named in d says so.                                 *)
Dotted ==
  \A d \in ibm, b \in Blk, s \in Slot :
    ino[d].dir /\ Holds(d, b) /\ blk[b][s].name \in Name /\ blk[b][s].dir => HasDots(blk[b][s].ino, d)

(* The root says that it is the root.                                      *)
RootRight == ino[Root].dir /\ IsDir(blk[ino[Root].i_block[1]][1], ".", Root)

(* A descriptor in use has a file in use that no other has.                *)
Apart ==
  \A f, g \in Fd :
    fdt[f].valid => /\ fdt[f].inodeNo \in ibm /\ ~ino[fdt[f].inodeNo].dir
                    /\ f # g /\ fdt[g].valid => fdt[f].inodeNo # fdt[g].inodeNo

(* What the names are about, and all of it: the tree.                      *)
NamesRight == Housed /\ AllNamed /\ Dotted /\ RootRight
Tree == Owned /\ NamesRight /\ Apart

(* A block is of one inode,                                                *)
LEMMA OneHolder ==
  ASSUME Owned, Typed, NEW i \in ibm, NEW j \in ibm, NEW b, Holds(i, b), Holds(j, b)
  PROVE  i = j
  <1>1. PICK k \in 1 .. NBlocks(i) : ino[i].i_block[k] = b
    BY DEF Holds
  <1>2. PICK l \in 1 .. NBlocks(j) : ino[j].i_block[l] = b
    BY DEF Holds
  <1>3. k \in Nat /\ l \in Nat
    BY <1>1, <1>2
  <1> QED BY <1>1, <1>2, <1>3 DEF Owned

(* also after the step,                                                    *)
LEMMA OneHolderNext ==
  ASSUME Owned', NEW i \in ibm', NEW j \in ibm', NEW b, Holds(i, b)', Holds(j, b)'
  PROVE  i = j
  <1>1. PICK k \in 1 .. NBlocks(i)' : ino'[i].i_block[k] = b
    BY DEF Holds
  <1>2. PICK l \in 1 .. NBlocks(j)' : ino'[j].i_block[l] = b
    BY DEF Holds
  <1>3. k \in Nat /\ l \in Nat
    BY <1>1, <1>2
  <1> QED BY <1>1, <1>2, <1>3 DEF Owned

(* and in use.                                                             *)
LEMMA HeldIsUsed ==
  ASSUME Owned, Typed, NEW i \in ibm, NEW b, Holds(i, b)
  PROVE  b \in bbm /\ b \in Blk
  <1>1. PICK k \in 1 .. NBlocks(i) : ino[i].i_block[k] = b
    BY DEF Holds
  <1>2. k \in Nat
    BY <1>1
  <1> QED BY <1>1, <1>2 DEF Owned, Typed

(* An inode in use has a first block.                                      *)
LEMMA FirstHeld ==
  ASSUME Owned, Typed, NEW i \in ibm
  PROVE  /\ Holds(i, ino[i].i_block[1]) /\ ino[i].i_block[1] \in bbm /\ ino[i].i_block[1] \in Blk
  <1>1. i \in Ino /\ ino[i].i_block # <<>>
    BY DEF Owned, Typed
  <1>2. 1 \in 1 .. NBlocks(i)
    BY <1>1, SeqBlocks
  <1>3. Holds(i, ino[i].i_block[1])
    BY <1>2 DEF Holds
  <1> QED BY <1>3, HeldIsUsed

(* No name is in a block that is free, or of a file.                        *)
LEMMA Bare ==
  ASSUME Typed, Owned, Housed
  PROVE  /\ \A b \in Blk \ bbm, s \in Slot : blk[b][s].name \notin Name
         /\ \A i \in ibm, b \in Blk, s \in Slot : ~ino[i].dir /\ Holds(i, b) => blk[b][s].name \notin Name
  <1>1. ASSUME NEW b \in Blk \ bbm, NEW s \in Slot, blk[b][s].name \in Name PROVE FALSE
    <2>1. PICK d \in ibm : ino[d].dir /\ Holds(d, b)
      BY <1>1 DEF Housed
    <2> QED BY <1>1, <2>1, HeldIsUsed
  <1>2. ASSUME NEW i \in ibm, NEW b \in Blk, NEW s \in Slot, ~ino[i].dir, Holds(i, b), blk[b][s].name \in Name
        PROVE  FALSE
    <2>1. PICK d \in ibm : ino[d].dir /\ Holds(d, b)
      BY <1>2 DEF Housed
    <2> QED BY <1>2, <2>1, OneHolder
  <1> QED BY <1>1, <1>2

(* A directory's first entry is itself.                                     *)
LEMMA SelfRight ==
  ASSUME Typed, Known, Owned, Housed, AllNamed, Dotted, RootRight, NEW d \in ibm, ino[d].dir
  PROVE  Self(d) = d /\ IsDir(blk[ino[d].i_block[1]][1], ".", d)
  <1>1. CASE d = Root
    BY <1>1 DEF RootRight, Self, IsDir
  <1>2. CASE d # Root
    <2>1. PICK b \in Blk, s \in Slot : blk[b][s].name \in Name /\ blk[b][s].ino = d
      BY <1>2 DEF AllNamed
    <2>2. blk[b][s].dir /\ \E e \in ibm : ino[e].dir /\ Holds(e, b)
      BY <2>1 DEF Housed
    <2>3. PICK e \in ibm : ino[e].dir /\ Holds(e, b)
      BY <2>2
    <2>4. HasDots(d, e)
      BY <2>1, <2>2, <2>3 DEF Dotted
    <2> QED BY <2>4 DEF HasDots, IsDir, Self
  <1> QED BY <1>1, <1>2

(* What a step leaves of the tree: the names are the old ones, or one that  *)
(* is new, and an old name is gone only with its inode.                     *)
OldName(c, t) == /\ blk'[c][t] = blk[c][t] /\ blk[c][t].ino \in ibm'
                 /\ \E d \in ibm \cap ibm' : ino[d].dir /\ Holds(d, c)

(* One name is new: of inode i, which was free, in directory d.            *)
NewName(c, t, d, i) ==
  /\ blk'[c][t].ino = i /\ blk'[c][t].name \in Name /\ c \in Blk /\ t \in Slot
  /\ i \in ibm' /\ i \notin ibm /\ i # Root /\ (blk'[c][t].dir <=> ino'[i].dir)
  /\ d \in ibm /\ d \in ibm' /\ ino[d].dir /\ Holds(d, c)'
  /\ ino'[i].dir => HasDots(i, d)'

(* The names are the old ones, or that one; an old name goes with its      *)
(* inode.                                                                  *)
NamesStay(b, s, d, i) ==
  /\ \A c \in Blk, t \in Slot : blk'[c][t].name \in Name => OldName(c, t) \/ (c = b /\ t = s /\ NewName(c, t, d, i))
  /\ \A c \in Blk, t \in Slot : blk[c][t].name \in Name =>
       blk'[c][t] = blk[c][t] \/ blk[c][t].ino \notin ibm'
  /\ ibm' \subseteq ibm \/ (ibm' = ibm \cup {i} /\ NewName(b, s, d, i))
  /\ Root \in ibm'

(* An inode that stays in use keeps its kind, its blocks and its first     *)
(* entries.                                                                *)
InodesStay ==
  \A j \in ibm \cap ibm' :
    /\ ino'[j].dir <=> ino[j].dir
    /\ ino'[j].i_block[1] = ino[j].i_block[1]
    /\ \A c \in Blk : Holds(j, c) => Holds(j, c)'
    /\ ino[j].dir => \A t \in Slot :
         blk[ino[j].i_block[1]][t].name \in {".", ".."} =>
           blk'[ino[j].i_block[1]][t] = blk[ino[j].i_block[1]][t]

(* After such a step, the names are right again.                           *)
LEMMA TreeStays ==
  ASSUME Typed, Known, Owned, NamesRight, Typed', Owned', NEW b, NEW s, NEW d, NEW i,
         NamesStay(b, s, d, i), InodesStay
  PROVE  NamesRight'
  <1> USE DEF NamesRight
  <1>1. ASSUME NEW c \in Blk, NEW t \in Slot, blk[c][t].name \in Name, OldName(c, t)
        PROVE  /\ blk[c][t].ino \in ibm /\ blk[c][t].ino \in ibm'
               /\ blk'[c][t] = blk[c][t]
               /\ ino'[blk[c][t].ino].dir <=> ino[blk[c][t].ino].dir
    <2>1. blk[c][t].ino \in ibm
      BY <1>1 DEF Known
    <2> QED BY <1>1, <2>1 DEF OldName, InodesStay
  <1>2. Housed'
    <2> SUFFICES ASSUME NEW c \in Blk, NEW t \in Slot, blk'[c][t].name \in Name
                 PROVE  /\ \E e \in ibm' : ino'[e].dir /\ Holds(e, c)'
                        /\ blk'[c][t].dir <=> ino'[blk'[c][t].ino].dir
      BY DEF Housed
    <2>1. CASE OldName(c, t)
      <3>1. PICK e \in ibm \cap ibm' : ino[e].dir /\ Holds(e, c)
        BY <2>1 DEF OldName
      <3>2. ino'[e].dir /\ Holds(e, c)'
        BY <3>1 DEF InodesStay
      <3>3. blk[c][t].dir <=> ino[blk[c][t].ino].dir
        BY <2>1 DEF OldName, Housed
      <3>4. blk'[c][t] = blk[c][t]
        BY <2>1 DEF OldName
      <3>5. ino'[blk[c][t].ino].dir <=> ino[blk[c][t].ino].dir
        BY <1>1, <2>1, <3>4
      <3> QED BY <3>1, <3>2, <3>3, <3>4, <3>5
    <2>2. CASE NewName(c, t, d, i)
      BY <2>2 DEF NewName, InodesStay
    <2> QED BY <2>1, <2>2 DEF NamesStay
  <1>3. AllNamed'
    <2> SUFFICES ASSUME NEW j \in ibm', j # Root
                 PROVE  \E c \in Blk, t \in Slot : blk'[c][t].name \in Name /\ blk'[c][t].ino = j
      BY DEF AllNamed
    <2>1. CASE j \in ibm
      <3>1. PICK c \in Blk, t \in Slot : blk[c][t].name \in Name /\ blk[c][t].ino = j
        BY <2>1 DEF AllNamed
      <3>2. blk'[c][t] = blk[c][t]
        BY <3>1 DEF NamesStay
      <3> QED BY <3>1, <3>2
    <2>2. CASE j \notin ibm
      <3>1. j = i /\ NewName(b, s, d, i)
        BY <2>2 DEF NamesStay
      <3> QED BY <3>1 DEF NewName
    <2> QED BY <2>1, <2>2
  <1>4. Dotted'
    <2> SUFFICES ASSUME NEW e \in ibm', NEW c \in Blk, NEW t \in Slot,
                        ino'[e].dir, Holds(e, c)', blk'[c][t].name \in Name, blk'[c][t].dir,
                        NEW x, x = blk'[c][t].ino
                 PROVE  HasDots(x, e)'
      BY DEF Dotted, HasDots
    <2>1. CASE OldName(c, t)
      <3>1. PICK e0 \in ibm \cap ibm' : ino[e0].dir /\ Holds(e0, c)
        BY <2>1 DEF OldName
      <3>2. ino'[e0].dir /\ Holds(e0, c)'
        BY <3>1 DEF InodesStay
      <3>3. e = e0
        BY <3>1, <3>2, OneHolderNext
      <3>4. blk'[c][t] = blk[c][t] /\ x = blk[c][t].ino
        BY <2>1 DEF OldName
      <3>5. HasDots(x, e) /\ x \in ibm /\ x \in ibm' /\ ino[x].dir
        BY <1>1, <2>1, <3>1, <3>3, <3>4 DEF Dotted, Housed
      <3>6. PICK k : k = ino[x].i_block[1]
        OBVIOUS
      <3>7. IsDir(blk[k][1], ".", x) /\ IsDir(blk[k][2], "..", e)
        BY <3>5, <3>6 DEF HasDots
      <3>8. blk[k][1].name = "." /\ blk[k][2].name = ".." /\ ino'[x].i_block[1] = k
        BY <3>5, <3>6, <3>7 DEF IsDir, InodesStay
      <3>9. blk'[k][1] = blk[k][1] /\ blk'[k][2] = blk[k][2]
        <4>1. \A t1 \in Slot : blk[k][t1].name \in {".", ".."} => blk'[k][t1] = blk[k][t1]
          BY <3>5, <3>6 DEF InodesStay
        <4> QED BY <3>8, <4>1, Counts
      <3> QED BY <3>7, <3>8, <3>9 DEF HasDots
    <2>2. CASE c = b /\ t = s /\ NewName(c, t, d, i)
      <3>1. Holds(d, c)' /\ x = i /\ ino'[i].dir /\ HasDots(i, d)' /\ d \in ibm'
        BY <2>2 DEF NewName
      <3>2. e = d
        BY <3>1, OneHolderNext
      <3> QED BY <3>1, <3>2
    <2> QED BY <2>1, <2>2 DEF NamesStay
  <1>5. RootRight'
    <2>1. Root \in ibm \cap ibm' /\ ino[Root].dir
      BY DEF NamesStay, Typed, RootRight
    <2>2. PICK k : k = ino[Root].i_block[1]
      OBVIOUS
    <2>3. IsDir(blk[k][1], ".", Root)
      BY <2>2 DEF RootRight
    <2>4. ino'[Root].dir /\ ino'[Root].i_block[1] = k /\ blk'[k][1] = blk[k][1]
      BY <2>1, <2>2, <2>3, Counts DEF InodesStay, IsDir
    <2> QED BY <2>3, <2>4 DEF RootRight
  <1> QED BY <1>2, <1>3, <1>4, <1>5

(* A step that takes blocks: each goes to one place of one inode.           *)
Grows ==
  /\ ibm \subseteq ibm' /\ bbm \subseteq bbm'
  /\ \A j \in ibm, k \in Nat : k \in 1 .. NBlocks(j) =>
       k \in 1 .. NBlocks(j)' /\ ino'[j].i_block[k] = ino[j].i_block[k]
  /\ \A j \in ibm', k \in Nat : k \in 1 .. NBlocks(j)' =>
       (j \in ibm /\ k \in 1 .. NBlocks(j)) \/ ino'[j].i_block[k] \in bbm' \ bbm
  /\ \A j, l \in ibm', k, m \in Nat :
       /\ k \in 1 .. NBlocks(j)' /\ m \in 1 .. NBlocks(l)'
       /\ ino'[j].i_block[k] = ino'[l].i_block[m] /\ ino'[j].i_block[k] \notin bbm
       => j = l /\ k = m
  /\ \A b \in bbm' \ bbm : \E j \in ibm' : Holds(j, b)'
  /\ \A j \in ibm' : ino'[j].i_block # <<>>

(* After such a step, every block in use is still of one inode.            *)
LEMMA OwnedGrows ==
  ASSUME Typed, Owned, Grows
  PROVE  Owned'
  <1>1. ASSUME NEW j \in ibm', NEW k \in Nat, k \in 1 .. NBlocks(j)'
        PROVE  /\ ino'[j].i_block[k] \in bbm'
               /\ ino'[j].i_block[k] \in bbm => /\ j \in ibm /\ k \in 1 .. NBlocks(j)
                                                /\ ino'[j].i_block[k] = ino[j].i_block[k]
    BY <1>1 DEF Owned, Grows
  <1>2. ASSUME NEW j \in ibm', NEW l \in ibm', NEW k \in Nat, NEW m \in Nat,
               k \in 1 .. NBlocks(j)', m \in 1 .. NBlocks(l)',
               ino'[j].i_block[k] = ino'[l].i_block[m]
        PROVE  j = l /\ k = m
    <2>1. CASE ino'[j].i_block[k] \in bbm
      <3>1. /\ j \in ibm /\ k \in 1 .. NBlocks(j) /\ ino'[j].i_block[k] = ino[j].i_block[k]
            /\ l \in ibm /\ m \in 1 .. NBlocks(l) /\ ino'[l].i_block[m] = ino[l].i_block[m]
        BY <1>1, <1>2, <2>1
      <3> QED BY <1>2, <3>1 DEF Owned
    <2>2. CASE ino'[j].i_block[k] \notin bbm
      BY <1>2, <2>2 DEF Grows
    <2> QED BY <2>1, <2>2
  <1>3. ASSUME NEW b \in bbm' PROVE \E j \in ibm' : Holds(j, b)'
    <2>1. CASE b \in bbm
      <3>1. PICK j \in ibm : Holds(j, b)
        BY <2>1 DEF Owned
      <3>2. PICK k \in 1 .. NBlocks(j) : ino[j].i_block[k] = b
        BY <3>1 DEF Holds
      <3>3. k \in Nat
        BY <3>2
      <3>4. j \in ibm' /\ k \in 1 .. NBlocks(j)' /\ ino'[j].i_block[k] = b
        BY <3>2, <3>3 DEF Grows
      <3> QED BY <3>4 DEF Holds
    <2>2. CASE b \notin bbm
      BY <2>2 DEF Grows
    <2> QED BY <2>1, <2>2
  <1>4. \A j \in ibm' : ino'[j].i_block # <<>>
    BY DEF Grows
  <1> QED BY <1>1, <1>2, <1>3, <1>4 DEF Owned

(* Inode i is new, with block f.                                            *)
LEMMA OneMore ==
  ASSUME Typed, Owned, NEW i \in Ino \ ibm, NEW f \in Blk \ bbm,
         ibm' = ibm \cup {i}, bbm' = bbm \cup {f}, ino'[i].i_block = <<f>>,
         \A j \in Ino \ {i} : ino'[j] = ino[j]
  PROVE  Owned'
  <1>1. \A j \in ibm : ino'[j] = ino[j]
    BY DEF Typed
  <1>2. /\ \A j \in ibm : ino'[j].i_block = ino[j].i_block /\ NBlocks(j)' = NBlocks(j)
        /\ NBlocks(i)' = 1 /\ ino'[i].i_block[1] = f
    BY <1>1 DEF NBlocks
  <1>3. \A j \in ibm, k \in Nat : k \in 1 .. NBlocks(j) => ino'[j].i_block[k] \in bbm
    BY <1>2 DEF Owned
  <1>4. ASSUME NEW j \in ibm', NEW k \in Nat, k \in 1 .. NBlocks(j)'
        PROVE  \/ j \in ibm /\ k \in 1 .. NBlocks(j) /\ ino'[j].i_block[k] \in bbm
               \/ j = i /\ k = 1 /\ ino'[j].i_block[k] = f
    BY <1>2, <1>3, <1>4
  <1>5. Holds(i, f)'
    BY <1>2 DEF Holds
  <1>6. \A j \in ibm' : ino'[j].i_block # <<>>
    BY <1>2 DEF Owned
  <1>7. Grows
    BY <1>2, <1>4, <1>5, <1>6 DEF Grows
  <1> QED BY <1>7, OwnedGrows

(* Inode i is new, with block g, and d grows by f.                          *)
LEMMA OneMoreAndBlock ==
  ASSUME Typed, Owned, NEW i \in Ino \ ibm, NEW d \in ibm, NEW f \in Blk \ bbm, NEW g \in Blk \ bbm, f # g,
         ibm' = ibm \cup {i}, bbm' = bbm \cup {f, g}, ino'[i].i_block = <<g>>,
         ino'[d].i_block = Append(ino[d].i_block, f),
         \A j \in Ino \ {i} : j # d => ino'[j] = ino[j]
  PROVE  Owned'
  <1>1. \A j \in ibm \ {d} : ino'[j] = ino[j]
    BY DEF Typed
  <1>2. /\ \A j \in ibm \ {d} : ino'[j].i_block = ino[j].i_block /\ NBlocks(j)' = NBlocks(j)
        /\ NBlocks(i)' = 1 /\ ino'[i].i_block[1] = g
    BY <1>1 DEF NBlocks
  <1>3. /\ NBlocks(d) \in Nat /\ NBlocks(d)' = NBlocks(d) + 1
        /\ \A k \in 1 .. NBlocks(d) : ino'[d].i_block[k] = ino[d].i_block[k]
        /\ ino'[d].i_block[NBlocks(d) + 1] = f
        /\ ino'[d].i_block # <<>>
    <2>1. ino[d].i_block \in Seq(Blk)
      BY DEF Typed
    <2> QED BY <2>1, AppendIs DEF NBlocks
  <1>4. ASSUME NEW j \in ibm, NEW k \in Nat, k \in 1 .. NBlocks(j)
        PROVE  k \in 1 .. NBlocks(j)' /\ ino'[j].i_block[k] = ino[j].i_block[k] /\ ino[j].i_block[k] \in bbm
    <2>1. ino[j].i_block[k] \in bbm
      BY <1>4 DEF Owned
    <2>2. CASE j = d
      <3>1. PICK m \in Nat : m = NBlocks(d) /\ NBlocks(d)' = m + 1
        BY <1>3
      <3>2. k \in 1 .. m /\ k \in 1 .. m + 1
        BY <1>4, <2>2, <3>1
      <3>3. ino'[d].i_block[k] = ino[d].i_block[k]
        BY <1>3, <3>1, <3>2
      <3> QED BY <2>1, <2>2, <3>1, <3>2, <3>3
    <2>3. CASE j # d
      BY <1>2, <1>4, <2>1, <2>3
    <2> QED BY <2>2, <2>3
  <1>5. ASSUME NEW j \in ibm', NEW k \in Nat, k \in 1 .. NBlocks(j)'
        PROVE  \/ j \in ibm /\ k \in 1 .. NBlocks(j) /\ ino'[j].i_block[k] \in bbm
               \/ j = i /\ k = 1 /\ ino'[j].i_block[k] = g
               \/ j = d /\ k = NBlocks(d) + 1 /\ ino'[j].i_block[k] = f
    <2>1. CASE j = i
      BY <1>2, <1>5, <2>1
    <2>2. CASE j = d
      <3>1. PICK m \in Nat : m = NBlocks(d) /\ NBlocks(d)' = m + 1
        BY <1>3
      <3>2. k \in 1 .. m \/ k = m + 1
        BY <1>5, <2>2, <3>1
      <3> QED BY <1>3, <1>4, <2>2, <3>1, <3>2
    <2>3. CASE j \in ibm \ {d}
      BY <1>2, <1>4, <1>5, <2>3
    <2> QED BY <2>1, <2>2, <2>3
  <1>6. Holds(i, g)' /\ Holds(d, f)'
    BY <1>2, <1>3 DEF Holds
  <1>7. ASSUME NEW j \in ibm' PROVE ino'[j].i_block # <<>>
    <2>1. CASE j = i
      BY <2>1
    <2>2. CASE j = d
      BY <1>3, <2>2
    <2>3. CASE j \in ibm \ {d}
      BY <1>2, <2>3 DEF Owned
    <2> QED BY <2>1, <2>2, <2>3
  <1>8. Grows
    <2>1. \A j, l \in ibm', k, m \in Nat :
            /\ k \in 1 .. NBlocks(j)' /\ m \in 1 .. NBlocks(l)'
            /\ ino'[j].i_block[k] = ino'[l].i_block[m] /\ ino'[j].i_block[k] \notin bbm
            => j = l /\ k = m
      BY <1>5
    <2> QED BY <1>4, <1>5, <1>6, <1>7, <2>1 DEF Grows
  <1> QED BY <1>8, OwnedGrows

(* A file takes blocks that were free.                                     *)
LEMMA WrittenOwned ==
  ASSUME Typed, Owned, NEW i \in ibm, NEW new \in SUBSET (Blk \ bbm), UNCHANGED ibm,
         bbm' = bbm \cup new,
         ino'[i].i_block = ino[i].i_block \o InOrder(new),
         \A j \in Ino \ {i} : ino'[j] = ino[j]
  PROVE  Owned' /\ Grows /\ \A b \in new : Holds(i, b)'
  <1>1. /\ InOrder(new) \in Seq(Blk) /\ ino[i].i_block \in Seq(Blk)
        /\ \A b \in new : \E k \in 1 .. Len(InOrder(new)) : InOrder(new)[k] = b
        /\ \A k \in 1 .. Len(InOrder(new)) : InOrder(new)[k] \in new
        /\ \A k, m \in 1 .. Len(InOrder(new)) : InOrder(new)[k] = InOrder(new)[m] => k = m
    BY InOrderIs DEF Typed
  <1>2. PICK q : q = InOrder(new)
    OBVIOUS
  <1>3. PICK n, l : n = NBlocks(i) /\ l = Len(q)
    OBVIOUS
  <1>4. /\ n \in Nat /\ l \in Nat /\ NBlocks(i)' = n + l
        /\ \A k \in 1 .. n : ino'[i].i_block[k] = ino[i].i_block[k]
        /\ \A k \in 1 .. l : ino'[i].i_block[n + k] = q[k]
        /\ ino[i].i_block # <<>> => ino'[i].i_block # <<>>
    BY <1>1, <1>2, <1>3, ConcatIs DEF NBlocks
  <1>5. /\ \A b \in new : \E k \in 1 .. l : q[k] = b
        /\ \A k \in 1 .. l : q[k] \in new
        /\ \A k, m \in 1 .. l : q[k] = q[m] => k = m
    BY <1>1, <1>2, <1>3
  <1>6. \A j \in ibm \ {i} : ino'[j].i_block = ino[j].i_block /\ NBlocks(j)' = NBlocks(j)
    BY DEF NBlocks, Typed
  <1>7. ASSUME NEW j \in ibm, NEW k \in Nat, k \in 1 .. NBlocks(j)
        PROVE  k \in 1 .. NBlocks(j)' /\ ino'[j].i_block[k] = ino[j].i_block[k] /\ ino[j].i_block[k] \in bbm
    <2>1. ino[j].i_block[k] \in bbm
      BY <1>7 DEF Owned
    <2>2. CASE j = i
      <3>1. k \in 1 .. n /\ n \in Nat /\ l \in Nat
        BY <1>3, <1>4, <1>7, <2>2
      <3>2. k \in 1 .. n + l
        BY <3>1
      <3> QED BY <1>4, <2>1, <2>2, <3>1, <3>2
    <2>3. CASE j # i
      BY <1>6, <1>7, <2>1, <2>3
    <2> QED BY <2>2, <2>3
  <1>8. ASSUME NEW j \in ibm, NEW k \in Nat, k \in 1 .. NBlocks(j)'
        PROVE  \/ k \in 1 .. NBlocks(j) /\ ino'[j].i_block[k] \in bbm
               \/ j = i /\ k - n \in 1 .. l /\ ino'[j].i_block[k] = q[k - n] /\ ino'[j].i_block[k] \in new
    <2>1. CASE j = i /\ k > n
      <3>1. k - n \in 1 .. l /\ n + (k - n) = k
        BY <1>4, <1>8, <2>1
      <3>2. ino'[i].i_block[n + (k - n)] = q[k - n]
        BY <1>4, <3>1
      <3> QED BY <1>5, <2>1, <3>1, <3>2
    <2>2. CASE j = i /\ ~(k > n)
      <3>1. k \in 1 .. NBlocks(j)
        BY <1>3, <1>4, <1>8, <2>2
      <3> QED BY <3>1, <1>7
    <2>3. CASE j # i
      <3>1. k \in 1 .. NBlocks(j)
        BY <1>6, <1>8, <2>3
      <3> QED BY <3>1, <1>7
    <2> QED BY <2>1, <2>2, <2>3
  <1>9. ASSUME NEW b \in new PROVE Holds(i, b)'
    <2>1. PICK k \in 1 .. l : q[k] = b
      BY <1>5
    <2>2. n + k \in 1 .. n + l
      BY <1>4
    <2>3. n + k \in 1 .. NBlocks(i)' /\ ino'[i].i_block[n + k] = b
      BY <1>4, <2>1, <2>2
    <2> QED BY <2>3 DEF Holds
  <1>10. \A j \in ibm' : ino'[j].i_block # <<>>
    BY <1>4, <1>6 DEF Owned
  <1>11. ASSUME NEW j \in ibm, NEW m \in ibm, NEW k \in Nat, NEW o \in Nat,
                k \in 1 .. NBlocks(j)', o \in 1 .. NBlocks(m)',
                ino'[j].i_block[k] = ino'[m].i_block[o], ino'[j].i_block[k] \notin bbm
         PROVE  j = m /\ k = o
    <2>1. /\ j = i /\ k - n \in 1 .. l /\ ino'[j].i_block[k] = q[k - n]
          /\ m = i /\ o - n \in 1 .. l /\ ino'[m].i_block[o] = q[o - n]
      BY <1>8, <1>11
    <2>2. k - n = o - n
      BY <1>5, <1>11, <2>1
    <2> QED BY <1>4, <2>1, <2>2
  <1>12. Grows
    BY <1>7, <1>8, <1>9, <1>10, <1>11 DEF Grows
  <1> QED BY <1>9, <1>12, OwnedGrows

(* Inode i is freed with its blocks.                                       *)
LEMMA OneLess ==
  ASSUME Typed, Owned, NEW i \in ibm, ibm' = ibm \ {i},
         bbm' = bbm \ {ino[i].i_block[k] : k \in 1 .. NBlocks(i)},
         \A j \in ibm \ {i} : ino'[j] = ino[j]
  PROVE  Owned'
  <1>1. \A j \in ibm' : j \in ibm /\ ino'[j].i_block = ino[j].i_block /\ NBlocks(j)' = NBlocks(j)
    BY DEF NBlocks
  <1>2. \A b \in bbm : b \in bbm' <=> ~Holds(i, b)
    BY DEF Holds
  <1>3. ASSUME NEW j \in ibm', NEW k \in Nat, k \in 1 .. NBlocks(j)'
        PROVE  ino'[j].i_block[k] \in bbm'
    <2>1. k \in 1 .. NBlocks(j) /\ ino'[j].i_block[k] = ino[j].i_block[k] /\ Holds(j, ino[j].i_block[k])
      BY <1>1, <1>3 DEF Holds
    <2>2. ino[j].i_block[k] \in bbm /\ ~Holds(i, ino[j].i_block[k])
      BY <1>1, <1>3, <2>1, OneHolder, HeldIsUsed
    <2> QED BY <1>2, <2>1, <2>2
  <1>4. ASSUME NEW b \in bbm' PROVE \E j \in ibm' : Holds(j, b)'
    <2>1. PICK j \in ibm : Holds(j, b)
      BY DEF Owned
    <2>2. j \in ibm'
      BY <1>2, <2>1
    <2> QED BY <1>1, <2>1, <2>2 DEF Holds
  <1> QED BY <1>1, <1>3, <1>4 DEF Owned

(* The calls walk to a directory.                                          *)
LEMMA DirHere ==
  ASSUME Typed, Known, Housed, RootRight, NEW p \in Path, NEW d \in WalkOver(GetEntryPath(p))
  PROVE  d \in ibm /\ d \in Ino /\ ino[d].dir
  <1>1. d \in ibm /\ d \in Ino
    BY WalkOverIs
  <1>2. CASE d = Root
    BY <1>1, <1>2 DEF RootRight
  <1>3. CASE \E q \in Places(Root) : At(Root, q).name = p[1] /\ At(Root, q).dir /\ d = At(Root, q).ino
    <2>1. PICK q \in Places(Root) : At(Root, q).name = p[1] /\ At(Root, q).dir /\ d = At(Root, q).ino
      BY <1>3
    <2>2. PICK b \in Blk, s \in Slot : At(Root, q) = blk[b][s]
      BY PlaceIs DEF Typed
    <2>3. blk[b][s].name \in Name /\ blk[b][s].dir /\ blk[b][s].ino = d
      BY <2>1, <2>2, PathIs
    <2> QED BY <1>1, <2>3 DEF Housed
  <1> QED BY <1>1, <1>2, <1>3, WalkOverIs

(* The entry that First finds for a new name.                               *)
LEMMA PlaceHere ==
  ASSUME Typed, NEW d \in Ino, NEW q \in First(Named(d, "", BOOLEAN)), NEW b, b = ino[d].i_block[q[1]]
  PROVE  b \in Blk /\ q[2] \in Slot /\ Holds(d, b) /\ blk[b][q[2]].name = ""
  <1>1. q \in Named(d, "", BOOLEAN) /\ q \in Places(d) /\ At(d, q).name = ""
    BY NamedAre
  <1>2. q[1] \in 1 .. NBlocks(d)
    BY <1>1, PlaceIs
  <1> QED BY <1>1, <1>2, PlaceIs DEF Holds

(* Inodes that do not change stay.                                         *)
LEMMA SameInodes ==
  ASSUME \A j \in ibm \cap ibm' : ino'[j] = ino[j],
         \A j \in ibm \cap ibm', t \in Slot :
            ino[j].dir /\ blk[ino[j].i_block[1]][t].name \in {".", ".."} =>
              blk'[ino[j].i_block[1]][t] = blk[ino[j].i_block[1]][t]
  PROVE  InodesStay
  BY DEF InodesStay, Holds, NBlocks

(* Where nothing is freed, a name that is still there is an old one.       *)
LEMMA OldNames ==
  ASSUME Known, Housed, ibm \subseteq ibm', NEW c \in Blk, NEW t \in Slot, blk[c][t].name \in Name,
         blk'[c][t] = blk[c][t]
  PROVE  OldName(c, t)
  <1>1. blk[c][t].ino \in ibm
    BY DEF Known
  <1>2. \E d \in ibm : ino[d].dir /\ Holds(d, c)
    BY DEF Housed
  <1> QED BY <1>1, <1>2 DEF OldName

(* A descriptor for a new file keeps them apart,                           *)
LEMMA ApartGiven ==
  ASSUME Typed, Apart, NEW i, i \notin ibm, NEW g \in Fd, Gives(g, i),
         ibm' = ibm \cup {i}, ~ino'[i].dir, \A j \in ibm : ino'[j].dir <=> ino[j].dir
  PROVE  Apart'
  <1>1. /\ fdt'[g].inodeNo = i /\ \A h \in Fd : h # g => fdt'[h] = fdt[h]
    BY DEF Gives
  <1> SUFFICES ASSUME NEW f \in Fd, NEW h \in Fd, fdt'[f].valid
               PROVE  /\ fdt'[f].inodeNo \in ibm' /\ ~ino'[fdt'[f].inodeNo].dir
                      /\ f # h /\ fdt'[h].valid => fdt'[f].inodeNo # fdt'[h].inodeNo
    BY DEF Apart
  <1>2. \A e \in Fd : e # g /\ fdt'[e].valid => fdt'[e].inodeNo \in ibm /\ ~ino'[fdt'[e].inodeNo].dir
    BY <1>1 DEF Apart
  <1>3. f # g /\ h # g /\ f # h /\ fdt'[h].valid => fdt'[f].inodeNo # fdt'[h].inodeNo
    BY <1>1 DEF Apart
  <1> QED BY <1>1, <1>2, <1>3

(* and so does none.                                                       *)
LEMMA ApartStays ==
  ASSUME Apart, ibm \subseteq ibm', \A j \in ibm : ino'[j].dir <=> ino[j].dir,
         \A g \in Fd : fdt'[g].inodeNo = fdt[g].inodeNo /\ (fdt'[g].valid => fdt[g].valid)
  PROVE  Apart'
  BY DEF Apart

(* The tree is right after each kind of step: a file is made,              *)
LEMMA FileMadeTree ==
  ASSUME Typed, Known, Tree, NEW n \in Name, NEW i, NEW f, NEW b, NEW s, NEW d \in ibm,
         FileMade(n, i, f, b, s), ino[d].dir, Holds(d, b), blk[b][s].name = ""
  PROVE  Tree'
  <1> USE DEF Tree, NamesRight
  <1>1. /\ i \in Ino \ ibm /\ i # Root /\ f \in Blk \ bbm /\ b \in Blk /\ s \in Slot
        /\ blk'[b][s].name = n /\ blk'[b][s].ino = i /\ ~blk'[b][s].dir
        /\ \A c \in Blk, t \in Slot : c # b \/ t # s => blk'[c][t] = blk[c][t]
        /\ ~ino'[i].dir /\ ino'[i].i_block = <<f>>
        /\ \A j \in Ino \ {i} : ino'[j] = ino[j]
        /\ ibm' = ibm \cup {i} /\ bbm' = bbm \cup {f}
        /\ \E g \in Fd : Gives(g, i)
    BY DEF FileMade, IsFile
  <1>2. Typed'
    BY DEF FileMade
  <1>3. Owned'
    BY <1>1, OneMore
  <1>4. \A j \in ibm : ino'[j] = ino[j]
    BY <1>1 DEF Typed
  <1>5. Holds(d, b)'
    BY <1>4 DEF Holds, NBlocks
  <1>6. NewName(b, s, d, i)
    BY <1>1, <1>5 DEF NewName
  <1>7. \A c \in Blk, t \in Slot : blk[c][t].name \in Name => blk'[c][t] = blk[c][t]
    <2> SUFFICES ASSUME NEW c \in Blk, NEW t \in Slot, blk[c][t].name \in Name
                 PROVE  blk'[c][t] = blk[c][t]
      OBVIOUS
    <2>1. c # b \/ t # s
      BY Special
    <2> QED BY <1>1, <2>1
  <1>8. ASSUME NEW c \in Blk, NEW t \in Slot, blk'[c][t].name \in Name
        PROVE  OldName(c, t) \/ (c = b /\ t = s /\ NewName(c, t, d, i))
    <2>1. CASE c = b /\ t = s
      BY <1>6, <2>1
    <2>2. CASE ~(c = b /\ t = s)
      <3>1. blk'[c][t] = blk[c][t]
        BY <1>1, <2>2
      <3> QED BY <1>1, <1>8, <3>1, OldNames
    <2> QED BY <2>1, <2>2
  <1>9. NamesStay(b, s, d, i)
    BY <1>1, <1>6, <1>7, <1>8 DEF NamesStay, Typed
  <1>10. InodesStay
    <2>1. ASSUME NEW j \in ibm, NEW t \in Slot, blk[ino[j].i_block[1]][t].name \in {".", ".."}
          PROVE  blk'[ino[j].i_block[1]][t] = blk[ino[j].i_block[1]][t]
      <3>1. ino[j].i_block[1] \in Blk
        BY FirstHeld
      <3> QED BY <1>1, <2>1, <3>1
    <2> QED BY <1>4, <2>1, SameInodes
  <1>11. NamesRight'
    <2> HIDE DEF Tree, NamesRight
    <2>1. Owned /\ NamesRight
      BY DEF Tree
    <2> QED BY <1>2, <1>3, <1>9, <1>10, <2>1, TreeStays
  <1>12. Apart'
    BY <1>1, <1>4, ApartGiven
  <1> QED BY <1>3, <1>11, <1>12

(* a directory is made,                                                    *)
LEMMA DirMadeTree ==
  ASSUME Typed, Known, Tree, NEW n \in Name, NEW i, NEW f, NEW b, NEW s, NEW d \in ibm,
         DirMade(d, n, i, f, b, s), ino[d].dir, Holds(d, b), blk[b][s].name = ""
  PROVE  Tree'
  <1> USE DEF Tree, NamesRight
  <1>1. Self(d) = d /\ b \in bbm
    BY SelfRight, HeldIsUsed
  <1>2. /\ i \in Ino \ ibm /\ i # Root /\ f \in Blk \ bbm /\ b \in Blk /\ s \in Slot
        /\ IsDir(blk'[f][1], ".", i) /\ IsDir(blk'[f][2], "..", d)
        /\ b # f => IsDir(blk'[b][s], n, i)
        /\ ino'[i].dir /\ ino'[i].i_block = <<f>>
        /\ \A j \in Ino \ {i} : ino'[j] = ino[j]
        /\ ibm' = ibm \cup {i} /\ bbm' = bbm \cup {f} /\ UNCHANGED <<fdt, odd>>
    BY <1>1 DEF DirMade
  <1>3. Typed'
    BY DEF DirMade
  <1>4. \A c \in Blk, t \in Slot : ~(c = f /\ t \in {1, 2}) /\ (c # b \/ t # s) => blk'[c][t] = blk[c][t]
    BY DEF DirMade
  <1>5. blk'[b][s].name = n /\ blk'[b][s].ino = i /\ blk'[b][s].dir
    BY <1>1, <1>2 DEF IsDir
  <1>6. blk'[f][1].name = "." /\ blk'[f][2].name = ".."
    BY <1>2 DEF IsDir
  <1>7. Owned'
    BY <1>2, OneMore
  <1>8. \A j \in ibm : ino'[j] = ino[j]
    BY <1>2 DEF Typed
  <1>9. Holds(d, b)'
    BY <1>8 DEF Holds, NBlocks
  <1>10. NewName(b, s, d, i)
    <2>1. ino'[i].i_block[1] = f
      <3>1. PICK q : q = ino'[i].i_block
        OBVIOUS
      <3>2. q = <<f>>
        BY <1>2, <3>1
      <3> HIDE DEF Tree, NamesRight
      <3>3. q[1] = f
        BY ONLY <3>2
      <3> QED BY <3>1, <3>3
    <2>2. HasDots(i, d)'
      BY <1>2, <2>1 DEF HasDots
    <2> QED BY <1>2, <1>5, <1>9, <2>2 DEF NewName
  <1>11. \A c \in Blk, t \in Slot : blk[c][t].name \in Name => blk'[c][t] = blk[c][t]
    <2>1. \A t \in Slot : blk[f][t].name \notin Name
      BY <1>2, Bare
    <2> QED BY <1>4, <2>1, Special
  <1>12. ASSUME NEW c \in Blk, NEW t \in Slot, blk'[c][t].name \in Name
        PROVE  OldName(c, t) \/ (c = b /\ t = s /\ NewName(c, t, d, i))
    <2>1. CASE c = b /\ t = s
      BY <1>10, <2>1
    <2>2. CASE ~(c = b /\ t = s)
      <3>1. ~(c = f /\ t \in {1, 2})
        BY <1>12, <1>6, Special
      <3>2. blk'[c][t] = blk[c][t]
        BY <1>4, <2>2, <3>1
      <3> QED BY <1>2, <1>12, <3>2, OldNames
    <2> QED BY <2>1, <2>2
  <1>13. NamesStay(b, s, d, i)
    BY <1>2, <1>10, <1>11, <1>12 DEF NamesStay, Typed
  <1>14. InodesStay
    <2>1. ASSUME NEW j \in ibm, NEW t \in Slot, blk[ino[j].i_block[1]][t].name \in {".", ".."}
          PROVE  blk'[ino[j].i_block[1]][t] = blk[ino[j].i_block[1]][t]
      <3>1. ino[j].i_block[1] \in Blk /\ ino[j].i_block[1] \in bbm
        BY FirstHeld
      <3> QED BY <1>2, <1>4, <2>1, <3>1
    <2> QED BY <1>8, <2>1, SameInodes
  <1>15. NamesRight'
    <2> HIDE DEF Tree, NamesRight
    <2>1. Owned /\ NamesRight
      BY DEF Tree
    <2> QED BY <1>3, <1>7, <1>13, <1>14, <2>1, TreeStays
  <1>16. Apart'
    BY <1>2, <1>8, ApartStays
  <1> QED BY <1>7, <1>15, <1>16

(* a directory is made in a block that is new,                             *)
LEMMA DirAddedTree ==
  ASSUME Typed, Known, Tree, NEW n \in Name, NEW i, NEW f, NEW g, NEW d \in ibm,
         DirAdded(d, n, i, f, g), ino[d].dir
  PROVE  Tree'
  <1> USE DEF Tree, NamesRight
  <1>1. Self(d) = d /\ d \in Ino
    BY SelfRight DEF Typed
  <1>2. /\ i \in Ino \ ibm /\ i # Root /\ f \in Blk \ bbm /\ g \in Blk \ bbm /\ f # g
        /\ IsDir(blk'[f][1], n, i) /\ blk'[g] = Dots(i, d)
        /\ \A c \in Blk \ {g}, t \in Slot : c # f \/ t # 1 => blk'[c][t] = blk[c][t]
        /\ ino'[i].dir /\ ino'[i].i_block = <<g>>
        /\ \A j \in Ino \ {i} : j # d => ino'[j] = ino[j]
        /\ (ino'[d].dir <=> ino[d].dir) /\ ino'[d].i_block = Append(ino[d].i_block, f)
        /\ ibm' = ibm \cup {i} /\ bbm' = bbm \cup {f, g} /\ UNCHANGED <<fdt, odd>>
    BY <1>1 DEF DirAdded
  <1>3. Typed'
    BY DEF DirAdded
  <1>4. blk'[f][1].name = n /\ blk'[f][1].ino = i /\ blk'[f][1].dir
    BY <1>2 DEF IsDir
  <1>5. Owned'
    BY <1>2, OneMoreAndBlock
  <1>6. \A j \in ibm : j # d => ino'[j] = ino[j]
    BY <1>2 DEF Typed
  <1>7. /\ Holds(d, f)' /\ ino'[d].i_block[1] = ino[d].i_block[1]
        /\ \A c \in Blk : Holds(d, c) => Holds(d, c)'
    <2>1. ino[d].i_block \in Seq(Blk) /\ ino[d].i_block # <<>>
      BY <1>1 DEF Typed, Owned
    <2>2. /\ NBlocks(d)' = NBlocks(d) + 1 /\ NBlocks(d) \in Nat
          /\ \A k \in 1 .. NBlocks(d) : ino'[d].i_block[k] = ino[d].i_block[k]
          /\ ino'[d].i_block[NBlocks(d) + 1] = f
      BY <1>2, <2>1, AppendIs DEF NBlocks
    <2>3. 1 \in 1 .. NBlocks(d)
      BY <1>1, <2>1, SeqBlocks
    <2>4. Holds(d, f)'
      BY <2>2 DEF Holds
    <2>5. ASSUME NEW c \in Blk, Holds(d, c) PROVE Holds(d, c)'
      <3>1. PICK k \in 1 .. NBlocks(d) : ino[d].i_block[k] = c
        BY <2>5 DEF Holds
      <3>2. PICK m \in Nat : m = NBlocks(d) /\ NBlocks(d)' = m + 1
        BY <2>2
      <3>3. k \in 1 .. m /\ k \in 1 .. m + 1
        BY <3>1, <3>2
      <3>4. k \in 1 .. NBlocks(d)' /\ ino'[d].i_block[k] = c
        BY <2>2, <3>1, <3>2, <3>3
      <3> QED BY <3>4 DEF Holds
    <2> QED BY <2>2, <2>3, <2>4, <2>5
  <1>8. NewName(f, 1, d, i)
    <2>1. ino'[i].i_block[1] = g
      BY <1>2
    <2>2. IsDir(blk'[g][1], ".", i) /\ IsDir(blk'[g][2], "..", d)
      BY <1>1, <1>2, DotsIs
    <2>3. HasDots(i, d)'
      BY <2>1, <2>2 DEF HasDots
    <2> QED BY <1>2, <1>4, <1>7, <2>3, Counts DEF NewName
  <1>9. \A c \in Blk, t \in Slot : blk[c][t].name \in Name => blk'[c][t] = blk[c][t]
    <2>1. \A t \in Slot : blk[f][t].name \notin Name /\ blk[g][t].name \notin Name
      BY <1>2, Bare
    <2> QED BY <1>2, <2>1
  <1>10. ASSUME NEW c \in Blk, NEW t \in Slot, blk'[c][t].name \in Name
        PROVE  OldName(c, t) \/ (c = f /\ t = 1 /\ NewName(c, t, d, i))
    <2>1. CASE c = f /\ t = 1
      BY <1>8, <2>1
    <2>2. CASE ~(c = f /\ t = 1)
      <3>1. c # g
        BY <1>1, <1>2, <1>10, NoNames
      <3>2. blk'[c][t] = blk[c][t]
        BY <1>2, <2>2, <3>1
      <3> QED BY <1>2, <1>10, <3>2, OldNames
    <2> QED BY <2>1, <2>2
  <1>11. NamesStay(f, 1, d, i)
    BY <1>2, <1>8, <1>9, <1>10 DEF NamesStay, Typed
  <1>12. InodesStay
    <2>1. ASSUME NEW j \in ibm, NEW t \in Slot
          PROVE  blk'[ino[j].i_block[1]][t] = blk[ino[j].i_block[1]][t]
      <3>1. ino[j].i_block[1] \in Blk /\ ino[j].i_block[1] \in bbm
        BY FirstHeld
      <3> QED BY <1>2, <3>1
    <2>2. ASSUME NEW j \in ibm
          PROVE  /\ ino'[j].dir <=> ino[j].dir
                 /\ ino'[j].i_block[1] = ino[j].i_block[1]
                 /\ \A c \in Blk : Holds(j, c) => Holds(j, c)'
      <3>1. CASE j = d
        BY <1>2, <1>7, <3>1
      <3>2. CASE j # d
        BY <1>6, <3>2 DEF Holds, NBlocks
      <3> QED BY <3>1, <3>2
    <2> QED BY <2>1, <2>2 DEF InodesStay
  <1>13. NamesRight'
    <2> HIDE DEF Tree, NamesRight
    <2>1. Owned /\ NamesRight
      BY DEF Tree
    <2> QED BY <1>3, <1>5, <1>11, <1>12, <2>1, TreeStays
  <1>14. Apart'
    BY <1>2, <1>6, ApartStays
  <1> QED BY <1>5, <1>13, <1>14

(* a file is written.                                                      *)
LEMMA FileWrittenTree ==
  ASSUME Typed, Known, Tree, NEW f \in Fd, NEW i, NEW new, i = fdt[f].inodeNo, FileWritten(f, i, new)
  PROVE  Tree'
  <1> USE DEF Tree, NamesRight
  <1>1. /\ fdt[f].valid /\ i \in Ino
        /\ new \subseteq Blk \ bbm /\ bbm' = bbm \cup new /\ UNCHANGED <<ibm, odd>>
        /\ \A j \in Ino \ {i} : ino'[j] = ino[j]
        /\ ino'[i].dir <=> ino[i].dir
        /\ ino'[i].i_block = ino[i].i_block \o InOrder(new)
        /\ \A b \in Blk : blk'[b] = blk[b] \/ blk'[b] = Data
        /\ \A b \in Blk : blk'[b] # blk[b] => b \in new \/ Holds(i, b)
        /\ \A g \in Fd : (fdt'[g].valid <=> fdt[g].valid) /\ fdt'[g].inodeNo = fdt[g].inodeNo
    BY DEF FileWritten, Holds
  <1>2. Typed'
    BY DEF FileWritten
  <1>3. i \in ibm /\ ~ino[i].dir
    BY <1>1 DEF Apart
  <1>4. Owned' /\ Grows
    BY <1>1, <1>3, WrittenOwned
  <1>5. \A b \in Blk, s \in Slot : blk[b][s].name \in Name => blk'[b] = blk[b]
    BY <1>1, <1>3, Bare
  <1>6. ASSUME NEW c \in Blk, NEW t \in Slot, blk'[c][t].name \in Name
        PROVE  OldName(c, t)
    <2>1. blk'[c] = blk[c]
      BY <1>1, <1>6, NoNames
    <2> QED BY <1>1, <1>6, <2>1, OldNames
  <1>7. NamesStay(0, 0, 0, 0)
    BY <1>1, <1>5, <1>6 DEF NamesStay, Typed
  <1>8. InodesStay
    <2> SUFFICES ASSUME NEW j \in ibm
                 PROVE  /\ ino'[j].dir <=> ino[j].dir
                        /\ ino'[j].i_block[1] = ino[j].i_block[1]
                        /\ \A c \in Blk : Holds(j, c) => Holds(j, c)'
                        /\ ino[j].dir => blk'[ino[j].i_block[1]] = blk[ino[j].i_block[1]]
      BY DEF InodesStay
    <2>1. ino'[j].dir <=> ino[j].dir
      BY <1>1 DEF Typed
    <2>2. 1 \in 1 .. NBlocks(j) /\ j \in Ino
      <3>1. j \in Ino /\ ino[j].i_block # <<>>
        BY DEF Typed, Owned
      <3> QED BY <3>1, SeqBlocks
    <2>3. ino'[j].i_block[1] = ino[j].i_block[1]
      BY <1>4, <2>2 DEF Grows
    <2>4. ASSUME NEW c \in Blk, Holds(j, c) PROVE Holds(j, c)'
      <3>1. PICK k \in 1 .. NBlocks(j) : ino[j].i_block[k] = c
        BY <2>4 DEF Holds
      <3>2. k \in Nat
        BY <3>1
      <3>3. k \in 1 .. NBlocks(j)' /\ ino'[j].i_block[k] = c
        BY <1>4, <3>1, <3>2 DEF Grows
      <3> QED BY <3>3 DEF Holds
    <2>5. ASSUME ino[j].dir PROVE blk'[ino[j].i_block[1]] = blk[ino[j].i_block[1]]
      <3>1. /\ Holds(j, ino[j].i_block[1]) /\ ino[j].i_block[1] \in bbm /\ ino[j].i_block[1] \in Blk
        BY FirstHeld
      <3>2. ~Holds(i, ino[j].i_block[1])
        BY <1>3, <2>5, <3>1, OneHolder
      <3> QED BY <1>1, <3>1, <3>2
    <2> QED BY <2>1, <2>3, <2>4, <2>5
  <1>9. NamesRight'
    <2> HIDE DEF Tree, NamesRight
    <2>1. Owned /\ NamesRight
      BY DEF Tree
    <2> QED BY <1>2, <1>4, <1>7, <1>8, <2>1, TreeStays
  <1>10. Apart'
    <2>1. \A j \in ibm : ino'[j].dir <=> ino[j].dir
      BY <1>1 DEF Typed
    <2> QED BY <1>1, <2>1, ApartStays
  <1> QED BY <1>4, <1>9, <1>10

-----------------------------------------------------------------------------
(* All the blocks of an inode in use are freed.                             *)
LEMMA FreedIs ==
  ASSUME Typed, Owned, NEW i \in ibm
  PROVE  /\ Freed(i) = {ino[i].i_block[k] : k \in 1 .. NBlocks(i)}
         /\ Cardinality(Freed(i)) = NBlocks(i)
  <1>1. PICK n, q : n = NBlocks(i) /\ q = ino[i].i_block
    OBVIOUS
  <1>2. n \in Nat /\ q \in [1 .. n -> Blk]
    <2>1. i \in Ino
      BY DEF Typed
    <2> QED BY <1>1, <2>1, SeqBlocks
  <1>3. \A k \in 1 .. n : q[k] \in bbm
    BY <1>1, <1>2 DEF Owned
  <1>4. \A k, l \in 1 .. n : q[k] = q[l] => k = l
    <2>1. \A k \in 1 .. n : k \in Nat
      BY <1>2
    <2> QED BY <1>1, <2>1 DEF Owned
  <1> DEFINE T == {q[k] : k \in 1 .. n}
  <1>5. Freed(i) = T
    <2>1. Freed(i) = {q[k] : k \in {m \in 1 .. n : \A l \in 1 .. m : q[l] \in bbm}}
      BY <1>1 DEF Freed, NBlocks
    <2>2. \A m \in 1 .. n : \A l \in 1 .. m : q[l] \in bbm
      <3>1. \A m \in 1 .. n : \A l \in 1 .. m : l \in 1 .. n
        BY <1>2
      <3> QED BY <1>3, <3>1
    <2>3. {m \in 1 .. n : \A l \in 1 .. m : q[l] \in bbm} = 1 .. n
      BY <2>2
    <2> QED BY <2>1, <2>3
  <1>6. q \in Bijection(1 .. n, T)
    <2>1. q \in [1 .. n -> T]
      BY <1>2
    <2> QED BY <1>4, <2>1 DEF Bijection, Injection, Surjection, IsInjective
  <1>7. Cardinality(T) = n
    <2>1. IsFiniteSet(1 .. n) /\ Cardinality(1 .. n) = n
      BY <1>2, FS_Interval
    <2> HIDE DEF T
    <2> QED BY <1>6, <2>1, FS_Bijection DEF ExistsBijection
  <1> QED BY <1>1, <1>5, <1>7

(* The file RemoveFile finds is the first entry of its name in a directory, *)
(* and what OpenFile finds.                                                 *)
HitsFile(t, n) ==
  /\ t[2] \in ibm /\ t[2] \in Ino /\ ino[t[2]].dir /\ t = <<t[1], t[2]>>
  /\ t[1] \in Named(t[2], n, {FALSE})
  /\ \A q \in Named(t[2], n, BOOLEAN) : Before(t[1], q)

(* What RemoveFile finds in an inode is the first entry of either name.    *)
LEMMA HitsAre ==
  ASSUME Typed, NEW e \in Ino, NEW c, NEW n, NEW h \in Hits(e, c, n)
  PROVE  /\ h[2] = e /\ h = <<h[1], h[2]>> /\ h[1] \in Places(e)
         /\ h[1] \in Named(e, c, {TRUE}) \/ h[1] \in Named(e, n, {FALSE})
         /\ \A q \in Named(e, c, {TRUE}) \cup Named(e, n, {FALSE}) : Before(h[1], q)
         /\ Hits(e, c, n) = {h}
  <1> DEFINE P == Named(e, c, {TRUE}) \cup Named(e, n, {FALSE})
  <1>1. P \in SUBSET Places(e)
    BY DEF Named
  <1>2. h \in First(P) \X {e} /\ Hits(e, c, n) = First(P) \X {e}
    BY DEF Hits
  <1> HIDE DEF P
  <1>3. h[2] = e /\ h[1] \in First(P) /\ h = <<h[1], h[2]>>
    BY <1>2
  <1>4. First(P) = {h[1]} /\ h[1] \in P /\ \A q \in P : Before(h[1], q)
    BY <1>1, <1>3, FirstPlace
  <1>5. Hits(e, c, n) = {h}
    BY <1>2, <1>3, <1>4
  <1> QED BY <1>1, <1>3, <1>4, <1>5 DEF P

(* An entry is of a directory or of a file.                                *)
LEMMA BothKinds ==
  ASSUME Typed, NEW e \in Ino, NEW n
  PROVE  Named(e, n, BOOLEAN) = Named(e, n, {TRUE}) \cup Named(e, n, {FALSE})
  <1>1. \A q \in Places(e) : At(e, q).dir \in BOOLEAN
    BY PlaceIs DEF AnyEntry
  <1> QED BY <1>1 DEF Named

(* A name in the places of an inode in use: the inode is a directory, and   *)
(* the entry's kind is that of the inode it names.                          *)
LEMMA NameInDir ==
  ASSUME Typed, Known, Owned, Housed, NEW e \in ibm, NEW q \in Places(e), At(e, q).name \in Name
  PROVE  /\ ino[e].dir /\ At(e, q).ino \in ibm /\ At(e, q).ino # Root
         /\ At(e, q).dir <=> ino[At(e, q).ino].dir
         /\ ino[e].i_block[q[1]] \in Blk /\ q[2] \in Slot /\ Holds(e, ino[e].i_block[q[1]])
  <1>1. e \in Ino
    BY DEF Typed
  <1>2. PICK b, s : b = ino[e].i_block[q[1]] /\ s = q[2]
    OBVIOUS
  <1>3. b \in Blk /\ s \in Slot /\ At(e, q) = blk[b][s] /\ Holds(e, b)
    BY <1>1, <1>2, PlaceIs DEF Holds
  <1>4. /\ \E d \in ibm : ino[d].dir /\ Holds(d, b)
        /\ blk[b][s].dir <=> ino[blk[b][s].ino].dir
    BY <1>3 DEF Housed
  <1>5. ino[e].dir
    BY <1>3, <1>4, OneHolder
  <1>6. blk[b][s].ino \in ibm /\ blk[b][s].ino # Root
    BY <1>3 DEF Known
  <1> QED BY <1>2, <1>3, <1>4, <1>5, <1>6

(* If what it finds in a directory is a file, it is what OpenFile finds    *)
(* there.                                                                  *)
LEMMA HitIsFirst ==
  ASSUME Typed, Known, Owned, Housed, NEW e \in ibm, NEW n \in Name, NEW t \in Hits(e, n, n),
         ~At(t[2], t[1]).dir
  PROVE  HitsFile(t, n) /\ First(Named(e, n, {FALSE})) = {t[1]} /\ t[2] = e
  <1>1. e \in Ino
    BY DEF Typed
  <1>2. /\ t[2] = e /\ t = <<t[1], t[2]>> /\ t[1] \in Places(e)
        /\ t[1] \in Named(e, n, BOOLEAN)
        /\ \A q \in Named(e, n, BOOLEAN) : Before(t[1], q)
    BY <1>1, HitsAre, BothKinds
  <1>3. t[1] \in Named(e, n, {FALSE}) /\ At(e, t[1]).name = n
    BY <1>2 DEF Named
  <1>4. ino[e].dir
    BY <1>2, <1>3, NameInDir
  <1>5. First(Named(e, n, {FALSE})) = {t[1]}
    <2>1. Named(e, n, {FALSE}) \in SUBSET Places(e) /\ Named(e, n, {FALSE}) \subseteq Named(e, n, BOOLEAN)
      BY DEF Named
    <2> QED BY <1>1, <1>2, <1>3, <2>1, FirstPlace
  <1> QED BY <1>1, <1>2, <1>3, <1>4, <1>5 DEF HitsFile

(* So it is at the end of the path, unless that has one name twice.        *)
LEMMA TargetFile ==
  ASSUME Typed, Known, Owned, Housed, RootRight, NEW p \in Path, NEW t \in Target(p),
         ~ino[At(t[2], t[1]).ino].dir
  PROVE  /\ HitsFile(t, p[Len(p)])
         /\ Len(p) = 1 \/ p[1] # p[2] => t \in FileAt(p)
  <1>1. /\ Root \in Ino /\ Root \in ibm /\ p[1] \in Name /\ p[Len(p)] \in Name /\ Len(p) \in {1, 2}
        /\ Len(p) = 2 => p[2] \in Name
    BY PathIs DEF Typed
  <1>2. Places(Root) # {}
    <2>1. NBlocks(Root) \in Nat /\ 1 \in 1 .. NBlocks(Root) /\ Places(Root) = (1 .. NBlocks(Root)) \X Slot
      BY <1>1, SeqBlocks DEF Typed
    <2>2. <<1, 1>> \in Places(Root)
      BY <2>1, Counts
    <2> QED BY <2>2
  <1> DEFINE hit == Hits(Root, p[1], p[Len(p)])
  <1>3. CASE Len(p) = 1
    <2>1. t \in Hits(Root, p[1], p[1])
      BY <1>3 DEF Target
    <2>2. PICK n \in Name : n = p[1] /\ n = p[Len(p)]
      BY <1>1, <1>3
    <2>3. t \in Hits(Root, n, n)
      BY <2>1, <2>2
    <2>4. ~At(t[2], t[1]).dir
      <3>1. /\ t[2] = Root /\ t[1] \in Places(Root)
            /\ t[1] \in Named(Root, n, {TRUE}) \/ t[1] \in Named(Root, n, {FALSE})
        BY <1>1, <2>3, HitsAre
      <3>2. At(Root, t[1]).name = n
        BY <3>1 DEF Named
      <3> QED BY <1>1, <3>1, <3>2, NameInDir
    <2>5. HitsFile(t, n) /\ First(Named(Root, n, {FALSE})) = {t[1]} /\ t[2] = Root
      BY <1>1, <2>3, <2>4, HitIsFirst
    <2>6. WalkOver(GetEntryPath(p)) = {Root}
      BY <1>3, PathIs DEF WalkOver, Walk
    <2>7. FileAt(p) = {t[1]} \X {Root}
      BY <1>1, <2>2, <2>5, <2>6, FileAtIs
    <2>8. t \in FileAt(p)
      BY <2>5, <2>7 DEF HitsFile
    <2> QED BY <2>2, <2>5, <2>8
  <1>4. CASE Len(p) = 2
    <2>1. PICK m \in Name, n \in Name : m = p[1] /\ n = p[2] /\ n = p[Len(p)]
      BY <1>1, <1>4
    <2> DEFINE below == IF hit = {} THEN {Root} ELSE {At(h[2], h[1]).ino : h \in hit}
    <2>2. /\ Target(p) = UNION {IF Places(x) = {} THEN hit ELSE Hits(x, n, n) : x \in below}
          /\ hit = Hits(Root, m, n)
      BY <1>4, <2>1 DEF Target
    <2>3. ASSUME NEW h \in hit
          PROVE  /\ hit = {h} /\ h[2] = Root /\ h[1] \in Places(Root)
                 /\ h[1] \in Named(Root, m, {TRUE}) \/ h[1] \in Named(Root, n, {FALSE})
                 /\ At(Root, h[1]).name \in Name
                 /\ \A q \in Named(Root, m, {TRUE}) \cup Named(Root, n, {FALSE}) : Before(h[1], q)
                 /\ At(Root, h[1]).ino \in ibm
                 /\ At(Root, h[1]).dir <=> ino[At(Root, h[1]).ino].dir
      <3>1. h \in Hits(Root, m, n)
        BY <2>2
      <3> HIDE DEF hit
      <3>2. /\ h[2] = Root /\ h = <<h[1], h[2]>> /\ h[1] \in Places(Root)
            /\ h[1] \in Named(Root, m, {TRUE}) \/ h[1] \in Named(Root, n, {FALSE})
            /\ \A q \in Named(Root, m, {TRUE}) \cup Named(Root, n, {FALSE}) : Before(h[1], q)
            /\ hit = {h}
        BY <1>1, <2>2, <3>1, HitsAre
      <3>3. At(Root, h[1]).name \in Name
        BY <2>1, <3>2 DEF Named
      <3> QED BY <1>1, <3>2, <3>3, NameInDir
    <2>4. below \subseteq ibm
      <3> HIDE DEF hit
      <3> QED BY <1>1, <2>3
    <2>5. \A x \in below : Places(x) # {}
      <3> SUFFICES ASSUME NEW x \in ibm PROVE Places(x) # {}
        BY <2>4
      <3>1. x \in Ino /\ ino[x].i_block # <<>>
        BY DEF Owned, Typed
      <3>2. Places(x) = (1 .. NBlocks(x)) \X Slot /\ 1 \in 1 .. NBlocks(x)
        BY <3>1, SeqBlocks
      <3>3. <<1, 1>> \in Places(x)
        BY <3>2, Counts
      <3> QED BY <3>3
    <2>6. PICK x \in below : t \in Hits(x, n, n)
      <3> HIDE DEF below, hit
      <3> QED BY <2>2, <2>5
    <2>7. x \in ibm /\ x \in Ino
      BY <2>4, <2>6 DEF Typed
    <2>8. /\ t[2] = x /\ t[1] \in Places(x) /\ At(x, t[1]).name = n
          /\ ino[x].dir /\ ~At(t[2], t[1]).dir
      <3> HIDE DEF below, hit
      <3>1. /\ t[2] = x /\ t[1] \in Places(x)
            /\ t[1] \in Named(x, n, {TRUE}) \/ t[1] \in Named(x, n, {FALSE})
        BY <2>6, <2>7, HitsAre
      <3>2. At(x, t[1]).name = n
        BY <3>1 DEF Named
      <3> QED BY <2>7, <3>1, <3>2, NameInDir
    <2>9. HitsFile(t, n) /\ First(Named(x, n, {FALSE})) = {t[1]}
      <3> HIDE DEF below, hit
      <3> QED BY <2>6, <2>7, <2>8, HitIsFirst
    <2>10. ASSUME m # n PROVE t \in FileAt(p)
      <3>1. GetEntryPath(p) # <<>> /\ GetEntryPath(p)[1] = m
        BY <1>4, <2>1, <2>10, PathIs
      <3>2. Walk(GetEntryPath(p)) = Child(Root, m)
        BY <3>1 DEF Walk
      <3>3. WalkOver(GetEntryPath(p)) = {x}
        <4>1. CASE hit = {}
          <5>1. x = Root
            BY <2>6, <4>1
          <5>2. t[1] \in Named(Root, n, {FALSE})
            BY <2>9, <5>1, <2>8 DEF HitsFile
          <5>3. Hits(Root, m, n) # {}
            <6> DEFINE P == Named(Root, m, {TRUE}) \cup Named(Root, n, {FALSE})
            <6>1. P \in SUBSET Places(Root) /\ P # {}
              BY <5>2 DEF Named
            <6> HIDE DEF P
            <6>2. PICK q : q \in First(P)
              BY <1>1, <6>1, FirstPlace
            <6>3. <<q, Root>> \in Hits(Root, m, n)
              BY <6>2 DEF Hits, P
            <6> QED BY <6>3
          <5> QED BY <2>2, <4>1, <5>3
        <4>2. CASE hit # {}
          <5>1. PICK h \in hit : TRUE
            BY <4>2
          <5>2. x = At(Root, h[1]).ino
            <6> HIDE DEF hit
            <6> QED BY <2>3, <2>6, <4>2, <5>1
          <5>3. At(Root, h[1]).dir
            <6> HIDE DEF hit, below
            <6> QED BY <2>3, <2>8, <5>1, <5>2
          <5>4. h[1] \in Named(Root, m, {TRUE}) /\ \A q \in Named(Root, m, {TRUE}) : Before(h[1], q)
            <6> HIDE DEF hit, below
            <6> QED BY <2>3, <5>1, <5>3 DEF Named
          <5>5. First(Named(Root, m, {TRUE})) = {h[1]}
            <6>1. Named(Root, m, {TRUE}) \in SUBSET Places(Root)
              BY DEF Named
            <6> QED BY <1>1, <5>4, <6>1, FirstPlace
          <5>6. Child(Root, m) = {x}
            BY <5>2, <5>5 DEF Child
          <5> QED BY <3>2, <5>6 DEF WalkOver
        <4> QED BY <4>1, <4>2
      <3>4. FileAt(p) = {t[1]} \X {x}
        <4> HIDE DEF below, hit
        <4> QED BY <2>1, <2>7, <2>9, <3>3, FileAtIs
      <3> QED BY <2>8, <2>9, <3>4 DEF HitsFile
    <2> QED BY <1>4, <2>1, <2>9, <2>10
  <1> QED BY <1>1, <1>3, <1>4

-----------------------------------------------------------------------------
(* In the block, the file's name comes first where RemoveFile found it.     *)
LEMMA SlotIs ==
  ASSUME Typed, NEW t, NEW n, HitsFile(t, n), NEW b, b = ino[t[2]].i_block[t[1][1]]
  PROVE  /\ b \in Blk /\ t[1][2] \in Slot /\ t[1] \in Places(t[2])
         /\ blk[b][t[1][2]] = At(t[2], t[1]) /\ blk[b][t[1][2]].name = n
         /\ SlotOf(b, n) = {t[1][2]}
  <1>1. PICK e, k, s : e = t[2] /\ k = t[1][1] /\ s = t[1][2]
    OBVIOUS
  <1>2. /\ e \in Ino /\ t[1] \in Places(e) /\ At(e, t[1]).name = n
        /\ \A q \in Named(e, n, BOOLEAN) : Before(t[1], q)
    BY <1>1 DEF HitsFile, Named
  <1>3. k \in 1 .. NBlocks(e) /\ s \in Slot /\ b \in Blk /\ At(e, t[1]) = blk[b][s]
    BY <1>1, <1>2, PlaceIs
  <1>4. blk[b][s].name = n /\ s \in Nat
    BY <1>2, <1>3, Counts
  <1>5. ASSUME NEW u \in Slot, blk[b][u].name = n
        PROVE  s <= u
    <2>1. <<k, u>> \in Places(e)
      BY <1>2, <1>3, SeqBlocks
    <2>2. At(e, <<k, u>>) = blk[b][u] /\ At(e, <<k, u>>) \in AnyEntry
      BY <1>1, <1>2, <2>1, PlaceIs
    <2>3. <<k, u>> \in Named(e, n, BOOLEAN)
      BY <1>5, <2>1, <2>2 DEF Named, AnyEntry
    <2>4. Before(t[1], <<k, u>>)
      BY <1>2, <2>3
    <2>5. k \in Nat /\ u \in Nat
      BY <1>3, Counts
    <2> QED BY <1>1, <1>4, <2>4, <2>5 DEF Before
  <1>6. SlotOf(b, n) = {s}
    <2>1. \A u \in 1 .. s - 1 : blk[b][u].name # n
      <3> SUFFICES ASSUME NEW u \in 1 .. s - 1, blk[b][u].name = n PROVE FALSE
        OBVIOUS
      <3>1. u \in Slot /\ u < s
        BY <1>3, <1>4, Counts DEF Slot
      <3> QED BY <1>4, <1>5, <3>1, Counts
    <2>2. s \in SlotOf(b, n)
      BY <1>3, <1>4, <2>1 DEF SlotOf
    <2>3. ASSUME NEW u \in SlotOf(b, n) PROVE u = s
      <3>1. u \in Slot /\ blk[b][u].name = n /\ \A v \in 1 .. u - 1 : blk[b][v].name # n
        BY <2>3 DEF SlotOf
      <3>2. s <= u
        BY <1>5, <3>1
      <3>3. s <= u /\ u \in Nat /\ s \in Nat /\ s >= 1
        BY ONLY <1>3, <3>1, <3>2, Counts DEF Slot
      <3>4. ~(s \in 1 .. u - 1)
        BY <1>4, <3>1
      <3> QED BY <3>3, <3>4
    <2> QED BY <2>2, <2>3
  <1> QED BY <1>1, <1>2, <1>3, <1>4, <1>6

(* If what it removes is a file that is not open, the name, the inode and  *)
(* the blocks go together.                                                 *)
LEMMA FileRemovedIs ==
  ASSUME Typed, Known, Tree, NEW p \in Path, NEW t \in Target(p), NEW S, NEW i, NEW b,
         FileRemoved(p, t, S, i, b), ~odd'
  PROVE  /\ HitsFile(t, p[Len(p)]) /\ i = At(t[2], t[1]).ino
         /\ Len(p) = 1 \/ p[1] # p[2] => t \in FileAt(p)
         /\ i \in ibm /\ i # Root /\ ~ino[i].dir /\ ~IsOpen(i)
         /\ b \in Blk /\ t[1][2] \in Slot /\ S = {t[1][2]}
         /\ blk[b][t[1][2]].name \in Name /\ blk[b][t[1][2]].ino = i
         /\ ibm' = ibm \ {i} /\ bbm' = bbm \ {ino[i].i_block[k] : k \in 1 .. NBlocks(i)}
  <1> USE DEF Tree, NamesRight
  <1>1. /\ i = At(t[2], t[1]).ino /\ b = ino[t[2]].i_block[t[1][1]]
        /\ S = IF Cardinality(Freed(i)) < NBlocks(i) THEN {}
               ELSE {s \in SlotOf(b, p[Len(p)]) : blk[b][s].ino \in ibm}
        /\ bbm' = bbm \ Freed(i)
        /\ ibm' = ibm \ {blk[b][s].ino : s \in S}
        /\ odd' = (odd \/ ino[i].dir \/ IsOpen(i))
    BY DEF FileRemoved
  <1>2. ~ino[i].dir /\ ~IsOpen(i)
    BY <1>1
  <1>3. PICK n \in Name : n = p[Len(p)]
    BY PathIs
  <1>4. HitsFile(t, n) /\ (Len(p) = 1 \/ p[1] # p[2] => t \in FileAt(p))
    BY <1>1, <1>2, <1>3, TargetFile
  <1>5. PICK s : s = t[1][2]
    OBVIOUS
  <1>6. /\ b \in Blk /\ s \in Slot /\ t[1] \in Places(t[2])
        /\ blk[b][s] = At(t[2], t[1]) /\ blk[b][s].name = n /\ SlotOf(b, n) = {s}
    BY <1>1, <1>4, <1>5, SlotIs
  <1>7. i \in ibm /\ i # Root /\ blk[b][s].ino = i
    BY <1>1, <1>3, <1>6 DEF Known
  <1>8. Freed(i) = {ino[i].i_block[k] : k \in 1 .. NBlocks(i)} /\ ~(Cardinality(Freed(i)) < NBlocks(i))
    <2>1. Freed(i) = {ino[i].i_block[k] : k \in 1 .. NBlocks(i)} /\ Cardinality(Freed(i)) = NBlocks(i)
      BY <1>7, FreedIs
    <2>2. NBlocks(i) \in Nat
      BY <1>7, SeqBlocks DEF Typed
    <2> QED BY <2>1, <2>2
  <1>9. S = {u \in {s} : blk[b][u].ino \in ibm}
    BY <1>1, <1>3, <1>6, <1>8
  <1>10. S = {s}
    BY <1>7, <1>9
  <1>11. ibm' = ibm \ {i}
    BY <1>1, <1>7, <1>10
  <1> QED BY <1>1, <1>2, <1>3, <1>4, <1>5, <1>6, <1>7, <1>8, <1>10, <1>11

(* The tree is right after a file is removed,                              *)
LEMMA FileRemovedTree ==
  ASSUME Typed, Known, Tree, NEW p \in Path, NEW t \in Target(p), NEW S, NEW i, NEW b,
         FileRemoved(p, t, S, i, b), ~odd'
  PROVE  Tree'
  <1> USE DEF Tree, NamesRight
  <1>1. PICK s : s = t[1][2]
    OBVIOUS
  <1>2. /\ i \in ibm /\ i # Root /\ ~ino[i].dir /\ ~IsOpen(i)
        /\ b \in Blk /\ s \in Slot /\ S = {s}
        /\ blk[b][s].name \in Name /\ blk[b][s].ino = i
        /\ ibm' = ibm \ {i} /\ bbm' = bbm \ {ino[i].i_block[k] : k \in 1 .. NBlocks(i)}
    BY <1>1, FileRemovedIs
  <1>3. /\ \A u \in S : blk'[b][u] = Empty
        /\ \A c \in Blk, u \in Slot : c # b \/ u \notin S => blk'[c][u] = blk[c][u]
        /\ UNCHANGED <<ino, fdt>>
    BY DEF FileRemoved
  <1>4. /\ blk'[b][s].name \notin Name
        /\ \A c \in Blk, u \in Slot : c # b \/ u # s => blk'[c][u] = blk[c][u]
    BY <1>2, <1>3, NoNames
  <1>5. Typed'
    BY RemoveFileTyped
  <1>6. Owned'
    BY <1>2, <1>3, OneLess
  <1>7. ASSUME NEW c \in Blk, NEW u \in Slot, blk'[c][u].name \in Name
        PROVE  OldName(c, u)
    <2>1. (c # b \/ u # s) /\ blk'[c][u] = blk[c][u] /\ blk[c][u].name \in Name
      BY <1>4, <1>7
    <2>2. blk[c][u].ino \in ibm /\ blk[c][u].ino # i
      BY <1>2, <2>1 DEF Known
    <2>3. PICK d \in ibm : ino[d].dir /\ Holds(d, c)
      BY <2>1 DEF Housed
    <2>4. d \in ibm \cap ibm'
      BY <1>2, <2>3
    <2> QED BY <1>2, <2>1, <2>2, <2>3, <2>4 DEF OldName
  <1>8. NamesStay(0, 0, 0, 0)
    BY <1>2, <1>4, <1>7 DEF NamesStay, Typed
  <1>9. InodesStay
    <2>1. ASSUME NEW j \in ibm, NEW u \in Slot, blk[ino[j].i_block[1]][u].name \in {".", ".."}
          PROVE  blk'[ino[j].i_block[1]][u] = blk[ino[j].i_block[1]][u]
      <3>1. ino[j].i_block[1] \in Blk
        BY FirstHeld
      <3> QED BY <1>2, <1>4, <2>1, <3>1, Special
    <2> QED BY <1>3, <2>1, SameInodes
  <1>10. NamesRight'
    <2> HIDE DEF Tree, NamesRight
    <2>1. Owned /\ NamesRight
      BY DEF Tree
    <2> QED BY <1>5, <1>6, <1>8, <1>9, <2>1, TreeStays
  <1>11. Apart'
    BY <1>2, <1>3 DEF Apart, IsOpen
  <1> QED BY <1>6, <1>10, <1>11

(* after a directory is removed: nothing in it is named,                   *)
LEMMA DirRemovedTree ==
  ASSUME Typed, Known, Tree, NEW p \in Path, NEW d, NEW q, NEW i, NEW b, DirRemoved(p, d, q, i, b)
  PROVE  Tree'
  <1> USE DEF Tree, NamesRight
  <1>1. PICK s : s = q[2]
    OBVIOUS
  <1>2. /\ i = At(d, q).ino /\ b = ino[d].i_block[q[1]]
        /\ d \in ibm /\ d \in Ino /\ b \in Blk /\ i \in ibm /\ i # Root /\ i \in Ino
        /\ q \in Places(d) /\ s \in Slot
        /\ blk[b][s].name \in Name /\ blk[b][s].dir /\ blk[b][s].ino = i
        /\ DirIsEmpty(i)
        /\ bbm' = bbm \ {ino[i].i_block[k] : k \in 1 .. NBlocks(i)}
        /\ ibm' = ibm \ {i}
        /\ \A j \in Ino \ {i} : ino'[j] = ino[j]
        /\ UNCHANGED <<fdt, odd>>
    BY <1>1, PathIs DEF DirRemoved
  <1>3. \A c \in Blk, u \in Slot :
           blk'[c][u] = IF c = b /\ u = s THEN Empty
                        ELSE IF Holds(i, c) THEN Empty
                        ELSE blk[c][u]
    BY <1>1 DEF DirRemoved, Holds
  <1>4. Typed'
    BY DEF DirRemoved
  <1>5. ASSUME NEW c \in Blk, Holds(i, c), NEW u \in Slot
        PROVE  blk[c][u].name \notin Name
    <2>1. PICK k \in 1 .. NBlocks(i) : ino[i].i_block[k] = c
      BY <1>5 DEF Holds
    <2>2. <<k, u>> \in Places(i)
      BY <1>2, <2>1, SeqBlocks
    <2>3. At(i, <<k, u>>) = blk[c][u]
      BY <1>2, <2>1, <2>2, PlaceIs
    <2>4. At(i, <<k, u>>).name \in {"", ".", ".."}
      BY <1>2, <2>2 DEF DirIsEmpty
    <2> QED BY <2>3, <2>4, Special
  <1>6. ino[i].dir /\ ~Holds(i, b)
    BY <1>2, <1>5 DEF Housed
  <1>7. \A c \in Blk, u \in Slot : blk[c][u].name \in Name /\ ~(c = b /\ u = s) => blk'[c][u] = blk[c][u]
    BY <1>3, <1>5
  <1>8. Owned'
    <2>1. \A j \in ibm \ {i} : ino'[j] = ino[j]
      BY <1>2 DEF Typed
    <2> QED BY <1>2, <2>1, OneLess
  <1>9. ASSUME NEW c \in Blk, NEW u \in Slot, blk'[c][u].name \in Name
        PROVE  OldName(c, u)
    <2>1. ~(c = b /\ u = s) /\ ~Holds(i, c) /\ blk'[c][u] = blk[c][u] /\ blk[c][u].name \in Name
      BY <1>3, <1>9, NoNames
    <2>2. blk[c][u].ino \in ibm /\ blk[c][u].ino # i
      BY <1>2, <2>1 DEF Known
    <2>3. PICK e \in ibm : ino[e].dir /\ Holds(e, c)
      BY <2>1 DEF Housed
    <2>4. e \in ibm \cap ibm'
      BY <1>2, <2>1, <2>3
    <2> QED BY <1>2, <2>1, <2>2, <2>3, <2>4 DEF OldName
  <1>10. NamesStay(0, 0, 0, 0)
    BY <1>2, <1>7, <1>9 DEF NamesStay, Typed
  <1>11. InodesStay
    <2>1. ASSUME NEW j \in ibm', NEW u \in Slot, blk[ino[j].i_block[1]][u].name \in {".", ".."}
          PROVE  blk'[ino[j].i_block[1]][u] = blk[ino[j].i_block[1]][u]
      <3>1. j \in ibm /\ j # i
        BY <1>2, <2>1
      <3>2. ino[j].i_block[1] \in Blk /\ Holds(j, ino[j].i_block[1])
        BY <3>1, FirstHeld
      <3>3. ~Holds(i, ino[j].i_block[1])
        BY <1>2, <3>1, <3>2, OneHolder
      <3>4. ~(ino[j].i_block[1] = b /\ u = s)
        BY <1>2, <2>1, Special
      <3> QED BY <1>3, <3>2, <3>3, <3>4
    <2>2. \A j \in ibm \cap ibm' : ino'[j] = ino[j]
      BY <1>2 DEF Typed
    <2> QED BY <2>1, <2>2, SameInodes
  <1>12. NamesRight'
    <2> HIDE DEF Tree, NamesRight
    <2>1. Owned /\ NamesRight
      BY DEF Tree
    <2> QED BY <1>4, <1>8, <1>10, <1>11, <2>1, TreeStays
  <1>13. Apart'
    <2>1. \A j \in ibm \ {i} : ino'[j] = ino[j]
      BY <1>2 DEF Typed
    <2> QED BY <1>2, <1>6, <2>1 DEF Apart
  <1> QED BY <1>8, <1>12, <1>13

-----------------------------------------------------------------------------
(* with nothing but the root,                                              *)
LEMMA InitTree ==
  ASSUME Init
  PROVE  Tree
  <1>1. Typed /\ Known
    BY InitKnown
  <1>2. /\ ino[Root] = [dir |-> TRUE, i_block |-> <<1>>]
        /\ ibm = {Root} /\ bbm = {1} /\ \A f \in Fd : ~fdt[f].valid
    BY Counts DEF Init, Closed, Root
  <1>3. /\ NBlocks(Root) = 1 /\ ino[Root].i_block[1] = 1 /\ ino[Root].i_block # <<>> /\ ino[Root].dir
        /\ Holds(Root, 1)
    BY <1>2 DEF NBlocks, Holds
  <1>4. blk[1][1] = Entry(".", Root, TRUE)
    BY Counts DEF Init, Zeroes
  <1>5. \A b \in Blk, s \in Slot : blk[b][s].name \notin Name
    <2>1. Entry(".", Root, TRUE).name = "." /\ Empty.name = ""
      BY DEF Entry, Empty
    <2>2. \A b \in Blk, s \in Slot : blk[b][s] \in {Entry(".", Root, TRUE), Empty}
      BY DEF Init, Zeroes
    <2> QED BY <2>1, <2>2, Special
  <1>6. Owned
    <2>1. \A k \in Nat : k \in 1 .. NBlocks(Root) => k = 1
      BY <1>3
    <2> QED BY <1>2, <1>3, <2>1 DEF Owned
  <1>7. Housed /\ AllNamed /\ Dotted /\ Apart
    BY <1>2, <1>5 DEF Housed, AllNamed, Dotted, Apart
  <1>8. RootRight
    BY <1>3, <1>4, EntryOf DEF RootRight
  <1> QED BY <1>6, <1>7, <1>8 DEF Tree, NamesRight

(* when nothing on the disk changes,                                       *)
LEMMA DiskStays ==
  ASSUME Owned, NamesRight, UNCHANGED <<ino, blk, ibm, bbm>>
  PROVE  Owned' /\ NamesRight'
  <1>1. \A i : NBlocks(i)' = NBlocks(i)
    BY DEF NBlocks
  <1>2. \A i, b : Holds(i, b)' <=> Holds(i, b)
    BY <1>1 DEF Holds
  <1>3. \A i, d : HasDots(i, d)' <=> HasDots(i, d)
    BY DEF HasDots
  <1>4. Owned'
    BY <1>1, <1>2 DEF Owned
  <1>5. Housed'
    BY <1>2 DEF NamesRight, Housed
  <1>6. AllNamed'
    BY DEF NamesRight, AllNamed
  <1>7. Dotted'
    BY <1>2, <1>3 DEF NamesRight, Dotted
  <1>8. RootRight'
    BY DEF NamesRight, RootRight
  <1> QED BY <1>4, <1>5, <1>6, <1>7, <1>8 DEF NamesRight

(* after a file is opened that is there,                                   *)
LEMMA OpenThereTree ==
  ASSUME Typed, Known, Tree, NEW p \in Path, OpenThere(p)
  PROVE  Tree'
  <1> USE DEF Tree, NamesRight
  <1>1. UNCHANGED <<ino, blk, ibm, bbm>>
    BY OpenThereDoes
  <1>2. PICK d \in WalkOver(GetEntryPath(p)) : \E q \in Places(d) :
              /\ At(d, q).name \in Name /\ ~At(d, q).dir
              /\ \/ \A g \in Fd : fdt'[g].valid = fdt[g].valid /\ fdt'[g].inodeNo = fdt[g].inodeNo
                 \/ /\ \E g \in Fd : Gives(g, At(d, q).ino)
                    /\ \A g \in Fd : fdt[g].inodeNo # At(d, q).ino
    BY OpenThereDoes
  <1>3. PICK q \in Places(d) :
              /\ At(d, q).name \in Name /\ ~At(d, q).dir
              /\ \/ \A g \in Fd : fdt'[g].valid = fdt[g].valid /\ fdt'[g].inodeNo = fdt[g].inodeNo
                 \/ /\ \E g \in Fd : Gives(g, At(d, q).ino)
                    /\ \A g \in Fd : fdt[g].inodeNo # At(d, q).ino
    BY <1>2
  <1>4. PICK i : i = At(d, q).ino
    OBVIOUS
  <1>5. i \in ibm /\ ~ino[i].dir
    <2>1. d \in ibm
      BY DirHere
    <2> QED BY <1>3, <1>4, <2>1, NameInDir
  <1>6. Owned' /\ NamesRight'
    <2> HIDE DEF Tree, NamesRight
    <2>1. Owned /\ NamesRight
      BY DEF Tree
    <2> QED BY ONLY <1>1, <2>1, DiskStays
  <1>7. Apart'
    <2>1. CASE \A g \in Fd : fdt'[g].valid = fdt[g].valid /\ fdt'[g].inodeNo = fdt[g].inodeNo
      BY <1>1, <2>1 DEF Apart
    <2>2. CASE (\E g \in Fd : Gives(g, i)) /\ \A g \in Fd : fdt[g].inodeNo # i
      <3>1. PICK g \in Fd : fdt'[g].inodeNo = i /\ \A h \in Fd : h # g => fdt'[h] = fdt[h]
        BY <2>2 DEF Gives
      <3>2. \A h \in Fd : h # g => fdt'[h].inodeNo # i
        BY <2>2, <3>1
      <3> QED BY <1>1, <1>5, <3>1, <3>2 DEF Apart
    <2> QED BY <1>3, <1>4, <2>1, <2>2
  <1> QED BY <1>6, <1>7

(* and when descriptors fall out of use.                                   *)
LEMMA DescriptorsTree ==
  ASSUME Tree, UNCHANGED <<ino, blk, ibm, bbm>>,
         \A g \in Fd : fdt'[g].valid => fdt[g].valid /\ fdt'[g].inodeNo = fdt[g].inodeNo
  PROVE  Tree'
  <1>1. Owned' /\ NamesRight'
    BY DiskStays DEF Tree
  <1>2. Apart'
    BY DEF Apart, Tree
  <1> QED BY <1>1, <1>2 DEF Tree

(* A call that should not have been made is not undone.                     *)
LEMMA OddStays ==
  ASSUME Call, odd
  PROVE  odd'
  <1>1. ASSUME NEW p \in Path, NEW create \in BOOLEAN, OpenFile(p, create) PROVE odd'
    BY <1>1 DEF OpenFile, OpenThere, Create, CreateInSlot, CreateInBlock
  <1>2. ASSUME NEW p \in Path, RemoveFile(p) PROVE odd'
    BY <1>2 DEF RemoveFile
  <1>3. ASSUME NEW p \in Path, MakeDir(p) \/ RemoveDir(p) PROVE odd'
    BY <1>3 DEF MakeDir, RemoveDir
  <1>4. ASSUME NEW f \in Fd, NEW n \in 1 .. NDirect, WriteFile(f, n) \/ ReadFile(f, n) PROVE odd'
    BY <1>4 DEF WriteFile, ReadFile
  <1>5. ASSUME NEW f \in Fd, CloseFile(f) PROVE odd'
    BY <1>5 DEF CloseFile
  <1>6. ASSUME Remount PROVE odd'
    BY <1>6 DEF Remount
  <1> QED BY <1>1, <1>2, <1>3, <1>4, <1>5, <1>6 DEF Call

(* OpenFile that creates keeps the tree, unless the directory grows,       *)
LEMMA CreateTree ==
  ASSUME Typed, Known, Tree, NEW p \in Path, Create(p), ~odd'
  PROVE  Tree'
  <1> USE DEF Tree, NamesRight
  <1>1. PICK n \in Name, d \in WalkOver(GetEntryPath(p)), i \in Ino, f \in Blk :
           \/ \E q \in First(Named(d, "", BOOLEAN)) : \E b :
                b = ino[d].i_block[q[1]] /\ FileMade(n, i, f, b, q[2])
           \/ FileAdded(d, n, i, f)
    BY CreateDoes
  <1>2. ~FileAdded(d, n, i, f)
    BY DEF FileAdded
  <1>3. PICK q \in First(Named(d, "", BOOLEAN)) : \E b : b = ino[d].i_block[q[1]] /\ FileMade(n, i, f, b, q[2])
    BY <1>1, <1>2
  <1>4. PICK b : b = ino[d].i_block[q[1]] /\ FileMade(n, i, f, b, q[2])
    BY <1>3
  <1>5. d \in ibm /\ d \in Ino /\ ino[d].dir
    BY DirHere
  <1>6. Holds(d, b) /\ blk[b][q[2]].name = ""
    BY <1>4, <1>5, PlaceHere
  <1> QED BY <1>4, <1>5, <1>6, FileMadeTree

(* MakeDir keeps it,                                                       *)
LEMMA MakeDirTree ==
  ASSUME Typed, Known, Tree, NEW p \in Path, MakeDir(p)
  PROVE  Tree'
  <1> USE DEF Tree, NamesRight
  <1>1. PICK n \in Name, d \in Walk(GetEntryPath(p)), i \in Ino, f \in Blk :
           \/ \E q \in First(Named(d, "", BOOLEAN)) : \E b :
                b = ino[d].i_block[q[1]] /\ DirMade(d, n, i, f, b, q[2])
           \/ \E g : DirAdded(d, n, i, f, g)
    BY MakeDirDoes
  <1>2. d \in WalkOver(GetEntryPath(p))
    BY <1>1 DEF WalkOver
  <1>3. d \in ibm /\ d \in Ino /\ ino[d].dir
    BY <1>2, DirHere
  <1>4. CASE \E q \in First(Named(d, "", BOOLEAN)) : \E b :
               b = ino[d].i_block[q[1]] /\ DirMade(d, n, i, f, b, q[2])
    <2>1. PICK q \in First(Named(d, "", BOOLEAN)) : \E b : b = ino[d].i_block[q[1]] /\ DirMade(d, n, i, f, b, q[2])
      BY <1>4
    <2>2. PICK b : b = ino[d].i_block[q[1]] /\ DirMade(d, n, i, f, b, q[2])
      BY <2>1
    <2>3. Holds(d, b) /\ blk[b][q[2]].name = ""
      BY <1>3, <2>2, PlaceHere
    <2> QED BY <1>3, <2>2, <2>3, DirMadeTree
  <1>5. CASE \E g : DirAdded(d, n, i, f, g)
    BY <1>3, <1>5, DirAddedTree
  <1> QED BY <1>1, <1>4, <1>5

(* and so does every call that does not make it odd.                       *)
LEMMA CallTree ==
  ASSUME Typed, Known, Tree, Call, ~odd'
  PROVE  Tree'
  <1>1. ASSUME NEW p \in Path, NEW create \in BOOLEAN, OpenFile(p, create) PROVE Tree'
    BY <1>1, OpenThereTree, CreateTree DEF OpenFile
  <1>2. ASSUME NEW p \in Path, RemoveFile(p) PROVE Tree'
    <2>1. PICK t \in Target(p) : \E S \in SUBSET Slot, i \in Ino, b \in Blk : FileRemoved(p, t, S, i, b)
      BY <1>2, RemoveFileDoes
    <2>2. PICK S \in SUBSET Slot, i \in Ino, b \in Blk : FileRemoved(p, t, S, i, b)
      BY <2>1
    <2> QED BY <2>2, FileRemovedTree
  <1>3. ASSUME NEW p \in Path, MakeDir(p) PROVE Tree'
    BY <1>3, MakeDirTree
  <1>4. ASSUME NEW p \in Path, RemoveDir(p) PROVE Tree'
    <2>1. PICK d, q, i, b : DirRemoved(p, d, q, i, b)
      BY <1>4, RemoveDirDoes
    <2> QED BY <2>1, DirRemovedTree
  <1>5. ASSUME NEW f \in Fd, NEW n \in 1 .. NDirect, WriteFile(f, n) PROVE Tree'
    <2>1. PICK i, new : i = fdt[f].inodeNo /\ new = FreeBlocks(Grown(i, fdt[f].offset, n))
      OBVIOUS
    <2>2. FileWritten(f, i, new)
      BY <1>5, <2>1, WriteFileDoes
    <2> QED BY <2>1, <2>2, FileWrittenTree
  <1>6. ASSUME NEW f \in Fd, NEW n \in 1 .. NDirect, ReadFile(f, n) PROVE Tree'
    BY <1>6, ReadFileDoes, DescriptorsTree
  <1>7. ASSUME NEW f \in Fd, CloseFile(f) PROVE Tree'
    BY <1>7, CloseFileDoes, DescriptorsTree
  <1>8. ASSUME Remount PROVE Tree'
    BY <1>8, RemountDoes, DescriptorsTree
  <1> QED BY <1>1, <1>2, <1>3, <1>4, <1>5, <1>6, <1>7, <1>8 DEF Call

(* The inductive invariant: the tree is right until a call was made that   *)
(* should not have been.                                                   *)
IInv == Typed /\ Known /\ (~odd => Tree)

(* It holds always.                                                        *)
LEMMA InvariantHolds == Spec => []IInv
  <1>1. Init => IInv
    BY InitKnown, InitTree DEF IInv
  <1>2. IInv /\ [Next]_vars => IInv'
    <2> SUFFICES ASSUME IInv, [Next]_vars PROVE IInv'
      OBVIOUS
    <2>1. Typed' /\ Known'
      BY NextKnown DEF IInv
    <2>2. CASE Call
      <3>1. ASSUME ~odd' PROVE Tree'
        BY <2>2, <3>1, OddStays, CallTree DEF IInv
      <3> QED BY <2>1, <3>1 DEF IInv
    <2>3. CASE UNCHANGED vars
      <3>1. ASSUME ~odd' PROVE Tree'
        BY <2>3, <3>1, DescriptorsTree DEF IInv, vars
      <3> QED BY <2>1, <3>1 DEF IInv
    <2> QED BY <2>2, <2>3 DEF Next
  <1> QED BY <1>1, <1>2, PTL DEF Spec

-----------------------------------------------------------------------------
(* An entry is its three parts.                                            *)
LEMMA DirEntry ==
  ASSUME NEW e \in AnyEntry, NEW n, NEW i, IsDir(e, n, i)
  PROVE  e = Entry(n, i, TRUE)
  BY DEF AnyEntry, IsDir, Entry

(* A link, in the terms of the invariant.                                  *)
LEMMA LinkIs ==
  ASSUME Typed, NEW l \in Links
  PROVE  \E b \in Blk, s \in Slot :
           /\ l[1] \in ibm /\ ino[l[1]].dir /\ Holds(l[1], b) /\ l[2] \in Places(l[1]) /\ l = <<l[1], l[2]>>
           /\ b = ino[l[1]].i_block[l[2][1]] /\ s = l[2][2] /\ l[2] = <<l[2][1], l[2][2]>>
           /\ l[2][1] \in 1 .. NBlocks(l[1])
           /\ At(l[1], l[2]) = blk[b][s] /\ blk[b][s].name \in Name /\ Linked(l) = blk[b][s].ino
  <1>1. PICK d \in Dirs : \E q \in Places(d) : l = <<d, q>> /\ At(d, q).name \in Name
    BY DEF Links
  <1>2. PICK q \in Places(d) : l = <<d, q>> /\ At(d, q).name \in Name
    BY <1>1
  <1>3. d \in ibm /\ ino[d].dir /\ d \in Ino
    BY DEF Dirs, Typed
  <1>4. PICK b, s : b = ino[d].i_block[q[1]] /\ s = q[2]
    OBVIOUS
  <1>5. /\ b \in Blk /\ s \in Slot /\ At(d, q) = blk[b][s] /\ Holds(d, b)
        /\ q = <<q[1], q[2]>> /\ q[1] \in 1 .. NBlocks(d)
    BY <1>3, <1>4, PlaceIs DEF Holds
  <1>6. l[1] = d /\ l[2] = q /\ Linked(l) = At(d, q).ino
    BY <1>2 DEF Linked
  <1> QED BY <1>2, <1>3, <1>4, <1>5, <1>6

(* No two links lead to one inode.                                         *)
LEMMA SameLink ==
  ASSUME Typed, Known, Tree, NEW k \in Links, NEW l \in Links, Linked(k) = Linked(l)
  PROVE  k = l
  <1>1. PICK d, q, b, s : d = k[1] /\ q = k[2] /\ b = ino[d].i_block[q[1]] /\ s = q[2]
    OBVIOUS
  <1>2. PICK e, r, c, t : e = l[1] /\ r = l[2] /\ c = ino[e].i_block[r[1]] /\ t = r[2]
    OBVIOUS
  <1>3. /\ d \in ibm /\ k = <<d, q>> /\ q = <<q[1], s>> /\ q[1] \in 1 .. NBlocks(d)
        /\ b \in Blk /\ s \in Slot /\ blk[b][s].name \in Name /\ Linked(k) = blk[b][s].ino
    BY <1>1, LinkIs
  <1>4. /\ e \in ibm /\ l = <<e, r>> /\ r = <<r[1], t>> /\ r[1] \in 1 .. NBlocks(e)
        /\ c \in Blk /\ t \in Slot /\ blk[c][t].name \in Name /\ Linked(l) = blk[c][t].ino
    BY <1>2, LinkIs
  <1>5. b = c /\ s = t
    BY <1>3, <1>4 DEF Known
  <1>6. PICK m, o : m = q[1] /\ o = r[1]
    OBVIOUS
  <1>7. m \in Nat /\ o \in Nat
    BY <1>3, <1>4, <1>6
  <1>8. d = e /\ m = o
    <2>1. m \in 1 .. NBlocks(d) /\ o \in 1 .. NBlocks(e) /\ ino[d].i_block[m] = ino[e].i_block[o]
      BY <1>1, <1>2, <1>3, <1>4, <1>5, <1>6
    <2> QED BY <1>3, <1>4, <1>7, <2>1 DEF Tree, Owned
  <1> QED BY <1>3, <1>4, <1>5, <1>6, <1>8

(* The invariant gives the property.                                       *)
LEMMA TreeGivesTreeRight ==
  ASSUME IInv
  PROVE  TreeRight
  <1> SUFFICES ASSUME ~odd
               PROVE  /\ ibm = {Root} \cup {Linked(l) : l \in Links}
                      /\ \A k, l \in Links : Linked(k) = Linked(l) => k = l
                      /\ bbm = UNION {Blocks(i) : i \in ibm}
                      /\ \A i, j \in ibm : i # j => Blocks(i) \cap Blocks(j) = {}
                      /\ \A l \in Links : At(l[1], l[2]).dir =>
                           LET b == blk[ino[Linked(l)].i_block[1]] IN
                           b[1] = Entry(".", Linked(l), TRUE) /\ b[2] = Entry("..", l[1], TRUE)
    BY DEF TreeRight, BitmapsRight, DotsRight
  <1>1. Typed /\ Known /\ Tree /\ Owned /\ Housed /\ AllNamed /\ Dotted /\ RootRight
    BY DEF IInv, Tree, NamesRight
  <1>2. ASSUME NEW l \in Links PROVE Linked(l) \in ibm
    BY <1>1, LinkIs DEF Known
  <1>3. ASSUME NEW i \in ibm, i # Root PROVE \E l \in Links : Linked(l) = i
    <2>1. PICK b \in Blk, s \in Slot : blk[b][s].name \in Name /\ blk[b][s].ino = i
      BY <1>1, <1>3 DEF AllNamed
    <2>2. PICK d \in ibm : ino[d].dir /\ Holds(d, b)
      BY <1>1, <2>1 DEF Housed
    <2>3. PICK k \in 1 .. NBlocks(d) : ino[d].i_block[k] = b
      BY <2>2 DEF Holds
    <2>4. d \in Ino /\ d \in Dirs
      BY <1>1, <2>2 DEF Typed, Dirs
    <2>5. <<k, s>> \in Places(d)
      BY <1>1, <2>3, <2>4, SeqBlocks
    <2>6. At(d, <<k, s>>) = blk[b][s]
      BY <1>1, <2>3, <2>4, <2>5, PlaceIs
    <2>7. <<d, <<k, s>>>> \in Links
      BY <2>1, <2>4, <2>5, <2>6 DEF Links
    <2>8. Linked(<<d, <<k, s>>>>) = i
      BY <2>1, <2>6 DEF Linked
    <2> QED BY <2>7, <2>8
  <1>4. ibm = {Root} \cup {Linked(l) : l \in Links}
    <2>1. Root \in ibm
      BY <1>1 DEF Typed
    <2> QED BY <1>2, <1>3, <2>1
  <1>5. \A k, l \in Links : Linked(k) = Linked(l) => k = l
    BY <1>1, SameLink
  <1>6. \A i \in ibm : \A b : b \in Blocks(i) <=> Holds(i, b)
    BY DEF Blocks, Holds, NBlocks
  <1>7. bbm = UNION {Blocks(i) : i \in ibm}
    <2>1. \A b \in bbm : \E i \in ibm : b \in Blocks(i)
      BY <1>1, <1>6 DEF Owned
    <2>2. \A i \in ibm : \A b \in Blocks(i) : b \in bbm
      BY <1>1, <1>6, HeldIsUsed
    <2> QED BY <2>1, <2>2
  <1>8. \A i, j \in ibm : i # j => Blocks(i) \cap Blocks(j) = {}
    BY <1>1, <1>6, OneHolder
  <1>9. ASSUME NEW l \in Links, At(l[1], l[2]).dir, NEW c, c = ino[Linked(l)].i_block[1]
        PROVE  blk[c][1] = Entry(".", Linked(l), TRUE) /\ blk[c][2] = Entry("..", l[1], TRUE)
    <2>1. PICK b \in Blk, s \in Slot :
           /\ l[1] \in ibm /\ ino[l[1]].dir /\ Holds(l[1], b)
           /\ At(l[1], l[2]) = blk[b][s] /\ blk[b][s].name \in Name /\ Linked(l) = blk[b][s].ino
      BY <1>1, LinkIs
    <2>2. HasDots(Linked(l), l[1])
      BY <1>1, <1>9, <2>1 DEF Dotted
    <2>3. IsDir(blk[c][1], ".", Linked(l)) /\ IsDir(blk[c][2], "..", l[1])
      BY <1>9, <2>2 DEF HasDots
    <2>4. c \in Blk
      BY <1>1, <1>2, <1>9, FirstHeld
    <2>5. blk[c][1] \in AnyEntry /\ blk[c][2] \in AnyEntry
      BY <1>1, <2>4, Counts DEF Typed
    <2> QED BY <2>3, <2>5, DirEntry
  <1> QED BY <1>4, <1>5, <1>7, <1>8, <1>9

(* Unless a call was made that should not have been: the inodes in use are *)
(* those that are named, once each, and the blocks in use are theirs, each *)
(* of one; every directory knows itself and the one above it (CreateFile,  *)
(* MakeDir, RemoveFile, RemoveDir, WriteFile in fs/FileSystem.c).          *)
THEOREM TreeIsRight == Spec => []TreeRight
  <1>1. IInv => TreeRight
    BY TreeGivesTreeRight
  <1> QED BY <1>1, InvariantHolds, PTL

(* Then no two descriptors in use have one file, nor one a free inode:     *)
(* what OpenFile, RemoveFile and Mount leave in fileDescTable.             *)
THEOREM DescriptorsStayApart == Spec => []DescriptorsApart
  <1>1. IInv => DescriptorsApart
    BY DEF IInv, Tree, Apart, DescriptorsApart
  <1> QED BY <1>1, InvariantHolds, PTL

(* A block that becomes a file's has an entry that becomes part of its     *)
(* data.                                                                   *)
LEMMA DataIsNew ==
  ASSUME Typed, Typed', NEW b \in Blk, blk[b] # Data, blk'[b] = Data
  PROVE  \E t \in Slot : blk'[b][t] # blk[b][t] /\ blk'[b][t].name = "data"
  <1>1. \A t \in Slot : blk'[b][t].name = "data"
    BY DEF Data, Entry
  <1>2. PICK x, y : x = blk[b] /\ y = blk'[b]
    OBVIOUS
  <1>3. x \in [Slot -> AnyEntry] /\ y \in [Slot -> AnyEntry] /\ x # y
    BY <1>2 DEF Typed
  <1>4. \E t \in Slot : x[t] # y[t]
    BY ONLY <1>3
  <1> QED BY <1>1, <1>2, <1>4

(* A call that writes data into a block writes through a descriptor in     *)
(* use, whose offset moves, and into a block of its file.                  *)
LEMMA WrittenIsIts ==
  ASSUME Typed, Known, Tree, Call, NEW b \in Blk, blk[b] # Data, blk'[b] = Data
  PROVE  \E f \in Fd : /\ fdt[f].valid /\ fdt'[f].offset > fdt[f].offset
                       /\ \E k \in 1 .. Len(ino'[fdt[f].inodeNo].i_block) :
                            ino'[fdt[f].inodeNo].i_block[k] = b
  <1>1. PICK t \in Slot : blk'[b][t] # blk[b][t] /\ blk'[b][t].name = "data"
    BY CallKnown, DataIsNew
  <1>2. Empty.name # "data"
    BY DEF Empty, Entry
  <1>3. ASSUME NEW p \in Path, NEW create \in BOOLEAN, OpenFile(p, create) PROVE FALSE
    <2>1. CASE OpenThere(p)
      BY <1>1, <2>1, OpenThereDoes
    <2>2. CASE Create(p)
      <3>1. PICK n \in Name, d \in WalkOver(GetEntryPath(p)), i \in Ino, f \in Blk :
               \/ \E q \in First(Named(d, "", BOOLEAN)) : \E c :
                    c = ino[d].i_block[q[1]] /\ FileMade(n, i, f, c, q[2])
               \/ FileAdded(d, n, i, f)
        BY <2>2, CreateDoes
      <3>2. ASSUME NEW c, NEW s, FileMade(n, i, f, c, s) PROVE FALSE
        BY <1>1, <3>2, Special DEF FileMade, IsFile
      <3>3. ASSUME FileAdded(d, n, i, f) PROVE FALSE
        BY <1>1, <3>3, Special DEF FileAdded, IsFile
      <3> QED BY <3>1, <3>2, <3>3
    <2> QED BY <1>3, <2>1, <2>2 DEF OpenFile
  <1>4. ASSUME NEW p \in Path, RemoveFile(p) PROVE FALSE
    <2>1. PICK u \in Target(p) : \E S \in SUBSET Slot, i \in Ino, c \in Blk : FileRemoved(p, u, S, i, c)
      BY <1>4, RemoveFileDoes
    <2>2. PICK S \in SUBSET Slot, i \in Ino, c \in Blk : FileRemoved(p, u, S, i, c)
      BY <2>1
    <2>3. blk'[b][t] = Empty \/ blk'[b][t] = blk[b][t]
      BY <2>2 DEF FileRemoved
    <2> QED BY <1>1, <1>2, <2>3
  <1>5. ASSUME NEW p \in Path, MakeDir(p) PROVE FALSE
    <2>1. PICK n \in Name, d \in Walk(GetEntryPath(p)), i \in Ino, f \in Blk :
             \/ \E q \in First(Named(d, "", BOOLEAN)) : \E c :
                  c = ino[d].i_block[q[1]] /\ DirMade(d, n, i, f, c, q[2])
             \/ \E g : DirAdded(d, n, i, f, g)
      BY <1>5, MakeDirDoes
    <2>2. ASSUME NEW c, NEW s, DirMade(d, n, i, f, c, s) PROVE FALSE
      <3>1. /\ blk'[f][1].name = "." /\ blk'[f][2].name = ".."
            /\ \A e \in Blk, u \in Slot : ~(e = f /\ u \in {1, 2}) =>
                 /\ e # c \/ u # s => blk'[e][u] = blk[e][u]
                 /\ e = c /\ u = s => blk'[e][u].name = n
        BY <2>2 DEF DirMade, IsDir
      <3> QED BY <1>1, <3>1, Special
    <2>3. ASSUME NEW g, DirAdded(d, n, i, f, g) PROVE FALSE
      <3>1. /\ blk'[f][1].name = n /\ blk'[g] = Dots(i, Self(d)) /\ i \in Ino /\ Self(d) \in Ino
            /\ \A c \in Blk \ {g}, u \in Slot : c # f \/ u # 1 => blk'[c][u] = blk[c][u]
        BY <2>3 DEF DirAdded, IsDir
      <3>2. b = g
        BY <1>1, <3>1, Special
      <3>3. Dots(i, Self(d))[t].name # "data"
        BY DEF Dots, Entry, Empty
      <3> QED BY <1>1, <3>1, <3>2, <3>3
    <2> QED BY <2>1, <2>2, <2>3
  <1>6. ASSUME NEW p \in Path, RemoveDir(p) PROVE FALSE
    <2>1. PICK d, q, i, c : DirRemoved(p, d, q, i, c)
      BY <1>6, RemoveDirDoes
    <2>2. blk'[b][t] = Empty \/ blk'[b][t] = blk[b][t]
      BY <2>1 DEF DirRemoved
    <2> QED BY <1>1, <1>2, <2>2
  <1>7. ASSUME NEW f \in Fd, NEW n \in 1 .. NDirect, WriteFile(f, n)
        PROVE  /\ fdt[f].valid /\ fdt'[f].offset > fdt[f].offset
               /\ \E k \in 1 .. Len(ino'[fdt[f].inodeNo].i_block) :
                    ino'[fdt[f].inodeNo].i_block[k] = b
    <2>1. PICK i, new : i = fdt[f].inodeNo /\ new = FreeBlocks(Grown(i, fdt[f].offset, n))
      OBVIOUS
    <2>2. FileWritten(f, i, new)
      BY <1>7, <2>1, WriteFileDoes
    <2>3. /\ fdt[f].valid /\ fdt'[f].offset > fdt[f].offset
          /\ new \subseteq Blk \ bbm /\ bbm' = bbm \cup new /\ UNCHANGED ibm
          /\ \A j \in Ino \ {i} : ino'[j] = ino[j]
          /\ ino'[i].i_block = ino[i].i_block \o InOrder(new)
          /\ b \in new \/ Holds(i, b)
      BY <1>1, <2>2 DEF FileWritten, Holds
    <2>4. i \in ibm
      BY <2>1, <2>3 DEF Tree, Apart
    <2>5. Grows /\ \A c \in new : Holds(i, c)'
      BY <2>3, <2>4, WrittenOwned DEF Tree
    <2>6. \E k \in 1 .. NBlocks(i)' : ino'[i].i_block[k] = b
      <3>1. CASE b \in new
        BY <2>5, <3>1 DEF Holds
      <3>2. CASE Holds(i, b)
        <4>1. PICK k \in 1 .. NBlocks(i) : ino[i].i_block[k] = b
          BY <3>2 DEF Holds
        <4>2. k \in Nat
          BY <4>1
        <4>3. k \in 1 .. NBlocks(i)' /\ ino'[i].i_block[k] = b
          BY <2>4, <2>5, <4>1, <4>2 DEF Grows
        <4> QED BY <4>3
      <3> QED BY <2>3, <3>1, <3>2
    <2> QED BY <2>1, <2>3, <2>6 DEF NBlocks
  <1>8. ASSUME NEW f \in Fd, NEW n \in 1 .. NDirect, ReadFile(f, n) PROVE FALSE
    BY <1>1, <1>8, ReadFileDoes
  <1>9. ASSUME NEW f \in Fd, CloseFile(f) PROVE FALSE
    BY <1>1, <1>9, CloseFileDoes
  <1>10. ASSUME Remount PROVE FALSE
    BY <1>1, <1>10, RemountDoes
  <1> QED BY <1>3, <1>4, <1>5, <1>6, <1>7, <1>8, <1>9, <1>10 DEF Call

(* The inode RemoveFile frees is that of the file OpenFile finds.          *)
LEMMA RemovedIsOpened ==
  ASSUME Typed, Known, ~odd => Tree, NEW p \in Path, RemoveFile(p), ~odd', Len(p) = 1 \/ p[1] # p[2]
  PROVE  \E f \in FileAt(p) : ibm' = ibm \ {At(f[2], f[1]).ino}
  <1>1. PICK t \in Target(p) : \E S \in SUBSET Slot, i \in Ino, b \in Blk : FileRemoved(p, t, S, i, b)
    BY RemoveFileDoes
  <1>2. PICK S \in SUBSET Slot, i \in Ino, b \in Blk : FileRemoved(p, t, S, i, b)
    BY <1>1
  <1>3. Tree
    BY <1>2 DEF FileRemoved
  <1>4. t \in FileAt(p) /\ ibm' = ibm \ {i} /\ i = At(t[2], t[1]).ino
    BY <1>2, <1>3, FileRemovedIs
  <1> QED BY <1>4

(* Until such a call, a write changes the blocks of its descriptor's file  *)
(* alone, and what RemoveFile takes away is the file OpenFile finds under  *)
(* that path, unless the path has one name twice.                          *)
THEOREM CallsHit == Spec => CallsHitTheirFile
  <1>1. IInv /\ [Next]_vars =>
          [~odd => \A b \in Blk : blk[b] # Data /\ blk'[b] = Data =>
             \E f \in Fd : /\ fdt[f].valid /\ fdt'[f].offset > fdt[f].offset
                           /\ \E k \in 1 .. Len(ino'[fdt[f].inodeNo].i_block) :
                                ino'[fdt[f].inodeNo].i_block[k] = b]_vars
    BY WrittenIsIts DEF IInv, Next
  <1>2. IInv /\ [Next]_vars =>
          [\A p \in Path : RemoveFile(p) /\ ~odd' /\ (Len(p) = 1 \/ p[1] # p[2]) =>
             \E f \in FileAt(p) : ibm' = ibm \ {At(f[2], f[1]).ino}]_vars
    BY RemovedIsOpened DEF IInv
  <1>3. Spec => WritesItsOwn
    BY <1>1, InvariantHolds, PTL DEF Spec, WritesItsOwn
  <1>4. Spec => RemovesWhatOpens
    BY <1>2, InvariantHolds, PTL DEF Spec, RemovesWhatOpens
  <1> QED BY <1>3, <1>4 DEF CallsHitTheirFile
===============================================================================

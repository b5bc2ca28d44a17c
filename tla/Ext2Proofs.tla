------------------------------ MODULE Ext2Proofs ------------------------------
(***************************************************************************)
(* Proofs about Ext2: for every number of names, inodes, blocks, options   *)
(* and calls, the handlers of fuse-ext2 lose no inode, block or link until *)
(* a link makes a directory grow, a rename loses no name, and no mount     *)
(* writes that is not forced to.                                           *)
(*                                                                         *)
(* A handler is a chain of calls of libext2fs, each of which leaves the    *)
(* volume inconsistent for the next to put right.  The proofs follow it:   *)
(* Disk(v), that every block in use is in one inode, holds after each      *)
(* call; what the calls do to names is said by Holds(v, d, n, i), that     *)
(* directory d holds name n of inode i (Gains, Loses, Moves, SameNames),   *)
(* and what they do to inodes by their links and kinds.  Sound(v), which   *)
(* counts the links of an inode against its names, holds again when the    *)
(* handler is done (NewFile, NewDir, NewLink, DropFile, DropDir, MoveName  *)
(* prove that of the six ways in which names change).                      *)
(***************************************************************************)
EXTENDS Ext2, WellFoundedInduction, FiniteSetTheorems, TLAPS

(* The kinds of inodes, as the provers can handle them.                    *)
NoKind  == "none"
File    == "file"
SymKind == "symlink"
Dir     == "dir"

Kind  == {NoKind, File, SymKind, Dir}
IBlk  == {s \in SUBSET (Nat \X Blk) : IsFiniteSet(s)}
Inode == [kind : Kind, links : Nat, size : Nat, blk : IBlk]
Vol   == [ino : [Ino -> Inode], ent : [Blk -> SUBSET (Name \X Ino)], up : [Ino -> Ino],
          imap : SUBSET Ino, bmap : SUBSET Blk]

Of(v, i)  == Blocks(v.ino[i])
DirsOf(v) == {i \in v.imap : v.ino[i].kind = Dir}

(* A block of inode d in use has name n, of inode i.                       *)
Holds(v, d, n, i) == d \in v.imap /\ <<n, i>> \in Entries(v, d)

(* The blocks in use are those of the inodes in use, each of one.          *)
Disk(v) ==
  /\ v \in Vol
  /\ \A b \in Blk : b \in v.bmap <=> \E i \in v.imap : b \in Of(v, i)
  /\ \A i, j \in v.imap : i # j => Of(v, i) \cap Of(v, j) = {}

(* Of the inodes, w has the kinds and links of v, and it has its names.    *)
Kept(v, w) ==
  /\ w.imap = v.imap /\ w.up = v.up
  /\ \A i \in Ino : w.ino[i].kind = v.ino[i].kind /\ w.ino[i].links = v.ino[i].links
SameNames(v, w) == \A c, k, j : Holds(w, c, k, j) <=> Holds(v, c, k, j)

-----------------------------------------------------------------------------
(* Kinds as constants: no kind but one is that of a directory.             *)
LEMMA KindsDiffer ==
  /\ NoKind # Dir /\ File # Dir /\ SymKind # Dir
  /\ {NoKind, File, SymKind, Dir} \subseteq Kind
BY DEF NoKind, File, SymKind, Dir, Kind

(* What the parts of a volume are.                                         *)
LEMMA VolFields ==
  ASSUME NEW v \in Vol
  PROVE  /\ v.ino \in [Ino -> Inode] /\ v.ent \in [Blk -> SUBSET (Name \X Ino)]
         /\ v.up \in [Ino -> Ino] /\ v.imap \subseteq Ino /\ v.bmap \subseteq Blk
BY DEF Vol

(* What the parts of an inode are.                                         *)
LEMMA InodeFields ==
  ASSUME NEW x \in Inode
  PROVE  /\ x.kind \in Kind /\ x.links \in Nat /\ x.size \in Nat /\ x.blk \in IBlk
         /\ x.blk \subseteq Nat \X Blk /\ IsFiniteSet(x.blk) /\ Blocks(x) \subseteq Blk
BY DEF Inode, IBlk, Blocks

(* The least of a set is in it.                                            *)
LEMMA First ==
  ASSUME NEW S \in SUBSET Nat, S # {}
  PROVE  \E b \in S : \A c \in S : b <= c
  <1> DEFINE R == {ss \in Nat \X Nat : ss[1] < ss[2]}
  <1>1. IsWellFoundedOn(R, Nat)
    BY NatLessThanWellFounded DEF OpToRel
  <1>2. PICK b \in S : \A c \in S : <<c, b>> \notin R
    <2> HIDE DEF R
    <2> QED BY <1>1, WFMin
  <1>3. ASSUME NEW c \in S PROVE b <= c
    <2>1. <<c, b>> \in Nat \X Nat /\ <<c, b>> \notin R /\ c \in Nat /\ b \in Nat
      BY <1>2
    <2>2. ~(c < b)
      BY <2>1
    <2> QED BY <2>1, <2>2
  <1> QED BY <1>3

(* CHOOSE finds the least of a set of numbers.                             *)
LEMMA MinIsIn ==
  ASSUME NEW S \in SUBSET Nat, S # {}
  PROVE  Min(S) \in S
BY First DEF Min

(* A block or an inode that libext2fs takes was free.                      *)
LEMMA FreeIsFree ==
  ASSUME NEW v \in Vol
  PROVE  /\ FreeBlk(v) # {} => Min(FreeBlk(v)) \in Blk /\ Min(FreeBlk(v)) \notin v.bmap
         /\ FreeIno(v) # {} => Min(FreeIno(v)) \in Ino /\ Min(FreeIno(v)) \notin v.imap
BY MinIsIn, CountAssumption DEF FreeBlk, FreeIno, Blk, Ino

(* What names a directory has depends on its blocks and what they hold.    *)
LEMMA EntriesMean ==
  ASSUME NEW v, NEW d, NEW x
  PROVE  x \in Entries(v, d) <=> \E b \in Of(v, d) : x \in v.ent[b]
BY DEF Entries, Of

(* A name is held by an inode in use, and is of an inode.                  *)
LEMMA HoldsTypes ==
  ASSUME NEW v \in Vol, NEW d, NEW n, NEW i, Holds(v, d, n, i)
  PROVE  d \in Ino /\ d \in v.imap /\ n \in Name /\ i \in Ino
<1>1. d \in v.imap /\ d \in Ino
  BY VolFields DEF Holds
<1>2. PICK b \in Of(v, d) : <<n, i>> \in v.ent[b]
  BY EntriesMean DEF Holds
<1>3. b \in Blk
  BY <1>1, <1>2, VolFields, InodeFields DEF Of
<1>4. <<n, i>> \in Name \X Ino
  BY <1>2, <1>3, VolFields
<1> QED BY <1>1, <1>4

(* An inode that gets a free block holds no more names.                    *)
LEMMA GetsBlock ==
  ASSUME NEW v, NEW w \in Vol, Disk(v), NEW i \in v.imap, NEW b \in Blk, b \notin v.bmap,
         w.imap = v.imap, w.bmap = v.bmap \cup {b}, w.ent = [v.ent EXCEPT ![b] = {}],
         \A j \in Ino : j # i => w.ino[j] = v.ino[j],
         w.ino[i].kind = v.ino[i].kind, Of(w, i) = Of(v, i) \cup {b}
  PROVE  Disk(w) /\ SameNames(v, w)
<1>1. v \in Vol /\ v.imap \subseteq Ino /\ i \in Ino
  BY VolFields DEF Disk
<1>2. \A j \in v.imap : b \notin Of(v, j)
  BY DEF Disk
<1>3. \A j \in v.imap : j # i => Of(w, j) = Of(v, j)
  BY <1>1 DEF Of
<1>4. Disk(w)
  <2>1. \A c \in Blk : c \in w.bmap <=> \E j \in w.imap : c \in Of(w, j)
    BY <1>3 DEF Disk
  <2>2. \A j, k \in w.imap : j # k => Of(w, j) \cap Of(w, k) = {}
    BY <1>2, <1>3 DEF Disk
  <2> QED BY <2>1, <2>2 DEF Disk
<1>6. ASSUME NEW d \in v.imap, NEW x PROVE x \in Entries(w, d) <=> x \in Entries(v, d)
  <2>1. \A c \in Of(v, d) : c \in Blk /\ c # b
    BY <1>1, <1>2, VolFields, InodeFields DEF Of
  <2>2. \A c \in Of(v, d) : w.ent[c] = v.ent[c]
    BY <1>1, <2>1, VolFields
  <2>3. w.ent[b] = {}
    BY <1>1, VolFields
  <2>4. CASE d = i
    <3>1. Of(w, d) = Of(v, d) \cup {b}
      BY <2>4
    <3>2. (\E c \in Of(w, d) : x \in w.ent[c]) <=> \E c \in Of(v, d) : x \in v.ent[c]
      BY <2>2, <2>3, <3>1
    <3> QED BY <3>2, EntriesMean
  <2>5. CASE d # i
    <3>1. Of(w, d) = Of(v, d)
      BY <1>3, <2>5
    <3>2. (\E c \in Of(w, d) : x \in w.ent[c]) <=> \E c \in Of(v, d) : x \in v.ent[c]
      BY <2>2, <3>1
    <3> QED BY <3>2, EntriesMean
  <2> QED BY <2>4, <2>5
<1> QED BY <1>4, <1>6 DEF SameNames, Holds

(* ext2fs_expand_dir keeps all names, and leaves room for one.             *)
LEMMA ExpandIs ==
  ASSUME NEW v, Disk(v), NEW d \in DirsOf(v), FreeBlk(v) # {}
  PROVE  /\ Disk(Expand(v, d)) /\ Kept(v, Expand(v, d)) /\ SameNames(v, Expand(v, d))
         /\ Roomy(Expand(v, d), d) # {}
<1> DEFINE w == Expand(v, d)
           b == Min(FreeBlk(v))
           o == v.ino[d]
           k == Cardinality(o.blk)
<1>1. v \in Vol /\ d \in Ino /\ d \in v.imap /\ b \in Blk /\ b \notin v.bmap
  BY FreeIsFree, VolFields DEF Disk, DirsOf
<1>2. o \in Inode /\ k \in Nat
  BY <1>1, VolFields, InodeFields, FS_CardinalityType
<1>3. w = [v EXCEPT !.ino[d].blk = @ \cup {<<Cardinality(@), b>>}, !.ino[d].size = @ + 1,
                    !.bmap = @ \cup {b}, !.ent[b] = {}]
  BY DEF Expand
<1> DEFINE o2 == [o EXCEPT !.blk = o.blk \cup {<<k, b>>}, !.size = o.size + 1]
<1>4. /\ w.ino = [v.ino EXCEPT ![d] = o2] /\ w.bmap = v.bmap \cup {b}
      /\ w.ent = [v.ent EXCEPT ![b] = {}] /\ w.up = v.up /\ w.imap = v.imap
      /\ w = [ino |-> w.ino, ent |-> w.ent, up |-> w.up, imap |-> w.imap, bmap |-> w.bmap]
  <2> HIDE DEF w, b
  <2>1. o.blk \cup {<<k, b>>} = o.blk \cup {<<Cardinality(o.blk), b>>}
    OBVIOUS
  <2> QED BY <1>1, <1>2, <1>3 DEF Vol, Inode
<1>5. /\ o2 \in Inode /\ o2.kind = o.kind /\ o2.links = o.links
      /\ Blocks(o2) = Blocks(o) \cup {b}
  <2> HIDE DEF w, b, k, o
  <2>1. IsFiniteSet(o.blk \cup {<<k, b>>}) /\ <<k, b>> \in Nat \X Blk
    BY <1>1, <1>2, InodeFields, FS_AddElement
  <2>2. o.blk \cup {<<k, b>>} \in IBlk
    BY <1>2, <2>1, InodeFields DEF IBlk
  <2> DEFINE bs == o.blk \cup {<<k, b>>}
             sz == o.size + 1
  <2>5. bs \in IBlk /\ sz \in Nat /\ o2 = [o EXCEPT !.blk = bs, !.size = sz]
    BY <1>2, <2>2, InodeFields
  <2>6. bs = o.blk \cup {<<k, b>>}
    OBVIOUS
  <2> HIDE DEF bs, sz, o2
  <2>3. o2 \in Inode /\ o2.kind = o.kind /\ o2.links = o.links /\ o2.blk = bs
    BY <1>2, <2>5 DEF Inode
  <2>4. Blocks(o2) = Blocks(o) \cup {b}
    <3> DEFINE e == <<k, b>>
    <3>1. e[2] = b /\ bs = o.blk \cup {e}
      BY <2>6
    <3> HIDE DEF e
    <3> QED BY <2>3, <3>1 DEF Blocks
  <2> QED BY <2>3, <2>4
<1> HIDE DEF o2, w, b, k
<1>6. w \in Vol
  BY <1>1, <1>4, <1>5, VolFields DEF Vol
<1>7. /\ w.ino[d] = o2 /\ \A j \in Ino : j # d => w.ino[j] = v.ino[j]
  BY <1>1, <1>4, VolFields
<1>8. Of(w, d) = Of(v, d) \cup {b}
  BY <1>5, <1>7 DEF Of
<1>9. Disk(w) /\ SameNames(v, w)
  BY <1>1, <1>4, <1>5, <1>6, <1>7, <1>8, GetsBlock
<1>10. Kept(v, w)
  BY <1>4, <1>5, <1>7 DEF Kept
<1>11. b \in Of(w, d) /\ w.ent[b] = {}
  BY <1>1, <1>4, <1>8, VolFields
<1>12. b \in Roomy(w, d)
  BY <1>11, FS_EmptySet, CountAssumption DEF Roomy, Of
<1> QED BY <1>9, <1>10, <1>12 DEF w

(* Directory d gets name n of inode i, or loses the name.                  *)
Gains(v, w, d, n, i) ==
  \A c, k, j : Holds(w, c, k, j) <=> Holds(v, c, k, j) \/ (c = d /\ k = n /\ j = i)
Loses(v, w, d, n) ==
  \A c, k, j : Holds(w, c, k, j) <=> Holds(v, c, k, j) /\ ~(c = d /\ k = n)

SameInodes(v, w) == w.ino = v.ino /\ w.imap = v.imap /\ w.bmap = v.bmap /\ w.up = v.up

(* If no inode changes, the blocks stay where they are.                    *)
LEMMA DiskStays ==
  ASSUME NEW v, NEW w \in Vol, Disk(v), SameInodes(v, w)
  PROVE  /\ Disk(w) /\ DirsOf(w) = DirsOf(v) /\ Kept(v, w)
         /\ \A i : Of(w, i) = Of(v, i)
BY DEF Disk, SameInodes, DirsOf, Kept, Of

(* A directory with room gets a name, and nothing else changes.            *)
LEMMA AddNameIs ==
  ASSUME NEW v, Disk(v), NEW d \in DirsOf(v), NEW n \in Name, NEW i \in Ino, Roomy(v, d) # {}
  PROVE  /\ Disk(AddName(v, d, n, i)) /\ SameInodes(v, AddName(v, d, n, i))
         /\ Gains(v, AddName(v, d, n, i), d, n, i)
<1> DEFINE w == AddName(v, d, n, i)
           b == Min(Roomy(v, d))
           x == <<n, i>>
           es == v.ent[b] \cup {x}
<1>1. v \in Vol /\ d \in Ino /\ d \in v.imap
  BY VolFields DEF Disk, DirsOf
<1>2. b \in Of(v, d) /\ b \in Blk
  <2>1. Roomy(v, d) \subseteq Of(v, d) /\ Of(v, d) \subseteq Blk /\ Blk \subseteq Nat
    BY <1>1, VolFields, InodeFields, CountAssumption DEF Roomy, Of, Blk
  <2>2. b \in Roomy(v, d)
    BY <2>1, MinIsIn
  <2> QED BY <2>1, <2>2
<1>3. w = [v EXCEPT !.ent[b] = v.ent[b] \cup {x}]
  BY <1>1, <1>2 DEF AddName, Vol
<1>4. es \in SUBSET (Name \X Ino)
  BY <1>1, <1>2, VolFields
<1>5. w = [v EXCEPT !.ent[b] = es]
  BY <1>3
<1> HIDE DEF w, es, b, x
<1>6. w \in Vol /\ SameInodes(v, w) /\ w.ent = [v.ent EXCEPT ![b] = es]
  BY <1>1, <1>2, <1>4, <1>5 DEF Vol, SameInodes
<1>7. \A c \in Blk : w.ent[c] = IF c = b THEN es ELSE v.ent[c]
  BY <1>1, <1>6, VolFields
<1>8. Disk(w) /\ DirsOf(w) = DirsOf(v) /\ \A e : Of(w, e) = Of(v, e)
  BY <1>6, DiskStays
<1>9. ASSUME NEW c \in v.imap, NEW y
      PROVE  y \in Entries(w, c) <=> y \in Entries(v, c) \/ (c = d /\ y = x)
  <2>1. \A e \in Of(v, c) : e \in Blk
    BY <1>1, VolFields, InodeFields DEF Of
  <2>2. \A e \in Blk : y \in w.ent[e] <=> y \in v.ent[e] \/ (e = b /\ y = x)
    BY <1>7 DEF es
  <2>3. b \in Of(v, c) <=> c = d
    BY <1>1, <1>2 DEF Disk
  <2>4. (\E e \in Of(v, c) : y \in w.ent[e]) <=>
          (\E e \in Of(v, c) : y \in v.ent[e]) \/ (c = d /\ y = x)
    BY <2>1, <2>2, <2>3
  <2> QED BY <1>8, <2>4, EntriesMean
<1>10. Gains(v, w, d, n, i)
  <2> SUFFICES ASSUME NEW c, NEW k, NEW j
               PROVE  Holds(w, c, k, j) <=> Holds(v, c, k, j) \/ (c = d /\ k = n /\ j = i)
    BY DEF Gains
  <2>1. <<k, j>> = x <=> k = n /\ j = i
    BY DEF x
  <2> DEFINE y == <<k, j>>
  <2> HIDE DEF y
  <2>3. c \in v.imap => (y \in Entries(w, c) <=> y \in Entries(v, c) \/ (c = d /\ y = x))
    BY <1>9
  <2>4. Holds(w, c, k, j) <=> c \in v.imap /\ y \in Entries(w, c)
    BY <1>6 DEF Holds, y, SameInodes
  <2>5. Holds(v, c, k, j) <=> c \in v.imap /\ y \in Entries(v, c)
    BY DEF Holds, y
  <2>6. y = x <=> k = n /\ j = i
    BY <2>1 DEF y
  <2> QED BY <1>1, <2>3, <2>4, <2>5, <2>6
<1> QED BY <1>6, <1>8, <1>10 DEF w

(* A directory loses a name, and nothing else changes.                     *)
LEMMA DropNameIs ==
  ASSUME NEW v, Disk(v), NEW d \in DirsOf(v), NEW n
  PROVE  /\ Disk(DropName(v, d, n)) /\ SameInodes(v, DropName(v, d, n))
         /\ Loses(v, DropName(v, d, n), d, n)
<1> DEFINE w == DropName(v, d, n)
           es == [b \in Blk |-> IF b \in Blocks(v.ino[d]) THEN {e \in v.ent[b] : e[1] # n}
                                ELSE v.ent[b]]
<1>1. v \in Vol /\ d \in Ino /\ d \in v.imap
  BY VolFields DEF Disk, DirsOf
<1>2. w = [v EXCEPT !.ent = es]
  BY DEF DropName
<1>3. es \in [Blk -> SUBSET (Name \X Ino)]
  BY <1>1, VolFields
<1>4. \A b \in Blk : \A y : y \in es[b] <=> y \in v.ent[b] /\ ~(b \in Of(v, d) /\ y[1] = n)
  BY DEF Of
<1> HIDE DEF w, es
<1>5. w \in Vol /\ SameInodes(v, w) /\ w.ent = es
  BY <1>1, <1>2, <1>3 DEF Vol, SameInodes
<1>6. Disk(w) /\ DirsOf(w) = DirsOf(v) /\ \A e : Of(w, e) = Of(v, e)
  BY <1>5, DiskStays
<1>7. ASSUME NEW c \in v.imap, NEW y
      PROVE  y \in Entries(w, c) <=> y \in Entries(v, c) /\ ~(c = d /\ y[1] = n)
  <2>1. \A e \in Of(v, c) : e \in Blk
    BY <1>1, VolFields, InodeFields DEF Of
  <2>2. \A e \in Of(v, c) : e \in Of(v, d) <=> c = d
    BY <1>1 DEF Disk
  <2>3. (\E e \in Of(v, c) : y \in w.ent[e]) <=>
          (\E e \in Of(v, c) : y \in v.ent[e]) /\ ~(c = d /\ y[1] = n)
    BY <1>4, <1>5, <2>1, <2>2
  <2> QED BY <1>6, <2>3, EntriesMean
<1>8. Loses(v, w, d, n)
  <2> SUFFICES ASSUME NEW c, NEW k, NEW j
               PROVE  Holds(w, c, k, j) <=> Holds(v, c, k, j) /\ ~(c = d /\ k = n)
    BY DEF Loses
  <2> DEFINE y == <<k, j>>
  <2>1. y[1] = k
    OBVIOUS
  <2>2. Holds(w, c, k, j) <=> c \in v.imap /\ y \in Entries(w, c)
    BY <1>5 DEF Holds, SameInodes
  <2>3. Holds(v, c, k, j) <=> c \in v.imap /\ y \in Entries(v, c)
    BY DEF Holds
  <2> HIDE DEF y
  <2> QED BY <1>7, <2>1, <2>2, <2>3
<1> QED BY <1>5, <1>6, <1>8 DEF w

WithInode(v, i, x) == [v EXCEPT !.ino[i] = x]
Takes(v, i, x)     == [v EXCEPT !.imap = @ \cup {i}, !.ino[i] = x]

Written(v, w, i, x) ==
  /\ w.imap = v.imap /\ w.bmap = v.bmap /\ w.up = v.up /\ w.ent = v.ent
  /\ \A j \in Ino : w.ino[j] = IF j = i THEN x ELSE v.ino[j]

(* An inode is written: it keeps its kind and its blocks.                  *)
LEMMA WrittenInode ==
  ASSUME NEW v, NEW w, Disk(v), NEW i \in v.imap, NEW x \in Inode, w = WithInode(v, i, x),
         x.kind = v.ino[i].kind, Blocks(x) = Of(v, i)
  PROVE  Disk(w) /\ SameNames(v, w) /\ Written(v, w, i, x)
<1>1. v \in Vol /\ i \in Ino
  BY VolFields DEF Disk
<1>2. /\ w \in Vol /\ w.imap = v.imap /\ w.bmap = v.bmap /\ w.up = v.up
      /\ w.ent = v.ent /\ w.ino = [v.ino EXCEPT ![i] = x]
  BY <1>1 DEF Vol, WithInode
<1>3. \A j \in Ino : w.ino[j] = IF j = i THEN x ELSE v.ino[j]
  BY <1>1, <1>2, VolFields
<1>4. v.imap \subseteq Ino
  BY <1>1, VolFields
<1>5. \A j \in v.imap : Of(w, j) = Of(v, j)
  BY <1>3, <1>4 DEF Of
<1>6. Disk(w)
  BY <1>2, <1>5 DEF Disk
<1>8. \A c \in v.imap : Entries(w, c) = Entries(v, c)
  BY <1>2, <1>5 DEF Entries, Of
<1>9. SameNames(v, w)
  BY <1>2, <1>8 DEF SameNames, Holds
<1> QED BY <1>2, <1>3, <1>6, <1>9 DEF Written

(* An inode goes, and the names that it holds if it is a directory.        *)
Killed(v, w, i) ==
  /\ w.imap = v.imap \ {i} /\ w.up = v.up
  /\ \A j \in Ino : w.ino[j] = IF j = i THEN NoInode ELSE v.ino[j]
  /\ \A c, k, j : Holds(w, c, k, j) <=> Holds(v, c, k, j) /\ c # i

(* do_killfilebyinode frees the inode and its blocks.                      *)
LEMMA KillIs ==
  ASSUME NEW v, Disk(v), NEW i \in v.imap, NEW x, Blocks(x) = Of(v, i)
  PROVE  Disk(Kill(v, i, x)) /\ Killed(v, Kill(v, i, x), i)
<1> DEFINE w == Kill(v, i, x)
<1>1. v \in Vol /\ i \in Ino /\ v.imap \subseteq Ino
  BY VolFields DEF Disk
<1>2. NoInode \in Inode
  BY FS_EmptySet DEF NoInode, Inode, Kind, NoKind, IBlk
<1>3. w = [v EXCEPT !.ino[i] = NoInode, !.imap = @ \ {i}, !.bmap = @ \ Blocks(x)]
  BY DEF Kill
<1> HIDE DEF w
<1>4. /\ w \in Vol /\ w.imap = v.imap \ {i} /\ w.bmap = v.bmap \ Of(v, i) /\ w.up = v.up
      /\ w.ent = v.ent /\ w.ino = [v.ino EXCEPT ![i] = NoInode]
  BY <1>1, <1>2, <1>3 DEF Vol
<1>5. \A j \in w.imap : w.ino[j] = v.ino[j] /\ Of(w, j) = Of(v, j) /\ Entries(w, j) = Entries(v, j)
  <2>1. \A j \in w.imap : w.ino[j] = v.ino[j]
    BY <1>1, <1>4, VolFields
  <2> QED BY <1>4, <2>1 DEF Of, Entries
<1>6. Disk(w)
  <2>1. \A b \in Blk : b \in w.bmap <=> \E j \in w.imap : b \in Of(w, j)
    BY <1>4, <1>5 DEF Disk
  <2>2. \A j, k \in w.imap : j # k => Of(w, j) \cap Of(w, k) = {}
    BY <1>4, <1>5 DEF Disk
  <2> QED BY <1>4, <2>1, <2>2 DEF Disk
<1>8. \A c, k, j : Holds(w, c, k, j) <=> Holds(v, c, k, j) /\ c # i
  BY <1>4, <1>5 DEF Holds
<1>9. \A j \in Ino : w.ino[j] = IF j = i THEN NoInode ELSE v.ino[j]
  BY <1>1, <1>4, VolFields
<1> QED BY <1>4, <1>6, <1>8, <1>9 DEF w, Killed

(* MakeRoom leaves room for a name, and gives the directory a block if it  *)
(* had none.                                                               *)
LEMMA MakeRoomIs ==
  ASSUME NEW v, Disk(v), NEW d \in DirsOf(v), NEW w \in MakeRoom(v, d)
  PROVE  /\ Disk(w) /\ Kept(v, w) /\ SameNames(v, w) /\ Roomy(w, d) # {}
         /\ DirsOf(w) = DirsOf(v) /\ (Roomy(v, d) # {} => w = v)
<1>1. Kept(v, v) /\ SameNames(v, v)
  BY DEF Kept, SameNames
<1>2. \/ Roomy(v, d) # {} /\ w = v
      \/ Roomy(v, d) = {} /\ FreeBlk(v) # {} /\ w = Expand(v, d)
  BY DEF MakeRoom
<1>3. Disk(w) /\ Kept(v, w) /\ SameNames(v, w) /\ Roomy(w, d) # {}
  BY <1>1, <1>2, ExpandIs
<1>4. DirsOf(w) = DirsOf(v)
  BY <1>3, VolFields DEF Kept, DirsOf, Disk
<1> QED BY <1>2, <1>3, <1>4

(* An inode is written with another number of links.                       *)
Relinked(v, w, i, l) ==
  /\ w.imap = v.imap /\ w.up = v.up
  /\ \A j \in Ino : /\ w.ino[j].kind = v.ino[j].kind
                    /\ w.ino[j].links = IF j = i THEN l ELSE v.ino[j].links

(* do_writeinode of an inode that has links left changes their number.     *)
LEMMA RelinkIs ==
  ASSUME NEW v, Disk(v), NEW i \in v.imap, NEW l \in Nat \ {0}, NEW x,
         x = [v.ino[i] EXCEPT !.links = l]
  PROVE  /\ Disk(WriteInode(v, i, x)) /\ SameNames(v, WriteInode(v, i, x))
         /\ Relinked(v, WriteInode(v, i, x), i, l) /\ WriteInode(v, i, x).ent = v.ent
         /\ DirsOf(WriteInode(v, i, x)) = DirsOf(v)
         /\ \A j \in Ino : Of(WriteInode(v, i, x), j) = Of(v, j)
<1>1. v.ino[i] \in Inode /\ i \in Ino /\ v.ino \in [Ino -> Inode]
  BY VolFields DEF Disk
<1>2. x \in Inode /\ x.kind = v.ino[i].kind /\ x.links = l /\ x.blk = v.ino[i].blk
  BY <1>1 DEF Inode
<1> DEFINE w == WriteInode(v, i, x)
<1>3. w = WithInode(v, i, x)
  BY <1>2 DEF WriteInode, WithInode
<1>4. Blocks(x) = Of(v, i)
  BY <1>2 DEF Blocks, Of
<1> HIDE DEF w
<1>5. Disk(w) /\ SameNames(v, w) /\ Written(v, w, i, x)
  <2>1. x \in Inode /\ x.kind = v.ino[i].kind
    BY <1>2
  <2> QED BY <2>1, <1>3, <1>4, WrittenInode
<1>6. /\ w.imap = v.imap /\ w.up = v.up /\ w.ent = v.ent
      /\ \A j \in Ino : w.ino[j] = IF j = i THEN x ELSE v.ino[j]
  BY <1>5 DEF Written
<1>7. Relinked(v, w, i, l)
  BY <1>2, <1>6 DEF Relinked
<1>8. DirsOf(w) = DirsOf(v)
  BY <1>2, <1>6, VolFields DEF DirsOf, Disk
<1>9. \A j \in Ino : Of(w, j) = Of(v, j)
  BY <1>4, <1>6 DEF Of
<1> QED BY <1>5, <1>6, <1>7, <1>8, <1>9 DEF w

Taken(v, w, i, x) ==
  /\ w.imap = v.imap \cup {i} /\ w.up = v.up /\ DirsOf(w) = DirsOf(v)
  /\ \A j \in Ino : w.ino[j] = IF j = i THEN x ELSE v.ino[j]

(* An inode is taken that was free; it has no block yet.                   *)
LEMMA TakesInode ==
  ASSUME NEW v, NEW w, Disk(v), NEW i \in Ino, i \notin v.imap, NEW x \in Inode,
         x.blk = {}, x.kind # Dir, w = Takes(v, i, x)
  PROVE  Disk(w) /\ SameNames(v, w) /\ Taken(v, w, i, x)
<1>1. v \in Vol /\ v.imap \subseteq Ino
  BY VolFields DEF Disk
<1>2. /\ w \in Vol /\ w.imap = v.imap \cup {i} /\ w.bmap = v.bmap /\ w.up = v.up
      /\ w.ent = v.ent /\ w.ino = [v.ino EXCEPT ![i] = x]
  BY <1>1 DEF Vol, Takes
<1>3. \A j \in Ino : w.ino[j] = IF j = i THEN x ELSE v.ino[j]
  BY <1>1, <1>2, VolFields
<1>4. \A j \in v.imap : Of(w, j) = Of(v, j)
  BY <1>1, <1>3 DEF Of
<1>5. Of(w, i) = {}
  BY <1>3 DEF Of, Blocks
<1>6. Disk(w)
  <2>1. \A b \in Blk : b \in w.bmap <=> \E j \in w.imap : b \in Of(w, j)
    BY <1>2, <1>4, <1>5 DEF Disk
  <2>2. \A j, k \in w.imap : j # k => Of(w, j) \cap Of(w, k) = {}
    BY <1>2, <1>4, <1>5 DEF Disk
  <2> QED BY <1>2, <2>1, <2>2 DEF Disk
<1>7. DirsOf(w) = DirsOf(v)
  BY <1>1, <1>2, <1>3 DEF DirsOf
<1>8. \A c \in v.imap : Entries(w, c) = Entries(v, c)
  BY <1>2, <1>4 DEF Entries, Of
<1>10. Entries(w, i) = {}
  BY <1>5 DEF Entries, Of
<1>9. SameNames(v, w)
  BY <1>2, <1>8, <1>10 DEF SameNames, Holds
<1> QED BY <1>2, <1>3, <1>6, <1>7, <1>9 DEF Taken

-----------------------------------------------------------------------------
(* The names of an inode, and the directories in a directory.              *)
NamesIn(v, i) == {x \in Ino \X Name : Holds(v, x[1], x[2], i)}
DirsIn(v, d)  == {e \in DirsOf(v) \ {Root} : \E n : Holds(v, d, n, e)}

(* The root has no name; a directory has a name once; every other inode in *)
(* use has a name, and a directory one, in the directory that ".." leads to. *)
Linked(v) ==
  /\ Root \in DirsOf(v)
  /\ \A d, n, i : Holds(v, d, n, i) => d \in DirsOf(v) /\ i \in v.imap /\ i # Root
  /\ \A d, n, i, j : Holds(v, d, n, i) /\ Holds(v, d, n, j) => i = j
  /\ \A i \in v.imap : i # Root => \E d, n : Holds(v, d, n, i)
  /\ \A i \in DirsOf(v) : \A d, n : Holds(v, d, n, i) => d = v.up[i]
  /\ \A i \in DirsOf(v) : \A d, m, n : Holds(v, d, m, i) /\ Holds(v, d, n, i) => m = n

LinksOf(v, i) == IF i \in DirsOf(v) THEN 2 + Cardinality(DirsIn(v, i))
                                    ELSE Cardinality(NamesIn(v, i))

Counted(v) ==
  \A i \in v.imap : IsFiniteSet(NamesIn(v, i)) /\ v.ino[i].links = LinksOf(v, i)

Sound(v) == Disk(v) /\ Linked(v) /\ Counted(v)

(* There are finitely many directories, so that they can be counted.       *)
LEMMA DirsInFinite ==
  ASSUME NEW v \in Vol, NEW d
  PROVE  IsFiniteSet(DirsIn(v, d)) /\ Cardinality(DirsIn(v, d)) \in Nat
<1>1. DirsIn(v, d) \subseteq Ino
  BY VolFields DEF DirsIn, DirsOf
<1>2. IsFiniteSet(Ino)
  BY FS_Interval, CountAssumption DEF Ino
<1> QED BY <1>1, <1>2, FS_Subset, FS_CardinalityType

(* An inode whose names stay has the same set of them.                     *)
LEMMA SameNamesIn ==
  ASSUME NEW v, NEW w, NEW i, \A c, k : Holds(w, c, k, i) <=> Holds(v, c, k, i)
  PROVE  NamesIn(w, i) = NamesIn(v, i)
BY DEF NamesIn

(* A directory whose directories stay has the same set of them.            *)
LEMMA SameDirsIn ==
  ASSUME NEW v, NEW w, NEW d, \A i \in Ino : i \in DirsOf(w) <=> i \in DirsOf(v),
         DirsOf(v) \subseteq Ino, DirsOf(w) \subseteq Ino,
         \A k, i : i \in DirsOf(v) => (Holds(w, d, k, i) <=> Holds(v, d, k, i))
  PROVE  DirsIn(w, d) = DirsIn(v, d)
BY DEF DirsIn

(* One more name: the set is larger by one.                                *)
LEMMA MoreNames ==
  ASSUME NEW v, NEW w, NEW i, NEW d \in Ino, NEW n \in Name, ~Holds(v, d, n, i),
         \A c, k : Holds(w, c, k, i) <=> Holds(v, c, k, i) \/ (c = d /\ k = n),
         IsFiniteSet(NamesIn(v, i))
  PROVE  /\ IsFiniteSet(NamesIn(w, i))
         /\ Cardinality(NamesIn(w, i)) = Cardinality(NamesIn(v, i)) + 1
<1> DEFINE x == <<d, n>>
<1>1. \A y \in Ino \X Name : (y[1] = d /\ y[2] = n) <=> y = x
  OBVIOUS
<1>2. x \in Ino \X Name /\ x[1] = d /\ x[2] = n
  OBVIOUS
<1> HIDE DEF x
<1>3. NamesIn(w, i) = NamesIn(v, i) \cup {x}
  BY <1>1, <1>2 DEF NamesIn
<1>4. x \notin NamesIn(v, i)
  BY <1>2 DEF NamesIn
<1> QED BY <1>3, <1>4, FS_AddElement

(* One name less: the set is smaller by one.                               *)
LEMMA FewerNames ==
  ASSUME NEW v, NEW w, NEW i, NEW d \in Ino, NEW n \in Name, Holds(v, d, n, i),
         \A c, k : Holds(w, c, k, i) <=> Holds(v, c, k, i) /\ ~(c = d /\ k = n),
         IsFiniteSet(NamesIn(v, i))
  PROVE  /\ IsFiniteSet(NamesIn(w, i))
         /\ Cardinality(NamesIn(w, i)) = Cardinality(NamesIn(v, i)) - 1
         /\ Cardinality(NamesIn(v, i)) \in Nat \ {0}
<1> DEFINE x == <<d, n>>
<1>1. \A y \in Ino \X Name : (y[1] = d /\ y[2] = n) <=> y = x
  OBVIOUS
<1>2. x \in Ino \X Name /\ x[1] = d /\ x[2] = n
  OBVIOUS
<1> HIDE DEF x
<1>3. NamesIn(w, i) = NamesIn(v, i) \ {x}
  BY <1>1, <1>2 DEF NamesIn
<1>4. x \in NamesIn(v, i)
  BY <1>2 DEF NamesIn
<1>5. Cardinality(NamesIn(v, i)) \in Nat /\ Cardinality(NamesIn(v, i)) # 0
  BY <1>4, FS_CardinalityType, FS_EmptySet
<1> QED BY <1>3, <1>4, <1>5, FS_RemoveElement

-----------------------------------------------------------------------------
(* A file gets its first name.                                             *)
LEMMA NewFile ==
  ASSUME NEW v, NEW w, Sound(v), Disk(w), NEW i \in Ino, i \notin v.imap,
         NEW d \in DirsOf(v), NEW n \in Name, \A j : ~Holds(v, d, n, j),
         w.imap = v.imap \cup {i}, w.up = v.up, DirsOf(w) = DirsOf(v),
         w.ino[i].links = 1, \A j \in v.imap : w.ino[j].links = v.ino[j].links,
         Gains(v, w, d, n, i)
  PROVE  Sound(w)
<1>1. v \in Vol /\ d \in Ino /\ v.imap \subseteq Ino /\ DirsOf(v) \subseteq v.imap
  BY VolFields DEF Sound, Disk, DirsOf
<1>2. \A c, k, j : Holds(w, c, k, j) <=> Holds(v, c, k, j) \/ (c = d /\ k = n /\ j = i)
  BY DEF Gains
<1>3. \A c, k : ~Holds(v, c, k, i)
  BY DEF Sound, Linked
<1>4. i # d /\ i # Root /\ i \notin DirsOf(v)
  BY <1>1 DEF Sound, Linked
<1>5. Linked(w)
  <2>1. Linked(v)
    BY DEF Sound
  <2>2. \A c, k, j : Holds(w, c, k, j) => c \in DirsOf(w) /\ j \in w.imap /\ j # Root
    BY <1>2, <1>4, <2>1 DEF Linked
  <2>3. \A c, k, j, l : Holds(w, c, k, j) /\ Holds(w, c, k, l) => j = l
    BY <1>2, <2>1 DEF Linked
  <2>4. \A j \in w.imap : j # Root => \E c, k : Holds(w, c, k, j)
    BY <1>2, <2>1 DEF Linked
  <2>5. \A j \in DirsOf(w) : \A c, k : Holds(w, c, k, j) => c = w.up[j]
    BY <1>2, <1>4, <2>1 DEF Linked
  <2>6. \A j \in DirsOf(w) : \A c, k, l : Holds(w, c, k, j) /\ Holds(w, c, l, j) => k = l
    BY <1>2, <1>4, <2>1 DEF Linked
  <2> QED BY <2>1, <2>2, <2>3, <2>4, <2>5, <2>6 DEF Linked
<1>6. ASSUME NEW j \in w.imap
      PROVE  IsFiniteSet(NamesIn(w, j)) /\ w.ino[j].links = LinksOf(w, j)
  <2>1. CASE j = i
    <3>1. NamesIn(v, i) = {}
      BY <1>3 DEF NamesIn
    <3>2. IsFiniteSet(NamesIn(w, i)) /\ Cardinality(NamesIn(w, i)) = 1
      <4>1. IsFiniteSet(NamesIn(v, i)) /\ Cardinality(NamesIn(v, i)) = 0
        BY <3>1, FS_EmptySet
      <4>2. \A c, k : Holds(w, c, k, i) <=> Holds(v, c, k, i) \/ (c = d /\ k = n)
        BY <1>2
      <4> QED BY <1>1, <4>1, <4>2, MoreNames
    <3> QED BY <2>1, <3>2, <1>4 DEF LinksOf
  <2>2. CASE j # i
    <3>1. j \in v.imap /\ (j \in DirsOf(w) <=> j \in DirsOf(v))
      BY <2>2
    <3>2. NamesIn(w, j) = NamesIn(v, j)
      BY <1>2, <2>2, SameNamesIn
    <3>3. DirsIn(w, j) = DirsIn(v, j)
      BY <1>1, <1>2, <1>4, SameDirsIn
    <3> QED BY <3>1, <3>2, <3>3 DEF LinksOf, Sound, Counted
  <2> QED BY <2>1, <2>2
<1> QED BY <1>5, <1>6 DEF Sound, Counted

(* A directory is made.                                                    *)
LEMMA NewDir ==
  ASSUME NEW v, NEW w, Sound(v), Disk(w), NEW i \in Ino, i \notin v.imap,
         NEW d \in DirsOf(v), NEW n \in Name, \A j : ~Holds(v, d, n, j),
         w.imap = v.imap \cup {i}, DirsOf(w) = DirsOf(v) \cup {i},
         w.up[i] = d, \A j \in v.imap : w.up[j] = v.up[j], w.ino[i].links = 2,
         \A j \in v.imap : w.ino[j].links = v.ino[j].links + IF j = d THEN 1 ELSE 0,
         Gains(v, w, d, n, i)
  PROVE  Sound(w)
<1>1. v \in Vol /\ d \in Ino /\ v.imap \subseteq Ino /\ DirsOf(v) \subseteq v.imap
  BY VolFields DEF Sound, Disk, DirsOf
<1>2. \A c, k, j : Holds(w, c, k, j) <=> Holds(v, c, k, j) \/ (c = d /\ k = n /\ j = i)
  BY DEF Gains
<1>3. \A c, k : ~Holds(v, c, k, i) /\ ~Holds(v, i, c, k)
  BY <1>1 DEF Sound, Linked, Holds
<1>4. i # d /\ i # Root /\ i \notin DirsOf(v)
  BY <1>1 DEF Sound, Linked
<1>5. Linked(w)
  <2>1. Linked(v)
    BY DEF Sound
  <2>2. \A c, k, j : Holds(w, c, k, j) => c \in DirsOf(w) /\ j \in w.imap /\ j # Root
    BY <1>2, <1>4, <2>1 DEF Linked
  <2>3. \A c, k, j, l : Holds(w, c, k, j) /\ Holds(w, c, k, l) => j = l
    BY <1>2, <2>1 DEF Linked
  <2>4. \A j \in w.imap : j # Root => \E c, k : Holds(w, c, k, j)
    BY <1>2, <2>1 DEF Linked
  <2>5. \A j \in DirsOf(w) : \A c, k : Holds(w, c, k, j) => c = w.up[j]
    BY <1>1, <1>2, <1>3, <1>4, <2>1 DEF Linked
  <2>6. \A j \in DirsOf(w) : \A c, k, l : Holds(w, c, k, j) /\ Holds(w, c, l, j) => k = l
    BY <1>2, <1>3, <1>4, <2>1 DEF Linked
  <2> QED BY <2>1, <2>2, <2>3, <2>4, <2>5, <2>6 DEF Linked
<1>6. ASSUME NEW j \in w.imap
      PROVE  IsFiniteSet(NamesIn(w, j)) /\ w.ino[j].links = LinksOf(w, j)
  <2>1. CASE j = i
    <3>1. NamesIn(v, i) = {}
      BY <1>3 DEF NamesIn
    <3>2. IsFiniteSet(NamesIn(w, i))
      <4>1. IsFiniteSet(NamesIn(v, i))
        BY <3>1, FS_EmptySet
      <4>2. \A c, k : Holds(w, c, k, i) <=> Holds(v, c, k, i) \/ (c = d /\ k = n)
        BY <1>2
      <4> QED BY <1>1, <1>3, <4>1, <4>2, MoreNames
    <3>3. DirsIn(w, i) = {}
      BY <1>2, <1>3, <1>4 DEF DirsIn
    <3>4. LinksOf(w, i) = 2
      BY <3>3, FS_EmptySet DEF LinksOf
    <3> QED BY <2>1, <3>2, <3>4
  <2>2. CASE j # i
    <3>1. j \in v.imap /\ (j \in DirsOf(w) <=> j \in DirsOf(v))
      BY <2>2
    <3>2. NamesIn(w, j) = NamesIn(v, j)
      BY <1>2, <2>2, SameNamesIn
    <3>3. IsFiniteSet(NamesIn(w, j)) /\ v.ino[j].links = LinksOf(v, j)
      BY <3>1, <3>2 DEF Sound, Counted
    <3>4. CASE j = d
      <4>1. DirsIn(w, d) = DirsIn(v, d) \cup {i}
        BY <1>2, <1>4 DEF DirsIn
      <4>2. i \notin DirsIn(v, d)
        BY <1>4 DEF DirsIn
      <4>3. Cardinality(DirsIn(w, d)) = Cardinality(DirsIn(v, d)) + 1
        BY <1>1, <4>1, <4>2, DirsInFinite, FS_AddElement
      <4>4. v.ino[d].links = 2 + Cardinality(DirsIn(v, d))
        BY <3>3, <3>4 DEF LinksOf
      <4>5. w.ino[d].links = 2 + Cardinality(DirsIn(w, d))
        BY <1>1, <3>1, <3>4, <4>3, <4>4, DirsInFinite
      <4> QED BY <3>3, <3>4, <4>5 DEF LinksOf
    <3>5. CASE j # d
      <4>1. DirsIn(w, j) = DirsIn(v, j)
        BY <1>2, <1>3, <3>5 DEF DirsIn
      <4>2. LinksOf(w, j) = LinksOf(v, j)
        BY <3>1, <3>2, <4>1 DEF LinksOf
      <4>3. w.ino[j].links = v.ino[j].links
        <5>1. w.ino[j].links = v.ino[j].links + 0
          BY <3>1, <3>5
        <5>2. v.ino[j].links \in Nat
          BY <1>1, <3>1, VolFields, InodeFields
        <5> QED BY <5>1, <5>2
      <4> QED BY <3>3, <4>2, <4>3
    <3> QED BY <3>4, <3>5
  <2> QED BY <2>1, <2>2
<1> QED BY <1>5, <1>6 DEF Sound, Counted

(* A file gets one more name.                                              *)
LEMMA NewLink ==
  ASSUME NEW v, NEW w, Sound(v), Disk(w), NEW i \in v.imap, i \notin DirsOf(v),
         NEW d \in DirsOf(v), NEW n \in Name, \A j : ~Holds(v, d, n, j),
         w.imap = v.imap, w.up = v.up, DirsOf(w) = DirsOf(v),
         \A j \in v.imap : w.ino[j].links = v.ino[j].links + IF j = i THEN 1 ELSE 0,
         Gains(v, w, d, n, i)
  PROVE  Sound(w)
<1>1. v \in Vol /\ d \in Ino /\ v.imap \subseteq Ino /\ DirsOf(v) \subseteq v.imap
  BY VolFields DEF Sound, Disk, DirsOf
<1>2. \A c, k, j : Holds(w, c, k, j) <=> Holds(v, c, k, j) \/ (c = d /\ k = n /\ j = i)
  BY DEF Gains
<1>3. Linked(v) /\ i # Root
  BY DEF Sound, Linked
<1>4. Linked(w)
  <2>1. \A c, k, j : Holds(w, c, k, j) => c \in DirsOf(w) /\ j \in w.imap /\ j # Root
    BY <1>2, <1>3 DEF Linked
  <2>2. \A c, k, j, l : Holds(w, c, k, j) /\ Holds(w, c, k, l) => j = l
    BY <1>2, <1>3 DEF Linked
  <2>3. \A j \in w.imap : j # Root => \E c, k : Holds(w, c, k, j)
    BY <1>2, <1>3 DEF Linked
  <2>4. \A j \in DirsOf(w) : \A c, k : Holds(w, c, k, j) => c = w.up[j]
    BY <1>2, <1>3 DEF Linked
  <2>5. \A j \in DirsOf(w) : \A c, k, l : Holds(w, c, k, j) /\ Holds(w, c, l, j) => k = l
    BY <1>2, <1>3 DEF Linked
  <2> QED BY <1>3, <2>1, <2>2, <2>3, <2>4, <2>5 DEF Linked
<1>5. ASSUME NEW j \in w.imap
      PROVE  IsFiniteSet(NamesIn(w, j)) /\ w.ino[j].links = LinksOf(w, j)
  <2>1. IsFiniteSet(NamesIn(v, j)) /\ v.ino[j].links = LinksOf(v, j) /\ v.ino[j].links \in Nat
    BY <1>1, VolFields, InodeFields DEF Sound, Counted
  <2>2. CASE j = i
    <3>1. /\ IsFiniteSet(NamesIn(w, i))
          /\ Cardinality(NamesIn(w, i)) = Cardinality(NamesIn(v, i)) + 1
      <4>1. \A c, k : Holds(w, c, k, i) <=> Holds(v, c, k, i) \/ (c = d /\ k = n)
        BY <1>2
      <4> QED BY <1>1, <2>1, <2>2, <4>1, MoreNames
    <3> QED BY <2>1, <2>2, <3>1 DEF LinksOf
  <2>3. CASE j # i
    <3>1. NamesIn(w, j) = NamesIn(v, j)
      BY <1>2, <2>3, SameNamesIn
    <3>2. DirsIn(w, j) = DirsIn(v, j)
      BY <1>2, <1>3 DEF DirsIn
    <3>3. LinksOf(w, j) = LinksOf(v, j)
      BY <3>1, <3>2 DEF LinksOf
    <3>4. w.ino[j].links = v.ino[j].links + 0
      BY <2>3
    <3> QED BY <2>1, <3>1, <3>3, <3>4
  <2> QED BY <2>2, <2>3
<1> QED BY <1>4, <1>5 DEF Sound, Counted

(* A file loses a name, and goes with its last one.                        *)
LEMMA DropFile ==
  ASSUME NEW v, NEW w, Sound(v), Disk(w), NEW i \in v.imap, i \notin DirsOf(v),
         NEW d, NEW n, Holds(v, d, n, i), w.up = v.up, DirsOf(w) = DirsOf(v),
         \/ v.ino[i].links > 1 /\ w.imap = v.imap /\ w.ino[i].links = v.ino[i].links - 1
         \/ v.ino[i].links <= 1 /\ w.imap = v.imap \ {i},
         \A j \in v.imap : j # i => w.ino[j].links = v.ino[j].links,
         Loses(v, w, d, n)
  PROVE  Sound(w)
<1>1. /\ v \in Vol /\ v.imap \subseteq Ino /\ DirsOf(v) \subseteq v.imap
      /\ d \in Ino /\ n \in Name
  BY VolFields, HoldsTypes DEF Sound, Disk, DirsOf
<1>2. \A c, k, j : Holds(w, c, k, j) <=> Holds(v, c, k, j) /\ ~(c = d /\ k = n)
  BY DEF Loses
<1>3. Linked(v) /\ i # Root /\ \A j : Holds(v, d, n, j) => j = i
  BY DEF Sound, Linked
<1>4. /\ IsFiniteSet(NamesIn(w, i))
      /\ Cardinality(NamesIn(w, i)) = Cardinality(NamesIn(v, i)) - 1
      /\ Cardinality(NamesIn(v, i)) \in Nat \ {0}
      /\ v.ino[i].links = Cardinality(NamesIn(v, i))
  <2>1. IsFiniteSet(NamesIn(v, i)) /\ v.ino[i].links = Cardinality(NamesIn(v, i))
    BY DEF Sound, Counted, LinksOf
  <2>2. \A c, k : Holds(w, c, k, i) <=> Holds(v, c, k, i) /\ ~(c = d /\ k = n)
    BY <1>2
  <2>3. /\ IsFiniteSet(NamesIn(w, i))
        /\ Cardinality(NamesIn(w, i)) = Cardinality(NamesIn(v, i)) - 1
        /\ Cardinality(NamesIn(v, i)) \in Nat \ {0}
    BY <1>1, <2>1, <2>2, FewerNames
  <2> QED BY <2>1, <2>3
<1>5. i \in w.imap <=> \E c, k : Holds(w, c, k, i)
  <2>1. (\E c, k : Holds(w, c, k, i)) <=> NamesIn(w, i) # {}
    <3>1. ASSUME NEW c, NEW k, Holds(w, c, k, i) PROVE NamesIn(w, i) # {}
      <4>1. c \in Ino /\ k \in Name
        BY <1>1, <1>2, <3>1, HoldsTypes
      <4> DEFINE x == <<c, k>>
      <4>2. x \in Ino \X Name /\ x[1] = c /\ x[2] = k
        BY <4>1
      <4> HIDE DEF x
      <4>3. x \in NamesIn(w, i)
        BY <3>1, <4>2 DEF NamesIn
      <4> QED BY <4>3
    <3> QED BY <3>1 DEF NamesIn
  <2>2. NamesIn(w, i) # {} <=> Cardinality(NamesIn(w, i)) # 0
    BY <1>4, FS_EmptySet
  <2>3. i \in w.imap <=> v.ino[i].links > 1
    <3>1. v.ino[i].links \in Nat
      BY <1>4
    <3> QED BY <3>1
  <2> QED BY <1>4, <2>1, <2>2, <2>3
<1>6. \A j : j # i => (j \in w.imap <=> j \in v.imap)
  OBVIOUS
<1>7. Linked(w)
  <2>1. \A c, k, j : Holds(w, c, k, j) => c \in DirsOf(w) /\ j \in w.imap /\ j # Root
    BY <1>2, <1>3, <1>5, <1>6 DEF Linked
  <2>2. \A c, k, j, l : Holds(w, c, k, j) /\ Holds(w, c, k, l) => j = l
    BY <1>2, <1>3 DEF Linked
  <2>3. \A j \in w.imap : j # Root => \E c, k : Holds(w, c, k, j)
    <3> SUFFICES ASSUME NEW j \in w.imap, j # Root, j # i PROVE \E c, k : Holds(w, c, k, j)
      BY <1>5
    <3>1. PICK c, k : Holds(v, c, k, j)
      BY <1>3, <1>6 DEF Linked
    <3>2. Holds(w, c, k, j)
      BY <1>2, <1>3, <3>1
    <3> QED BY <3>2
  <2>4. \A j \in DirsOf(w) : \A c, k : Holds(w, c, k, j) => c = w.up[j]
    BY <1>2, <1>3 DEF Linked
  <2>5. \A j \in DirsOf(w) : \A c, k, l : Holds(w, c, k, j) /\ Holds(w, c, l, j) => k = l
    BY <1>2, <1>3 DEF Linked
  <2> QED BY <1>3, <2>1, <2>2, <2>3, <2>4, <2>5 DEF Linked
<1>8. ASSUME NEW j \in w.imap
      PROVE  IsFiniteSet(NamesIn(w, j)) /\ w.ino[j].links = LinksOf(w, j)
  <2>1. CASE j = i
    <3>1. w.ino[i].links = v.ino[i].links - 1
      BY <2>1
    <3> QED BY <1>4, <2>1, <3>1 DEF LinksOf
  <2>2. CASE j # i
    <3>1. IsFiniteSet(NamesIn(v, j)) /\ v.ino[j].links = LinksOf(v, j)
      BY <1>6, <2>2 DEF Sound, Counted
    <3>2. \A c, k : Holds(w, c, k, j) <=> Holds(v, c, k, j)
      BY <1>2, <1>3, <2>2
    <3>3. NamesIn(w, j) = NamesIn(v, j)
      BY <3>2, SameNamesIn
    <3>4. DirsIn(w, j) = DirsIn(v, j)
      BY <1>2, <1>3 DEF DirsIn
    <3> QED BY <1>6, <2>2, <3>1, <3>3, <3>4 DEF LinksOf
  <2> QED BY <2>1, <2>2
<1> QED BY <1>7, <1>8 DEF Sound, Counted

(* An empty directory is removed.                                          *)
LEMMA DropDir ==
  ASSUME NEW v, NEW w, Sound(v), Disk(w), NEW i \in DirsOf(v), \A k, j : ~Holds(v, i, k, j),
         NEW d, NEW n, Holds(v, d, n, i), w.up = v.up, DirsOf(w) = DirsOf(v) \ {i},
         w.imap = v.imap \ {i},
         \A j \in w.imap : w.ino[j].links = v.ino[j].links - IF j = d THEN 1 ELSE 0,
         Loses(v, w, d, n)
  PROVE  Sound(w)
<1>1. /\ v \in Vol /\ v.imap \subseteq Ino /\ DirsOf(v) \subseteq v.imap
      /\ d \in Ino /\ n \in Name /\ d \in DirsOf(v) /\ d # i
  BY VolFields, HoldsTypes DEF Sound, Linked, Disk, DirsOf
<1>2. \A c, k, j : Holds(w, c, k, j) <=> Holds(v, c, k, j) /\ ~(c = d /\ k = n)
  BY DEF Loses
<1>3. Linked(v) /\ i # Root /\ (\A j : Holds(v, d, n, j) => j = i)
  BY DEF Sound, Linked
<1>4. \A c, k : Holds(v, c, k, i) <=> c = d /\ k = n
  <2>1. \A c, k : Holds(v, c, k, i) => c = d
    BY <1>3 DEF Linked
  <2> QED BY <1>3, <2>1 DEF Linked
<1>5. Linked(w)
  <2>1. \A c, k, j : Holds(w, c, k, j) => c \in DirsOf(w) /\ j \in w.imap /\ j # Root
    BY <1>2, <1>3, <1>4 DEF Linked
  <2>2. \A c, k, j, l : Holds(w, c, k, j) /\ Holds(w, c, k, l) => j = l
    BY <1>2, <1>3 DEF Linked
  <2>3. \A j \in w.imap : j # Root => \E c, k : Holds(w, c, k, j)
    <3> SUFFICES ASSUME NEW j \in w.imap, j # Root PROVE \E c, k : Holds(w, c, k, j)
      OBVIOUS
    <3>1. PICK c, k : Holds(v, c, k, j)
      BY <1>3 DEF Linked
    <3>2. Holds(w, c, k, j)
      BY <1>2, <1>3, <3>1
    <3> QED BY <3>2
  <2>4. \A j \in DirsOf(w) : \A c, k : Holds(w, c, k, j) => c = w.up[j]
    BY <1>2, <1>3 DEF Linked
  <2>5. \A j \in DirsOf(w) : \A c, k, l : Holds(w, c, k, j) /\ Holds(w, c, l, j) => k = l
    BY <1>2, <1>3 DEF Linked
  <2> QED BY <1>3, <2>1, <2>2, <2>3, <2>4, <2>5 DEF Linked
<1>6. ASSUME NEW j \in w.imap
      PROVE  IsFiniteSet(NamesIn(w, j)) /\ w.ino[j].links = LinksOf(w, j)
  <2>1. IsFiniteSet(NamesIn(v, j)) /\ v.ino[j].links = LinksOf(v, j) /\ v.ino[j].links \in Nat
    BY <1>1, VolFields, InodeFields DEF Sound, Counted
  <2>2. j # i /\ \A c, k : Holds(w, c, k, j) <=> Holds(v, c, k, j)
    BY <1>2, <1>3
  <2>3. NamesIn(w, j) = NamesIn(v, j)
    BY <2>2, SameNamesIn
  <2>4. CASE j = d
    <3>1. DirsIn(w, d) = DirsIn(v, d) \ {i}
      BY <1>2, <1>3 DEF DirsIn
    <3>2. i \in DirsIn(v, d)
      BY <1>3 DEF DirsIn
    <3>3. Cardinality(DirsIn(w, d)) = Cardinality(DirsIn(v, d)) - 1
      <4>1. IsFiniteSet(DirsIn(v, d))
        BY <1>1, DirsInFinite
      <4>2. Cardinality(DirsIn(v, d) \ {i}) = Cardinality(DirsIn(v, d)) - 1
        BY <3>2, <4>1, FS_RemoveElement
      <4> QED BY <3>1, <4>2
    <3>4. v.ino[d].links = 2 + Cardinality(DirsIn(v, d))
      BY <1>1, <2>1, <2>4 DEF LinksOf
    <3>5. w.ino[d].links = v.ino[d].links - 1
      BY <2>4
    <3>6. w.ino[d].links = 2 + Cardinality(DirsIn(w, d))
      BY <1>1, <3>3, <3>4, <3>5, DirsInFinite
    <3> QED BY <1>1, <2>1, <2>3, <2>4, <3>6 DEF LinksOf
  <2>5. CASE j # d
    <3>1. DirsIn(w, j) = DirsIn(v, j)
      BY <1>2, <1>4, <2>5 DEF DirsIn
    <3>2. LinksOf(w, j) = LinksOf(v, j)
      BY <2>2, <2>3, <3>1 DEF LinksOf
    <3>3. w.ino[j].links = v.ino[j].links - 0
      BY <2>5
    <3> QED BY <2>1, <2>3, <3>2, <3>3
  <2> QED BY <2>4, <2>5
<1> QED BY <1>5, <1>6 DEF Sound, Counted

(* Directory d loses name n, and e has name m of the same inode instead.   *)
Moves(v, w, i, d, n, e, m) ==
  \A c, k, j : Holds(w, c, k, j) <=> \/ Holds(v, c, k, j) /\ ~(c = d /\ k = n)
                                     \/ c = e /\ k = m /\ j = i

(* What that does to the links of the two directories, if i is one.        *)
Shift(v, i, d, e, j) ==
  IF i \in DirsOf(v) /\ d # e
    THEN IF j = e THEN 1 ELSE IF j = d THEN -1 ELSE 0
    ELSE 0

(* An inode that moves has as many names as before.                        *)
LEMMA MovedNames ==
  ASSUME NEW v, NEW w, Sound(v), NEW i, NEW d, NEW n, Holds(v, d, n, i),
         NEW e \in DirsOf(v), NEW m \in Name, \A j : ~Holds(v, e, m, j),
         Moves(v, w, i, d, n, e, m)
  PROVE  IsFiniteSet(NamesIn(w, i)) /\ Cardinality(NamesIn(w, i)) = Cardinality(NamesIn(v, i))
<1>1. v \in Vol /\ d \in Ino /\ n \in Name /\ e \in Ino
  BY VolFields, HoldsTypes DEF Sound, Disk, DirsOf
<1>2. IsFiniteSet(NamesIn(v, i))
  BY DEF Sound, Counted, Linked
<1> DEFINE x == <<d, n>>
           y == <<e, m>>
<1>3. /\ \A z \in Ino \X Name : (z[1] = d /\ z[2] = n) <=> z = x
      /\ \A z \in Ino \X Name : (z[1] = e /\ z[2] = m) <=> z = y
      /\ x \in Ino \X Name /\ y \in Ino \X Name
      /\ x[1] = d /\ x[2] = n /\ y[1] = e /\ y[2] = m
  BY <1>1
<1> HIDE DEF x, y
<1>4. x \in NamesIn(v, i) /\ y \notin NamesIn(v, i)
  BY <1>3 DEF NamesIn
<1>5. NamesIn(w, i) = (NamesIn(v, i) \ {x}) \cup {y}
  <2>1. \A z \in Ino \X Name : Holds(w, z[1], z[2], i) <=> \/ Holds(v, z[1], z[2], i) /\ z # x
                                                          \/ z = y
    BY <1>3 DEF Moves
  <2> QED BY <1>3, <2>1 DEF NamesIn
<1> DEFINE s == NamesIn(v, i)
           t == s \ {x}
<1>6. IsFiniteSet(t) /\ Cardinality(t) = Cardinality(s) - 1 /\ Cardinality(s) \in Nat
  BY <1>2, <1>4, FS_RemoveElement, FS_CardinalityType
<1>7. y \notin t
  BY <1>4
<1> HIDE DEF s
<1>8. IsFiniteSet(t \cup {y}) /\ Cardinality(t \cup {y}) = Cardinality(t) + 1
  <2> HIDE DEF t
  <2> QED BY <1>6, <1>7, FS_AddElement
<1> QED BY <1>5, <1>6, <1>8 DEF s

(* A directory that moves is counted where it goes, and no longer where it *)
(* was.                                                                    *)
LEMMA MovedDirs ==
  ASSUME NEW v, NEW w, Sound(v), NEW i \in DirsOf(v), NEW d, NEW n, Holds(v, d, n, i),
         NEW e \in DirsOf(v), NEW m \in Name, \A j : ~Holds(v, e, m, j),
         DirsOf(w) = DirsOf(v), Moves(v, w, i, d, n, e, m), NEW j \in DirsOf(v)
  PROVE  Cardinality(DirsIn(w, j)) = Cardinality(DirsIn(v, j)) + Shift(v, i, d, e, j)
<1>1. v \in Vol /\ Linked(v)
  BY DEF Sound, Disk
<1>2. /\ IsFiniteSet(DirsIn(v, j)) /\ Cardinality(DirsIn(v, j)) \in Nat
      /\ \A z : z \in DirsIn(w, j) <=> z \in DirsOf(v) /\ z # Root /\ \E k : Holds(w, j, k, z)
      /\ \A z : z \in DirsIn(v, j) <=> z \in DirsOf(v) /\ z # Root /\ \E k : Holds(v, j, k, z)
  BY <1>1, DirsInFinite DEF DirsIn
<1>3. /\ i # Root /\ (\A c, k : Holds(v, c, k, i) <=> c = d /\ k = n)
      /\ \A z : Holds(v, d, n, z) => z = i
  <2>1. \A c, k : Holds(v, c, k, i) => c = d
    BY <1>1 DEF Linked
  <2> QED BY <1>1, <2>1 DEF Linked
<1>4. \A k, z : z # i => (Holds(w, j, k, z) <=> Holds(v, j, k, z))
  BY <1>3 DEF Moves
<1>5. (\E k : Holds(w, j, k, i)) <=> j = e
  BY <1>3 DEF Moves
<1>6. (\E k : Holds(v, j, k, i)) <=> j = d
  BY <1>3
<1>7. \A z : z # i => (z \in DirsIn(w, j) <=> z \in DirsIn(v, j))
  BY <1>2, <1>4
<1>8. (i \in DirsIn(w, j) <=> j = e) /\ (i \in DirsIn(v, j) <=> j = d)
  BY <1>2, <1>3, <1>5, <1>6
<1>9. CASE j = e /\ j # d
  <2>1. DirsIn(w, j) = DirsIn(v, j) \cup {i}
    BY <1>7, <1>8, <1>9
  <2>2. Cardinality(DirsIn(v, j) \cup {i}) = Cardinality(DirsIn(v, j)) + 1
    BY <1>2, <1>8, <1>9, FS_AddElement
  <2> QED BY <1>9, <2>1, <2>2 DEF Shift
<1>10. CASE j = d /\ j # e
  <2>1. DirsIn(w, j) = DirsIn(v, j) \ {i}
    BY <1>7, <1>8, <1>10
  <2>2. Cardinality(DirsIn(v, j) \ {i}) = Cardinality(DirsIn(v, j)) - 1
    BY <1>2, <1>8, <1>10, FS_RemoveElement
  <2> QED BY <1>2, <1>10, <2>1, <2>2 DEF Shift
<1>11. CASE (j = e <=> j = d)
  <2>1. DirsIn(w, j) = DirsIn(v, j)
    BY <1>7, <1>8, <1>11
  <2>2. Shift(v, i, d, e, j) = 0
    BY <1>11 DEF Shift
  <2> QED BY <1>2, <2>1, <2>2
<1> QED BY <1>9, <1>10, <1>11

(* A volume stays sound when a name moves with its links and "..".         *)
LEMMA MoveName ==
  ASSUME NEW v, NEW w, Sound(v), Disk(w), NEW i, NEW d, NEW n, Holds(v, d, n, i),
         NEW e \in DirsOf(v), NEW m \in Name, \A j : ~Holds(v, e, m, j),
         w.imap = v.imap, DirsOf(w) = DirsOf(v),
         i \in DirsOf(v) => w.up[i] = e, \A j \in v.imap : j # i => w.up[j] = v.up[j],
         \A j \in v.imap : w.ino[j].links = v.ino[j].links + Shift(v, i, d, e, j),
         Moves(v, w, i, d, n, e, m)
  PROVE  Sound(w)
<1>1. /\ v \in Vol /\ v.imap \subseteq Ino /\ DirsOf(v) \subseteq v.imap
      /\ d \in Ino /\ n \in Name /\ d \in DirsOf(v)
  BY VolFields, HoldsTypes DEF Sound, Linked, Disk, DirsOf
<1>2. \A c, k, j : Holds(w, c, k, j) <=> \/ Holds(v, c, k, j) /\ ~(c = d /\ k = n)
                                         \/ c = e /\ k = m /\ j = i
  BY DEF Moves
<1>3. /\ Linked(v) /\ i \in v.imap /\ i # Root
      /\ (\A j : Holds(v, d, n, j) => j = i) /\ ~(e = d /\ m = n)
  BY DEF Sound, Linked
<1>4. i \in DirsOf(v) => \A c, k : Holds(v, c, k, i) <=> c = d /\ k = n
  <2>1. i \in DirsOf(v) => \A c, k : Holds(v, c, k, i) => c = d
    BY <1>3 DEF Linked
  <2> QED BY <1>3, <2>1 DEF Linked
<1>5. Linked(w)
  <2>1. \A c, k, j : Holds(w, c, k, j) => c \in DirsOf(w) /\ j \in w.imap /\ j # Root
    BY <1>2, <1>3 DEF Linked
  <2>2. \A c, k, j, l : Holds(w, c, k, j) /\ Holds(w, c, k, l) => j = l
    BY <1>2, <1>3 DEF Linked
  <2>3. \A j \in w.imap : j # Root => \E c, k : Holds(w, c, k, j)
    <3> SUFFICES ASSUME NEW j \in w.imap, j # Root, j # i PROVE \E c, k : Holds(w, c, k, j)
      BY <1>2
    <3>1. PICK c, k : Holds(v, c, k, j)
      BY <1>3 DEF Linked
    <3>2. Holds(w, c, k, j)
      BY <1>2, <1>3, <3>1
    <3> QED BY <3>2
  <2>4. \A j \in DirsOf(w) : \A c, k : Holds(w, c, k, j) => c = w.up[j]
    <3> SUFFICES ASSUME NEW j \in DirsOf(v), NEW c, NEW k, Holds(w, c, k, j) PROVE c = w.up[j]
      OBVIOUS
    <3>1. CASE j = i
      BY <1>2, <1>4, <3>1
    <3>2. CASE j # i
      BY <1>1, <1>2, <1>3, <3>2 DEF Linked
    <3> QED BY <3>1, <3>2
  <2>5. \A j \in DirsOf(w) : \A c, k, l : Holds(w, c, k, j) /\ Holds(w, c, l, j) => k = l
    <3> SUFFICES ASSUME NEW j \in DirsOf(v), NEW c, NEW k, NEW l,
                        Holds(w, c, k, j), Holds(w, c, l, j)
                 PROVE  k = l
      OBVIOUS
    <3>1. CASE j = i
      BY <1>2, <1>4, <3>1
    <3>2. CASE j # i
      BY <1>2, <1>3, <3>2 DEF Linked
    <3> QED BY <3>1, <3>2
  <2> QED BY <1>3, <2>1, <2>2, <2>3, <2>4, <2>5 DEF Linked
<1>6. ASSUME NEW j \in w.imap
      PROVE  IsFiniteSet(NamesIn(w, j)) /\ w.ino[j].links = LinksOf(w, j)
  <2>1. IsFiniteSet(NamesIn(v, j)) /\ v.ino[j].links = LinksOf(v, j) /\ v.ino[j].links \in Nat
    BY <1>1, VolFields, InodeFields DEF Sound, Counted
  <2>2. IsFiniteSet(NamesIn(w, j)) /\ Cardinality(NamesIn(w, j)) = Cardinality(NamesIn(v, j))
    <3>1. CASE j = i
      BY <3>1, MovedNames
    <3>2. CASE j # i
      <4>1. \A c, k : Holds(w, c, k, j) <=> Holds(v, c, k, j)
        BY <1>2, <1>3, <3>2
      <4>2. NamesIn(w, j) = NamesIn(v, j)
        BY <4>1, SameNamesIn
      <4> QED BY <2>1, <4>2
    <3> QED BY <3>1, <3>2
  <2>3. CASE j \notin DirsOf(v)
    <3>1. Shift(v, i, d, e, j) = 0
      BY <1>1, <2>3 DEF Shift
    <3>2. w.ino[j].links = v.ino[j].links
      BY <2>1, <3>1
    <3> QED BY <2>1, <2>2, <2>3, <3>2 DEF LinksOf
  <2>4. CASE j \in DirsOf(v)
    <3>1. v.ino[j].links = 2 + Cardinality(DirsIn(v, j)) /\ Cardinality(DirsIn(v, j)) \in Nat
      BY <1>1, <2>1, <2>4, DirsInFinite DEF LinksOf
    <3>2. CASE i \in DirsOf(v)
      <4>1. Cardinality(DirsIn(w, j)) = Cardinality(DirsIn(v, j)) + Shift(v, i, d, e, j)
        BY <2>4, <3>2, MovedDirs
      <4>2. Shift(v, i, d, e, j) \in Int
        BY DEF Shift
      <4>3. w.ino[j].links = 2 + Cardinality(DirsIn(w, j))
        BY <3>1, <4>1, <4>2
      <4> QED BY <2>2, <2>4, <4>3 DEF LinksOf
    <3>3. CASE i \notin DirsOf(v)
      <4>1. Shift(v, i, d, e, j) = 0
        BY <3>3 DEF Shift
      <4>2. DirsIn(w, j) = DirsIn(v, j)
        BY <1>2, <1>3, <3>3 DEF DirsIn
      <4>3. w.ino[j].links = 2 + Cardinality(DirsIn(w, j))
        BY <3>1, <4>1, <4>2
      <4> QED BY <2>2, <2>4, <4>3 DEF LinksOf
    <3> QED BY <3>2, <3>3
  <2> QED BY <2>3, <2>4
<1> QED BY <1>5, <1>6 DEF Sound, Counted

-----------------------------------------------------------------------------
(* What a path of one or two names leads to.                               *)
LEMMA PathMeans ==
  ASSUME NEW p \in Path
  PROVE  /\ Split(p).name \in Name
         /\ \/ Len(p) = 1 /\ Split(p).dir = <<>> /\ Split(p).name = p[1]
            \/ /\ Len(p) = 2 /\ Len(Split(p).dir) = 1 /\ Split(p).dir # <<>>
               /\ Split(p).dir[1] = p[1] /\ Split(p).name = p[2] /\ p[1] \in Name
<1>1. CASE \E n \in Name : p = <<n>>
  <2>1. PICK n \in Name : p = <<n>>
    BY <1>1
  <2>2. Len(p) = 1 /\ p[1] = n /\ SubSeq(p, 1, 0) = <<>>
    BY <2>1
  <2> QED BY <2>2 DEF Split
<1>2. CASE \E m, n \in Name : p = <<m, n>>
  <2>1. PICK m, n \in Name : p = <<m, n>>
    BY <1>2
  <2>2. Len(p) = 2 /\ p[1] = m /\ p[2] = n /\ p \in Seq(Name)
    BY <2>1
  <2> DEFINE q == SubSeq(p, 1, 1)
  <2> HIDE DEF q
  <2>3. Len(q) = 1 /\ q[1] = p[1] /\ q \in Seq(Name)
    BY <2>2 DEF q
  <2>4. q # <<>>
    <3> DEFINE e == <<>>
    <3>1. Len(e) = 0
      OBVIOUS
    <3> HIDE DEF e
    <3>2. q # e
      BY <2>3, <3>1
    <3> QED BY <3>2 DEF e
  <2>5. Split(p).dir = q /\ Split(p).name = p[2]
    BY <2>2 DEF Split, q
  <2> QED BY <2>2, <2>3, <2>4, <2>5
<1> QED BY <1>1, <1>2 DEF Path

(* In a volume that is sound, an inode is at a path if the directory it is *)
(* in has the name.                                                        *)
LEMMA LookupMeans ==
  ASSUME NEW v \in Vol, NEW d \in v.imap, NEW n, NEW i
  PROVE  i \in Lookup(v, d, n) <=> Holds(v, d, n, i)
<1>1. ASSUME NEW e \in Entries(v, d) PROVE e \in Name \X Ino
  <2>1. PICK b \in Of(v, d) : e \in v.ent[b]
    BY EntriesMean
  <2>2. b \in Blk
    BY <2>1, VolFields, InodeFields DEF Of
  <2> QED BY <2>1, <2>2, VolFields
<1>2. \A e \in Entries(v, d) : e[1] = n /\ e[2] = i <=> e = <<n, i>>
  BY <1>1
<1> DEFINE x == <<n, i>>
<1>3. x[1] = n /\ x[2] = i
  OBVIOUS
<1>4. Holds(v, d, n, i) <=> x \in Entries(v, d)
  BY DEF Holds
<1>5. \A e \in Entries(v, d) : e[1] = n /\ e[2] = i <=> e = x
  BY <1>2
<1> HIDE DEF x
<1>6. i \in Lookup(v, d, n) <=> \E e \in Entries(v, d) : e[1] = n /\ e[2] = i
  BY DEF Lookup
<1> QED BY <1>3, <1>4, <1>5, <1>6

(* The root is always a directory in use.                                  *)
LEMMA RootThere ==
  ASSUME NEW v, Sound(v)
  PROVE  v \in Vol /\ Root \in v.imap /\ Root \in DirsOf(v)
BY DEF Sound, Disk, Linked, DirsOf

(* There is one directory that a path is in at most, and what the path     *)
(* leads to is what that directory holds under the last name.              *)
LEMMA ParentsMean ==
  ASSUME NEW v, Sound(v), NEW p \in Path, NEW d \in Parents(v, p)
  PROVE  /\ d \in DirsOf(v) /\ d \in v.imap
         /\ Len(p) = 1 => d = Root
         /\ Len(p) = 2 => Holds(v, Root, p[1], d)
         /\ \A i : i \in Namei(v, p) <=> Holds(v, d, Split(p).name, i)
<1>1. v \in Vol /\ Root \in v.imap /\ Linked(v)
  BY RootThere DEF Sound
<1>2. CASE Len(p) = 1
  <2>1. Split(p).dir = <<>> /\ Split(p).name = p[1]
    BY <1>2, PathMeans
  <2>2. d = Root
    BY <2>1 DEF Parents, Namei
  <2>3. p # <<>>
    BY <1>2
  <2>4. Namei(v, p) = Lookup(v, Root, p[1])
    BY <1>2, <2>3 DEF Namei
  <2> QED BY <1>1, <1>2, <2>1, <2>2, <2>4, LookupMeans, RootThere
<1>3. CASE Len(p) = 2
  <2>1. /\ Len(Split(p).dir) = 1 /\ Split(p).dir # <<>> /\ Split(p).dir[1] = p[1]
        /\ Split(p).name = p[2]
    BY <1>3, PathMeans
  <2>2. Namei(v, Split(p).dir) = Lookup(v, Root, p[1])
    BY <2>1 DEF Namei
  <2>3. d \in Lookup(v, Root, p[1]) /\ v.ino[d].kind = Dir
    BY <2>2 DEF Parents, Dir
  <2>4. Holds(v, Root, p[1], d)
    BY <1>1, <2>3, LookupMeans
  <2>5. d \in v.imap /\ d \in DirsOf(v)
    BY <1>1, <2>3, <2>4 DEF Linked, DirsOf
  <2>6. \A c : c \in Lookup(v, Root, p[1]) <=> c = d
    <3>1. \A c : c \in Lookup(v, Root, p[1]) <=> Holds(v, Root, p[1], c)
      BY <1>1, LookupMeans
    <3> QED BY <1>1, <2>4, <3>1 DEF Linked
  <2>7. Namei(v, p) = Lookup(v, d, p[2])
    <3>1. p # <<>> /\ Len(p) # 1
      BY <1>3
    <3>2. Namei(v, p) = UNION {Lookup(v, c, p[2]) : c \in Lookup(v, Root, p[1])}
      BY <3>1 DEF Namei
    <3> QED BY <2>6, <3>2
  <2>8. \A i : i \in Lookup(v, d, p[2]) <=> Holds(v, d, p[2], i)
    BY <1>1, <2>5, LookupMeans
  <2> QED BY <1>3, <2>1, <2>4, <2>5, <2>7, <2>8
<1> QED BY <1>2, <1>3, PathMeans

(* What a path leads to is in use, and has a name.                         *)
LEMMA NameiMeans ==
  ASSUME NEW v, Sound(v), NEW p \in Path, NEW i \in Namei(v, p)
  PROVE  i \in v.imap /\ \E d \in DirsOf(v) : Holds(v, d, Split(p).name, i)
<1>1. v \in Vol /\ Root \in v.imap /\ Linked(v)
  BY RootThere DEF Sound
<1>2. CASE Len(p) = 1
  <2>1. p # <<>> /\ Split(p).name = p[1]
    BY <1>2, PathMeans
  <2>2. i \in Lookup(v, Root, p[1])
    BY <1>2, <2>1 DEF Namei
  <2>3. Holds(v, Root, p[1], i)
    BY <1>1, <2>2, LookupMeans
  <2> QED BY <1>1, <2>1, <2>3 DEF Linked
<1>3. CASE Len(p) = 2
  <2>1. p # <<>> /\ Len(p) # 1 /\ Split(p).name = p[2]
    BY <1>3, PathMeans
  <2>2. PICK c \in Lookup(v, Root, p[1]) : i \in Lookup(v, c, p[2])
    BY <2>1 DEF Namei
  <2>3. Holds(v, Root, p[1], c)
    BY <1>1, <2>2, LookupMeans
  <2>4. c \in v.imap
    BY <1>1, <2>3 DEF Linked
  <2>5. Holds(v, c, p[2], i)
    BY <1>1, <2>2, <2>4, LookupMeans
  <2> QED BY <1>1, <2>1, <2>5 DEF Linked
<1> QED BY <1>2, <1>3, PathMeans

-----------------------------------------------------------------------------
(* Nothing changes but blocks.                                             *)
LEMMA SoundSame ==
  ASSUME NEW v, NEW w, Sound(v), Disk(w), Kept(v, w), SameNames(v, w)
  PROVE  Sound(w) /\ DirsOf(w) = DirsOf(v)
<1>1. v \in Vol /\ v.imap \subseteq Ino /\ w.imap = v.imap
  BY VolFields DEF Sound, Disk, Kept
<1>2. DirsOf(w) = DirsOf(v)
  BY <1>1 DEF DirsOf, Kept
<1>3. Linked(w)
  BY <1>1, <1>2 DEF Sound, Linked, Kept, SameNames
<1>4. ASSUME NEW i \in w.imap
      PROVE  IsFiniteSet(NamesIn(w, i)) /\ w.ino[i].links = LinksOf(w, i)
  <2>1. NamesIn(w, i) = NamesIn(v, i) /\ DirsIn(w, i) = DirsIn(v, i)
    BY <1>2 DEF SameNames, NamesIn, DirsIn
  <2>2. LinksOf(w, i) = LinksOf(v, i)
    BY <1>2, <2>1 DEF LinksOf
  <2>3. w.ino[i].links = v.ino[i].links
    BY <1>1 DEF Kept
  <2> QED BY <1>1, <2>1, <2>2, <2>3 DEF Sound, Counted
<1> QED BY <1>2, <1>3, <1>4 DEF Sound, Counted

NewInode(kind) == [kind |-> kind, links |-> 1, size |-> 0, blk |-> {}]

(* The inode of a new file: one link, no block.                            *)
LEMMA NewInodeIs ==
  ASSUME NEW kind \in Kind
  PROVE  /\ NewInode(kind) \in Inode /\ NewInode(kind).kind = kind
         /\ NewInode(kind).links = 1 /\ NewInode(kind).blk = {}
<1>1. {} \in IBlk
  BY FS_EmptySet DEF IBlk
<1> QED BY <1>1 DEF NewInode, Inode

(* Room is made for a name, and it is added.                               *)
LEMMA LinkInIs ==
  ASSUME NEW v, Disk(v), NEW d \in DirsOf(v), NEW n \in Name, NEW i \in Ino,
         NEW w \in LinkIn(v, d, n, i)
  PROVE  /\ Disk(w) /\ Kept(v, w) /\ DirsOf(w) = DirsOf(v) /\ Gains(v, w, d, n, i)
         /\ Roomy(v, d) # {} => SameInodes(v, w)
<1>1. PICK t \in MakeRoom(v, d) : w = AddName(t, d, n, i)
  BY DEF LinkIn
<1>2. /\ Disk(t) /\ Kept(v, t) /\ SameNames(v, t) /\ Roomy(t, d) # {}
      /\ DirsOf(t) = DirsOf(v) /\ (Roomy(v, d) # {} => t = v)
  BY MakeRoomIs
<1>3. Disk(w) /\ SameInodes(t, w) /\ Gains(t, w, d, n, i)
  BY <1>1, <1>2, AddNameIs
<1>4. Kept(v, w)
  BY <1>2, <1>3 DEF Kept, SameInodes
<1>5. DirsOf(w) = DirsOf(t)
  BY <1>3 DEF DirsOf, SameInodes
<1>6. Gains(v, w, d, n, i)
  BY <1>2, <1>3 DEF Gains, SameNames
<1> QED BY <1>2, <1>3, <1>4, <1>5, <1>6

(* do_create keeps a volume sound, and its inode is in use then.           *)
LEMMA DoCreateIs ==
  ASSUME NEW v, Sound(v), NEW d \in DirsOf(v), NEW n \in Name, \A j : ~Holds(v, d, n, j),
         NEW kind \in Kind, kind # Dir, NEW w \in DoCreate(v, d, n, kind)
  PROVE  Sound(w) /\ Min(FreeIno(v)) \in w.imap
<1> DEFINE i == Min(FreeIno(v))
           x == NewInode(kind)
<1>1. v \in Vol /\ Disk(v)
  BY DEF Sound, Disk
<1>2. FreeIno(v) # {} /\ \E u \in LinkIn(v, d, n, i) : w = Takes(u, i, x)
  BY DEF DoCreate, Takes, NewInode
<1>3. i \in Ino /\ i \notin v.imap
  BY <1>1, <1>2, FreeIsFree
<1>4. PICK u \in LinkIn(v, d, n, i) : w = Takes(u, i, x)
  BY <1>2
<1>5. x \in Inode /\ x.kind = kind /\ x.links = 1 /\ x.blk = {}
  BY NewInodeIs
<1> HIDE DEF x, i
<1>6. Disk(u) /\ Kept(v, u) /\ DirsOf(u) = DirsOf(v) /\ Gains(v, u, d, n, i)
  BY <1>1, <1>3, LinkInIs
<1>7. i \notin u.imap
  BY <1>3, <1>6 DEF Kept
<1>8. Disk(w) /\ SameNames(u, w) /\ Taken(u, w, i, x)
  BY <1>3, <1>4, <1>5, <1>6, <1>7, TakesInode
<1>9. /\ w.imap = v.imap \cup {i} /\ w.up = v.up /\ DirsOf(w) = DirsOf(v) /\ w.ino[i].links = 1
      /\ \A j \in v.imap : w.ino[j].links = v.ino[j].links
  BY <1>1, <1>3, <1>5, <1>6, <1>8, VolFields DEF Kept, Taken
<1>10. Gains(v, w, d, n, i)
  BY <1>6, <1>8 DEF Gains, SameNames
<1>11. Sound(w)
  BY <1>3, <1>8, <1>9, <1>10, NewFile
<1> QED BY <1>9, <1>11 DEF i

(* A file is written: it may get a block.                                  *)
LEMMA DoWriteIs ==
  ASSUME NEW v, Sound(v), NEW i \in v.imap, NEW k \in Nat
  PROVE  Sound(DoWrite(v, i, k))
<1> DEFINE o == v.ino[i]
           b == Min(FreeBlk(v))
           sz == Max({o.size, k + 1})
           x == [o EXCEPT !.size = sz]
           y == [o EXCEPT !.size = sz, !.blk = o.blk \cup {<<k, b>>}]
<1>1. v \in Vol /\ Disk(v) /\ i \in Ino /\ o \in Inode
  BY VolFields DEF Sound, Disk
<1>2. sz \in Nat
  <2>1. o.size \in Nat
    BY <1>1, InodeFields
  <2>2. o.size >= k + 1 \/ k + 1 >= o.size
    BY <2>1
  <2>3. \E z \in {o.size, k + 1} : \A u \in {o.size, k + 1} : z >= u
    BY <2>1, <2>2
  <2>4. sz \in {o.size, k + 1}
    BY <2>3 DEF Max
  <2> QED BY <2>1, <2>4
<1>3. x \in Inode /\ x.kind = o.kind /\ x.links = o.links /\ x.blk = o.blk
  <2> HIDE DEF sz
  <2> QED BY <1>1, <1>2 DEF Inode
<1> DEFINE w == WithInode(v, i, x)
<1>4. w = [v EXCEPT !.ino[i].size = Max({@, k + 1})]
  BY <1>1 DEF WithInode, Vol
<1>5. \/ DoWrite(v, i, k) = w
      \/ /\ FreeBlk(v) # {}
         /\ DoWrite(v, i, k) = [w EXCEPT !.ino[i].blk = @ \cup {<<k, b>>},
                                         !.bmap = @ \cup {b}, !.ent[b] = {}]
  <2>1. v.ino \in [Ino -> Inode] /\ w.bmap = v.bmap
    BY <1>1, VolFields DEF WithInode, Vol
  <2> HIDE DEF w
  <2> QED BY <1>1, <1>4, <2>1 DEF DoWrite, FreeBlk
<1> HIDE DEF x, w, sz
<1>6. Disk(w) /\ SameNames(v, w) /\ Written(v, w, i, x)
  <2>1. Blocks(x) = Of(v, i)
    BY <1>3 DEF Blocks, Of
  <2> QED BY <1>1, <1>3, <2>1, WrittenInode DEF w
<1>7. Kept(v, w) /\ w.ino[i] = x /\ w \in Vol /\ w.imap = v.imap /\ w.bmap = v.bmap
  BY <1>1, <1>3, <1>6, VolFields DEF Kept, Written, Disk
<1>8. Sound(w)
  BY <1>6, <1>7, SoundSame
<1>9. ASSUME FreeBlk(v) # {},
             DoWrite(v, i, k) = [w EXCEPT !.ino[i].blk = @ \cup {<<k, b>>},
                                          !.bmap = @ \cup {b}, !.ent[b] = {}]
      PROVE  Sound(DoWrite(v, i, k))
  <2> DEFINE u == DoWrite(v, i, k)
             e == <<k, b>>
             bs == x.blk \cup {e}
             z == [x EXCEPT !.blk = bs]
  <2>1. b \in Blk /\ b \notin v.bmap
    BY <1>1, <1>9, FreeIsFree
  <2> HIDE DEF u, b, o
  <2>2. u = [w EXCEPT !.ino[i].blk = @ \cup {e}, !.bmap = @ \cup {b}, !.ent[b] = {}]
    BY <1>9 DEF u
  <2>3. e \in Nat \X Blk /\ e[2] = b
    BY <2>1
  <2> HIDE DEF e
  <2>4. bs \in IBlk
    BY <1>3, <2>3, InodeFields, FS_AddElement DEF IBlk
  <2>5. bs = x.blk \cup {e}
    OBVIOUS
  <2> HIDE DEF bs
  <2>6. z \in Inode /\ z.kind = x.kind /\ z.links = x.links /\ z.blk = bs
    BY <1>3, <2>4 DEF Inode
  <2>7. z = [x EXCEPT !.blk = x.blk \cup {e}]
    BY <2>5
  <2>8. /\ u.ino = [w.ino EXCEPT ![i] = z] /\ u.bmap = w.bmap \cup {b}
        /\ u.ent = [w.ent EXCEPT ![b] = {}] /\ u.up = w.up /\ u.imap = w.imap
        /\ u = [ino |-> u.ino, ent |-> u.ent, up |-> u.up, imap |-> u.imap, bmap |-> u.bmap]
    BY <1>1, <1>7, <2>1, <2>2, <2>7 DEF Vol, Inode
  <2> HIDE DEF z
  <2>9. u \in Vol
    BY <1>1, <1>7, <2>1, <2>6, <2>8, VolFields DEF Vol
  <2>10. u.ino[i] = z /\ \A j \in Ino : j # i => u.ino[j] = w.ino[j]
    BY <1>1, <1>7, <2>8, VolFields
  <2>11. Of(u, i) = Of(w, i) \cup {b}
    BY <1>7, <2>3, <2>5, <2>6, <2>10 DEF Of, Blocks
  <2>12. Disk(u) /\ SameNames(w, u)
    <3>1. i \in w.imap /\ b \notin w.bmap
      BY <1>7, <2>1
    <3>2. \A j \in Ino : j # i => u.ino[j] = w.ino[j]
      BY <2>10
    <3>3. u.ino[i].kind = w.ino[i].kind
      BY <1>7, <2>6, <2>10
    <3>4. u.imap = w.imap /\ u.bmap = w.bmap \cup {b} /\ u.ent = [w.ent EXCEPT ![b] = {}]
      BY <2>8
    <3> HIDE DEF u, b
    <3> QED BY <1>6, <2>1, <2>9, <2>11, <3>1, <3>2, <3>3, <3>4, GetsBlock
  <2>13. Kept(w, u)
    BY <1>7, <2>6, <2>8, <2>10 DEF Kept
  <2> QED BY <1>8, <2>12, <2>13, SoundSame DEF u
<1> QED BY <1>5, <1>8, <1>9

(* A file that is cut keeps its kind and links, and has no new block.      *)
LEMMA CutIs ==
  ASSUME NEW o \in Inode, NEW s \in Nat
  PROVE  /\ Cut(o, s) \in Inode /\ Cut(o, s).kind = o.kind /\ Cut(o, s).links = o.links
         /\ Blocks(Cut(o, s)) \subseteq Blocks(o)
<1> DEFINE bs == {e \in o.blk : e[1] < s}
           x == [o EXCEPT !.size = s, !.blk = bs]
<1>1. Cut(o, s) = x
  BY DEF Cut
<1>2. bs \subseteq o.blk /\ bs \in IBlk
  BY InodeFields, FS_Subset DEF IBlk
<1> HIDE DEF bs
<1>3. x \in Inode /\ x.kind = o.kind /\ x.links = o.links /\ x.blk = bs
  BY <1>2 DEF Inode
<1> HIDE DEF x
<1> QED BY <1>1, <1>2, <1>3 DEF Blocks

TruncateIn(v, i, s) ==
  [v EXCEPT !.ino[i] = Cut(@, s), !.bmap = @ \ (Blocks(v.ino[i]) \ Blocks(Cut(v.ino[i], s)))]

(* A file loses blocks, and no directory does.                             *)
LEMMA TruncateIs ==
  ASSUME NEW v, Sound(v), NEW i \in v.imap, i \notin DirsOf(v), NEW s \in Nat
  PROVE  Sound(TruncateIn(v, i, s))
<1> DEFINE o == v.ino[i]
           x == Cut(o, s)
           w == TruncateIn(v, i, s)
<1>1. v \in Vol /\ Disk(v) /\ i \in Ino /\ o \in Inode /\ v.imap \subseteq Ino
  BY VolFields DEF Sound, Disk
<1>2. x \in Inode /\ x.kind = o.kind /\ x.links = o.links /\ Blocks(x) \subseteq Of(v, i)
  BY <1>1, CutIs DEF Of
<1> DEFINE gone == Of(v, i) \ Blocks(x)
<1>12. w = [v EXCEPT !.ino[i] = x, !.bmap = @ \ gone]
  BY DEF TruncateIn, Of
<1>13. \A b : b \in gone <=> b \in Of(v, i) /\ b \notin Blocks(x)
  OBVIOUS
<1> HIDE DEF x, w, gone
<1>3. /\ w.ino = [v.ino EXCEPT ![i] = x] /\ w.ent = v.ent /\ w.up = v.up /\ w.imap = v.imap
      /\ w.bmap = v.bmap \ gone
      /\ w = [ino |-> w.ino, ent |-> w.ent, up |-> w.up, imap |-> w.imap, bmap |-> w.bmap]
  BY <1>1, <1>12 DEF Vol
<1>4. w \in Vol
  BY <1>1, <1>2, <1>3, VolFields DEF Vol
<1>5. w.ino[i] = x /\ \A j \in Ino : j # i => w.ino[j] = v.ino[j]
  BY <1>1, <1>3, VolFields
<1>6. Of(w, i) = Blocks(x) /\ \A j \in v.imap : j # i => Of(w, j) = Of(v, j)
  BY <1>1, <1>5 DEF Of
<1>7. Disk(w)
  <2>1. ASSUME NEW b \in Blk PROVE b \in w.bmap <=> \E j \in w.imap : b \in Of(w, j)
    <3>1. b \in w.bmap <=> b \in v.bmap /\ (b \in Of(v, i) => b \in Blocks(x))
      BY <1>3, <1>13
    <3>2. b \in v.bmap <=> \E j \in v.imap : b \in Of(v, j)
      BY <1>1 DEF Disk
    <3>3. \A j \in v.imap : j # i => ~(b \in Of(v, j) /\ b \in Of(v, i))
      BY <1>1 DEF Disk
    <3>4. \A j \in v.imap : j # i => (b \in Of(w, j) <=> b \in Of(v, j))
      BY <1>6
    <3>5. b \in Of(w, i) <=> b \in Blocks(x)
      BY <1>6
    <3>6. w.imap = v.imap
      BY <1>3
    <3> QED BY <1>2, <3>1, <3>2, <3>3, <3>4, <3>5, <3>6
  <2>2. ASSUME NEW j \in w.imap, NEW k \in w.imap, j # k PROVE Of(w, j) \cap Of(w, k) = {}
    <3>1. j \in v.imap /\ k \in v.imap /\ Of(v, j) \cap Of(v, k) = {}
      BY <1>1, <1>3, <2>2 DEF Disk
    <3>2. Of(w, j) \subseteq Of(v, j) /\ Of(w, k) \subseteq Of(v, k)
      BY <1>2, <1>6, <3>1
    <3> QED BY <3>1, <3>2
  <2> QED BY <1>4, <2>1, <2>2 DEF Disk
<1>8. SameNames(v, w)
  <2> SUFFICES ASSUME NEW c, NEW k, NEW j PROVE Holds(w, c, k, j) <=> Holds(v, c, k, j)
    BY DEF SameNames
  <2> DEFINE y == <<k, j>>
  <2>1. Holds(w, c, k, j) <=> c \in v.imap /\ y \in Entries(w, c)
    BY <1>3 DEF Holds
  <2>2. Holds(v, c, k, j) <=> c \in v.imap /\ y \in Entries(v, c)
    BY DEF Holds
  <2> HIDE DEF y
  <2>3. CASE c = i
    <3>1. ~Holds(v, c, k, j)
      BY <2>3 DEF Sound, Linked
    <3>2. y \in Entries(w, i) => y \in Entries(v, i)
      BY <1>2, <1>3, <1>6, EntriesMean
    <3> QED BY <2>1, <2>2, <2>3, <3>1, <3>2
  <2>4. CASE c # i /\ c \in v.imap
    <3>1. y \in Entries(w, c) <=> y \in Entries(v, c)
      BY <1>3, <1>6, <2>4, EntriesMean
    <3> QED BY <2>1, <2>2, <3>1
  <2> QED BY <2>1, <2>2, <2>3, <2>4
<1>9. Kept(v, w)
  BY <1>2, <1>3, <1>5 DEF Kept
<1>10. Sound(w)
  BY <1>7, <1>8, <1>9, SoundSame
<1> QED BY <1>10 DEF w

NewDirInode(b) == [kind |-> Dir, links |-> 2, size |-> 1, blk |-> {<<0, b>>}]

(* The inode of a new directory: two links, one block.                     *)
LEMMA NewDirInodeIs ==
  ASSUME NEW b \in Blk
  PROVE  /\ NewDirInode(b) \in Inode /\ NewDirInode(b).kind = Dir
         /\ NewDirInode(b).links = 2 /\ Blocks(NewDirInode(b)) = {b}
<1> DEFINE e == <<0, b>>
<1>1. e \in Nat \X Blk /\ e[2] = b
  OBVIOUS
<1>2. NewDirInode(b) = [kind |-> Dir, links |-> 2, size |-> 1, blk |-> {e}]
  BY DEF NewDirInode
<1> HIDE DEF e
<1>3. {e} \in IBlk
  BY <1>1, FS_Singleton DEF IBlk
<1> DEFINE bs == {e}
<1>4. NewDirInode(b) = [kind |-> Dir, links |-> 2, size |-> 1, blk |-> bs]
  BY <1>2
<1>5. bs \in IBlk /\ Dir \in Kind
  BY <1>3, KindsDiffer
<1>6. \A z : z \in bs <=> z = e
  OBVIOUS
<1> HIDE DEF bs
<1>7. /\ NewDirInode(b) \in Inode /\ NewDirInode(b).kind = Dir
      /\ NewDirInode(b).links = 2 /\ NewDirInode(b).blk = bs
  BY <1>4, <1>5 DEF Inode
<1>8. Blocks(NewDirInode(b)) = {b}
  BY <1>1, <1>6, <1>7 DEF Blocks
<1> QED BY <1>7, <1>8

MkdirIn(t, d, n, i, b) ==
  [AddName(t, d, n, i) EXCEPT
     !.ino[i] = NewDirInode(b), !.ino[d].links = @ + 1, !.imap = @ \cup {i}, !.bmap = @ \cup {b},
     !.ent[b] = {}, !.up[i] = d]

(* The name of a new directory is added, and its inode and block are taken. *)
LEMMA MkdirIs ==
  ASSUME NEW t, Sound(t), NEW d \in DirsOf(t), Roomy(t, d) # {}, NEW n \in Name,
         \A j : ~Holds(t, d, n, j), NEW i \in Ino, i \notin t.imap, NEW b \in Blk, b \notin t.bmap
  PROVE  Sound(MkdirIn(t, d, n, i, b))
<1> DEFINE u == AddName(t, d, n, i)
           x == NewDirInode(b)
           o == [u.ino[d] EXCEPT !.links = u.ino[d].links + 1]
           w == MkdirIn(t, d, n, i, b)
<1>1. Disk(t) /\ Disk(u) /\ SameInodes(t, u) /\ Gains(t, u, d, n, i)
  BY AddNameIs DEF Sound
<1>2. /\ u \in Vol /\ u.imap = t.imap /\ u.imap \subseteq Ino /\ u.bmap = t.bmap
      /\ d \in u.imap /\ d \in Ino /\ d # i /\ u.ino[d] \in Inode /\ u.ino = t.ino /\ u.up = t.up
  <2>1. u \in Vol /\ u.imap \subseteq Ino
    BY <1>1, VolFields DEF Disk
  <2>2. u.imap = t.imap /\ u.bmap = t.bmap /\ u.ino = t.ino /\ u.up = t.up
    BY <1>1 DEF SameInodes
  <2>3. d \in t.imap
    BY DEF DirsOf
  <2> QED BY <2>1, <2>2, <2>3, VolFields
<1>3. x \in Inode /\ x.kind = Dir /\ x.links = 2 /\ Blocks(x) = {b}
  BY NewDirInodeIs
<1>4. w = [u EXCEPT !.ino[i] = x, !.ino[d].links = @ + 1, !.imap = @ \cup {i},
                    !.bmap = @ \cup {b}, !.ent[b] = {}, !.up[i] = d]
  BY DEF MkdirIn
<1> HIDE DEF u, x, w
<1>5. /\ w.ino = [[u.ino EXCEPT ![i] = x] EXCEPT ![d] = o]
      /\ w.imap = u.imap \cup {i} /\ w.bmap = u.bmap \cup {b} /\ w.ent = [u.ent EXCEPT ![b] = {}]
      /\ w.up = [u.up EXCEPT ![i] = d]
      /\ w = [ino |-> w.ino, ent |-> w.ent, up |-> w.up, imap |-> w.imap, bmap |-> w.bmap]
  BY <1>2, <1>4 DEF Vol
<1>6. o \in Inode /\ o.kind = u.ino[d].kind /\ o.links = u.ino[d].links + 1 /\ o.blk = u.ino[d].blk
  BY <1>2 DEF Inode
<1> HIDE DEF o
<1>7. w \in Vol
  BY <1>2, <1>3, <1>5, <1>6, VolFields DEF Vol
<1>8. /\ w.ino[i] = x /\ w.ino[d] = o
      /\ \A j \in Ino : j # i /\ j # d => w.ino[j] = u.ino[j]
  BY <1>2, <1>5, VolFields
<1>9. Of(w, i) = {b} /\ \A j \in u.imap : Of(w, j) = Of(u, j)
  BY <1>2, <1>3, <1>6, <1>8 DEF Of, Blocks
<1>10. \A j \in u.imap : b \notin Of(u, j)
  BY <1>1, <1>2 DEF Disk
<1>11. Disk(w)
  <2>1. \A c \in Blk : c \in w.bmap <=> \E j \in w.imap : c \in Of(w, j)
    BY <1>1, <1>5, <1>9 DEF Disk
  <2>2. ASSUME NEW j \in w.imap, NEW k \in w.imap, j # k PROVE Of(w, j) \cap Of(w, k) = {}
    <3>1. CASE j = i \/ k = i
      BY <1>5, <1>9, <1>10, <2>2, <3>1
    <3>2. CASE j # i /\ k # i
      BY <1>1, <1>5, <1>9, <2>2, <3>2 DEF Disk
    <3> QED BY <3>1, <3>2
  <2> QED BY <1>7, <2>1, <2>2 DEF Disk
<1>12. w.ent[b] = {} /\ \A c \in Blk : c # b => w.ent[c] = u.ent[c]
  BY <1>2, <1>5, VolFields
<1>13. \A y : y \notin Entries(w, i)
  BY <1>9, <1>12, EntriesMean
<1>14. ASSUME NEW c \in u.imap, NEW y PROVE y \in Entries(w, c) <=> y \in Entries(u, c)
  <2>1. \A a \in Of(u, c) : a \in Blk /\ a # b
    BY <1>2, <1>10, VolFields, InodeFields DEF Of
  <2>2. \A a \in Of(u, c) : w.ent[a] = u.ent[a]
    BY <1>12, <2>1
  <2> QED BY <1>9, <2>2, EntriesMean
<1>15. Gains(t, w, d, n, i)
  <2> SUFFICES ASSUME NEW c, NEW k, NEW j PROVE Holds(w, c, k, j) <=> Holds(u, c, k, j)
    BY <1>1 DEF Gains
  <2> DEFINE y == <<k, j>>
  <2>1. Holds(w, c, k, j) <=> c \in w.imap /\ y \in Entries(w, c)
    BY DEF Holds
  <2>2. Holds(u, c, k, j) <=> c \in u.imap /\ y \in Entries(u, c)
    BY DEF Holds
  <2> HIDE DEF y
  <2> QED BY <1>2, <1>5, <1>13, <1>14, <2>1, <2>2
<1>16. DirsOf(w) = DirsOf(t) \cup {i}
  <2>1. \A j \in t.imap : w.ino[j].kind = t.ino[j].kind
    BY <1>2, <1>6, <1>8
  <2>2. w.ino[i].kind = Dir
    BY <1>3, <1>8
  <2> QED BY <1>2, <1>5, <2>1, <2>2 DEF DirsOf
<1>17. w.up[i] = d /\ \A j \in t.imap : w.up[j] = t.up[j]
  BY <1>2, <1>5, VolFields
<1>18. \A j \in t.imap : w.ino[j].links = t.ino[j].links + IF j = d THEN 1 ELSE 0
  <2>1. \A j \in t.imap : t.ino[j].links \in Nat
    BY <1>2, VolFields, InodeFields
  <2> QED BY <1>2, <1>6, <1>8, <2>1
<1>19. w.imap = t.imap \cup {i} /\ w.ino[i].links = 2
  BY <1>2, <1>3, <1>5, <1>8
<1>20. Sound(w)
  BY <1>11, <1>15, <1>16, <1>17, <1>18, <1>19, NewDir
<1> QED BY <1>20 DEF w

(* Writing back an inode that did not change changes nothing.              *)
LEMMA WriteSame ==
  ASSUME NEW v \in Vol, NEW i \in Ino, NEW x, x = v.ino[i], x.links >= 1
  PROVE  WriteInode(v, i, x) = v
<1>1. x \in Inode /\ x.links \in Nat
  BY VolFields, InodeFields
<1>2. WriteInode(v, i, x) = [v EXCEPT !.ino[i] = x]
  BY <1>1 DEF WriteInode
<1>3. [v.ino EXCEPT ![i] = x] = v.ino
  BY VolFields
<1> QED BY <1>2, <1>3 DEF Vol

(* The links of a directory.                                               *)
LEMMA DirLinks ==
  ASSUME NEW v, Sound(v), NEW d \in DirsOf(v)
  PROVE  v.ino[d].links \in Nat /\ v.ino[d].links >= 2
<1>1. v \in Vol /\ d \in v.imap
  BY DEF Sound, Disk, DirsOf
<1>2. v.ino[d].links = 2 + Cardinality(DirsIn(v, d))
  BY <1>1 DEF Sound, Counted, LinksOf
<1> QED BY <1>1, <1>2, DirsInFinite

(* op_unlink takes the name away, and the file with the last one.          *)
LEMMA UnlinkIs ==
  ASSUME NEW v, Sound(v), NEW d \in DirsOf(v), NEW n, NEW i, Holds(v, d, n, i),
         i \notin DirsOf(v)
  PROVE  /\ Sound(UnlinkIn(v, d, n, i)) /\ Loses(v, UnlinkIn(v, d, n, i), d, n)
         /\ DirsOf(UnlinkIn(v, d, n, i)) = DirsOf(v)
<1> DEFINE u == DropName(v, d, n)
           o == v.ino[i]
           k == IF o.links > 0 THEN o.links - 1 ELSE o.links
           x == [o EXCEPT !.links = k]
           w == UnlinkIn(v, d, n, i)
<1>1. /\ v \in Vol /\ Disk(v) /\ v.imap \subseteq Ino /\ i \in v.imap /\ i \in Ino
      /\ d \in v.imap /\ d \in Ino /\ d # i
  <2>1. v \in Vol /\ Disk(v) /\ v.imap \subseteq Ino /\ i \in v.imap
    BY VolFields DEF Sound, Disk, Linked
  <2>2. d \in v.imap /\ d # i
    BY DEF DirsOf
  <2> QED BY <2>1, <2>2
<1>2. Disk(u) /\ SameInodes(v, u) /\ Loses(v, u, d, n)
  BY <1>1, DropNameIs
<1>3. u \in Vol /\ u.ino = v.ino /\ u.imap = v.imap /\ u.up = v.up /\ DirsOf(u) = DirsOf(v)
  <2>1. u \in Vol
    BY <1>2 DEF Disk
  <2>2. DirsOf(u) = DirsOf(v)
    BY <1>1, <1>2, <2>1, DiskStays
  <2> QED BY <1>2, <2>1, <2>2 DEF SameInodes
<1>4. w = WriteInode(u, i, x)
  <2>1. w = WriteInode(WriteInode(u, d, v.ino[d]), i,
                       [o EXCEPT !.links = IF @ > 0 THEN @ - 1 ELSE @])
    BY DEF UnlinkIn
  <2>2. [o EXCEPT !.links = IF @ > 0 THEN @ - 1 ELSE @] = x
    OBVIOUS
  <2> HIDE DEF u, x, w, o
  <2>3. WriteInode(u, d, v.ino[d]) = u
    BY <1>1, <1>3, DirLinks, WriteSame
  <2> QED BY <2>1, <2>2, <2>3
<1>5. o \in Inode /\ o.links \in Nat
  BY <1>1, VolFields, InodeFields
<1>6. k \in Nat /\ (o.links > 1 => k = o.links - 1 /\ k >= 1) /\ (o.links <= 1 => k = 0)
  BY <1>5
<1>7. \A c, m, j : Holds(v, c, m, j) => c # i
  BY DEF Sound, Linked
<1>8. CASE o.links > 1
  <2>1. x = [u.ino[i] EXCEPT !.links = k] /\ k \in Nat \ {0}
    BY <1>3, <1>6, <1>8
  <2> HIDE DEF u, x, w, k, o
  <2>2. /\ Disk(w) /\ SameNames(u, w) /\ Relinked(u, w, i, k) /\ DirsOf(w) = DirsOf(u)
    BY <1>1, <1>2, <1>3, <1>4, <2>1, RelinkIs
  <2>3. w.imap = v.imap /\ w.up = v.up /\ DirsOf(w) = DirsOf(v)
    BY <1>3, <2>2 DEF Relinked
  <2>4. w.ino[i].links = v.ino[i].links - 1
    BY <1>1, <1>6, <1>8, <2>2 DEF Relinked, o
  <2>5. \A j \in v.imap : j # i => w.ino[j].links = v.ino[j].links
    BY <1>1, <1>3, <2>2 DEF Relinked
  <2>6. Loses(v, w, d, n)
    BY <1>2, <2>2 DEF Loses, SameNames
  <2>8. v.ino[i].links > 1
    BY <1>8 DEF o
  <2>7. Sound(w)
    BY <1>1, <2>2, <2>3, <2>4, <2>5, <2>6, <2>8, DropFile
  <2> QED BY <2>3, <2>6, <2>7 DEF w
<1>9. CASE o.links <= 1
  <2>0. x.links = 0 /\ Blocks(x) = Of(u, i)
    BY <1>3, <1>5, <1>6, <1>9 DEF Inode, Blocks, Of
  <2> HIDE DEF u, x, w, k, o
  <2>1. w = Kill(u, i, x)
    BY <1>4, <2>0 DEF WriteInode
  <2>2. Disk(w) /\ Killed(u, w, i)
    BY <1>1, <1>2, <1>3, <2>0, <2>1, KillIs
  <2>3. w.imap = v.imap \ {i} /\ w.up = v.up
    BY <1>3, <2>2 DEF Killed
  <2>4. \A j \in Ino : j # i => w.ino[j] = v.ino[j]
    BY <1>3, <2>2 DEF Killed
  <2>5. DirsOf(w) = DirsOf(v)
    BY <1>1, <2>3, <2>4 DEF DirsOf
  <2>6. Loses(v, w, d, n)
    BY <1>2, <1>7, <2>2 DEF Loses, Killed
  <2>8. v.ino[i].links <= 1
    BY <1>9 DEF o
  <2>9. \A j \in v.imap : j # i => w.ino[j].links = v.ino[j].links
    BY <1>1, <2>4
  <2>7. Sound(w)
    BY <1>1, <2>2, <2>3, <2>5, <2>6, <2>8, <2>9, DropFile
  <2> QED BY <2>5, <2>6, <2>7 DEF w
<1> QED BY <1>5, <1>8, <1>9

(* op_rmdir takes an empty directory away with its name.                   *)
LEMMA RmdirIs ==
  ASSUME NEW v, Sound(v), NEW d \in DirsOf(v), NEW n, NEW i \in DirsOf(v), Holds(v, d, n, i),
         Entries(v, i) = {}
  PROVE  /\ Sound(RmdirIn(v, d, n, i)) /\ Loses(v, RmdirIn(v, d, n, i), d, n)
         /\ DirsOf(RmdirIn(v, d, n, i)) = DirsOf(v) \ {i}
<1> DEFINE u == DropName(v, d, n)
           t == Kill(u, i, v.ino[i])
           k == t.ino[d].links - 1
           x == [t.ino[d] EXCEPT !.links = k]
           w == RmdirIn(v, d, n, i)
<1>1. /\ v \in Vol /\ Disk(v) /\ v.imap \subseteq Ino /\ i \in v.imap /\ i \in Ino
      /\ d \in v.imap /\ d \in Ino
  <2>1. v \in Vol /\ Disk(v) /\ v.imap \subseteq Ino
    BY VolFields DEF Sound, Disk
  <2>2. d \in v.imap /\ i \in v.imap
    BY DEF DirsOf
  <2> QED BY <2>1, <2>2
<1>2. \A m, j : ~Holds(v, i, m, j)
  BY DEF Holds
<1>3. d # i
  BY <1>2
<1>4. Disk(u) /\ SameInodes(v, u) /\ Loses(v, u, d, n)
  BY <1>1, DropNameIs
<1>5. u \in Vol /\ u.ino = v.ino /\ u.imap = v.imap /\ u.up = v.up /\ DirsOf(u) = DirsOf(v)
  <2>1. u \in Vol
    BY <1>4 DEF Disk
  <2>2. DirsOf(u) = DirsOf(v)
    BY <1>1, <1>4, <2>1, DiskStays
  <2> QED BY <1>4, <2>1, <2>2 DEF SameInodes
<1>6. Blocks(v.ino[i]) = Of(u, i)
  BY <1>5 DEF Of
<1>7. w = WriteInode(t, d, [t.ino[d] EXCEPT !.links = IF @ > 1 THEN @ - 1 ELSE @])
  BY DEF RmdirIn
<1> HIDE DEF u, w
<1>8. Disk(t) /\ Killed(u, t, i)
  BY <1>1, <1>4, <1>5, <1>6, KillIs
<1> HIDE DEF t
<1>9. t.ino[d] = v.ino[d] /\ t.imap = v.imap \ {i} /\ t.up = v.up
  BY <1>1, <1>3, <1>5, <1>8 DEF Killed
<1>10. v.ino[d].links \in Nat /\ v.ino[d].links >= 2
  BY DirLinks
<1>11. w = WriteInode(t, d, x) /\ k \in Nat \ {0} /\ d \in t.imap
  BY <1>1, <1>3, <1>7, <1>9, <1>10
<1>15. x = [t.ino[d] EXCEPT !.links = k]
  OBVIOUS
<1>16. k = v.ino[d].links - 1
  BY <1>9
<1> HIDE DEF x, k
<1>12. Disk(w) /\ SameNames(t, w) /\ Relinked(t, w, d, k) /\ DirsOf(w) = DirsOf(t)
  BY <1>8, <1>11, <1>15, RelinkIs
<1>13. DirsOf(w) = DirsOf(v) \ {i} /\ w.imap = v.imap \ {i} /\ w.up = v.up
  <2>1. DirsOf(t) = DirsOf(v) \ {i}
    BY <1>1, <1>5, <1>8, <1>9 DEF Killed, DirsOf
  <2> QED BY <1>9, <1>12, <2>1 DEF Relinked
<1>14. \A j \in w.imap : w.ino[j].links = v.ino[j].links - IF j = d THEN 1 ELSE 0
  <2> SUFFICES ASSUME NEW j \in w.imap
               PROVE  w.ino[j].links = v.ino[j].links - IF j = d THEN 1 ELSE 0
    OBVIOUS
  <2>1. j \in Ino /\ j # i /\ v.ino[j].links \in Nat
    BY <1>1, <1>13, VolFields, InodeFields
  <2>2. w.ino[j].links = IF j = d THEN k ELSE t.ino[j].links
    BY <1>12, <2>1 DEF Relinked
  <2>3. t.ino[j].links = v.ino[j].links
    BY <1>5, <1>8, <2>1 DEF Killed
  <2> QED BY <1>16, <2>1, <2>2, <2>3
<1>17. Loses(v, w, d, n)
  BY <1>2, <1>4, <1>8, <1>12 DEF Loses, Killed, SameNames
<1>18. Sound(w)
  BY <1>2, <1>12, <1>13, <1>14, <1>17, DropDir
<1> QED BY <1>13, <1>17, <1>18 DEF w

LinkedIn(v, u, d, i) ==
  WriteInode(WriteInode(u, i, [v.ino[i] EXCEPT !.links = @ + 1]), d, v.ino[d])

(* A link in a directory that does not grow.                               *)
LEMMA LinkIs ==
  ASSUME NEW v, Sound(v), NEW d \in DirsOf(v), Roomy(v, d) # {}, NEW n \in Name,
         \A j : ~Holds(v, d, n, j), NEW i \in v.imap, i \notin DirsOf(v),
         NEW u \in LinkIn(v, d, n, i)
  PROVE  Sound(LinkedIn(v, u, d, i))
<1> DEFINE o == v.ino[i]
           k == o.links + 1
           x == [o EXCEPT !.links = k]
           t == WriteInode(u, i, x)
           w == LinkedIn(v, u, d, i)
<1>1. /\ v \in Vol /\ Disk(v) /\ v.imap \subseteq Ino
      /\ i \in Ino /\ d \in v.imap /\ d \in Ino /\ d # i
  <2>1. v \in Vol /\ Disk(v) /\ v.imap \subseteq Ino
    BY VolFields DEF Sound, Disk
  <2>2. d \in v.imap /\ d # i
    BY DEF DirsOf
  <2> QED BY <2>1, <2>2
<1>2. Disk(u) /\ SameInodes(v, u) /\ DirsOf(u) = DirsOf(v) /\ Gains(v, u, d, n, i)
  BY <1>1, LinkInIs
<1>3. u \in Vol /\ u.ino = v.ino /\ u.imap = v.imap /\ u.up = v.up
  BY <1>2 DEF SameInodes, Disk
<1>4. o \in Inode /\ o.links \in Nat /\ k \in Nat \ {0} /\ x.links = k
  <2>1. o \in Inode /\ o.links \in Nat
    BY <1>1, VolFields, InodeFields
  <2> QED BY <2>1 DEF Inode
<1>5. w = WriteInode(t, d, v.ino[d])
  BY DEF LinkedIn
<1>6. x = [u.ino[i] EXCEPT !.links = k] /\ k = v.ino[i].links + 1
  BY <1>3
<1> HIDE DEF w, x, k, o
<1>7. /\ Disk(t) /\ SameNames(u, t) /\ Relinked(u, t, i, k) /\ DirsOf(t) = DirsOf(u)
  BY <1>1, <1>2, <1>3, <1>4, <1>6, RelinkIs
<1>8. t.ino[d] = v.ino[d] /\ t \in Vol
  <2>1. t = [u EXCEPT !.ino[i] = x]
    BY <1>4 DEF WriteInode
  <2>2. t \in Vol
    BY <1>7 DEF Disk
  <2> HIDE DEF t
  <2>3. t.ino = [u.ino EXCEPT ![i] = x]
    BY <1>3, <2>1 DEF Vol
  <2> QED BY <1>1, <1>3, <2>2, <2>3, VolFields
<1> HIDE DEF t
<1>9. w = t
  <2>1. v.ino[d].links >= 1
    BY DirLinks
  <2> QED BY <1>1, <1>5, <1>8, <2>1, WriteSame
<1>10. \A j \in v.imap : w.ino[j].links = v.ino[j].links + IF j = i THEN 1 ELSE 0
  <2> SUFFICES ASSUME NEW j \in v.imap
               PROVE  w.ino[j].links = v.ino[j].links + IF j = i THEN 1 ELSE 0
    OBVIOUS
  <2>1. j \in Ino /\ v.ino[j].links \in Nat
    BY <1>1, VolFields, InodeFields
  <2> QED BY <1>3, <1>6, <1>7, <1>9, <2>1 DEF Relinked
<1>11. w.imap = v.imap /\ w.up = v.up /\ DirsOf(w) = DirsOf(v)
  BY <1>2, <1>3, <1>7, <1>9 DEF Relinked
<1>12. Gains(v, w, d, n, i)
  BY <1>2, <1>7, <1>9 DEF Gains, SameNames
<1>13. Sound(w)
  BY <1>7, <1>9, <1>10, <1>11, <1>12, NewLink
<1> QED BY <1>13 DEF w

(* A path has one directory that its last name is in.                      *)
LEMMA OneParent ==
  ASSUME NEW v, Sound(v), NEW p \in Path, NEW d \in Parents(v, p), NEW e \in Parents(v, p)
  PROVE  d = e
<1>1. CASE Len(p) = 1
  BY <1>1, ParentsMean
<1>2. CASE Len(p) = 2
  <2>1. Holds(v, Root, p[1], d) /\ Holds(v, Root, p[1], e)
    BY <1>2, ParentsMean
  <2> QED BY <2>1 DEF Sound, Linked
<1> QED BY <1>1, <1>2, PathMeans

(* What stands at the new name goes first.                                 *)
ReadyToMove(r, i, d, n, e, m) ==
  Sound(r) /\ Holds(r, d, n, i) /\ e \in DirsOf(r) /\ \A j : ~Holds(r, e, m, j)

(* Rename is ready when what stood at the new name has gone: the old name  *)
(* and the new directory are still there.                                  *)
LEMMA ReplacedIs ==
  ASSUME NEW v, Sound(v), NEW s \in Path, NEW p \in Path, NEW d \in Parents(v, s),
         NEW i \in Namei(v, s), NEW e \in Parents(v, p),
         \A j \in Namei(v, p) : i # j /\ Replaces(v, i, j)
  PROVE  /\ ReadyToMove(Replaced(v, p), i, d, Split(s).name, e, Split(p).name)
         /\ Loses(v, Replaced(v, p), e, Split(p).name)
<1> DEFINE n == Split(s).name
           m == Split(p).name
           r == Replaced(v, p)
<1>1. /\ e \in DirsOf(v) /\ Holds(v, d, n, i) /\ (\A j : j \in Namei(v, p) <=> Holds(v, e, m, j))
  BY ParentsMean
<1>2. Linked(v)
  BY DEF Sound
<1>3. CASE Namei(v, p) = {}
  <2>1. r = v
    BY <1>3 DEF Replaced
  <2> HIDE DEF n, m, r
  <2>2. ReadyToMove(r, i, d, n, e, m) /\ Loses(v, r, e, m)
    BY <1>1, <1>3, <2>1 DEF ReadyToMove, Loses
  <2> QED BY <2>2 DEF n, m, r
<1>4. CASE Namei(v, p) # {}
  <2> DEFINE c == CHOOSE x \in Parents(v, p) : TRUE
             j == CHOOSE x \in Namei(v, p) : TRUE
  <2>1. c \in Parents(v, p) /\ j \in Namei(v, p)
    BY <1>4
  <2>2. r = IF v.ino[j].kind = Dir THEN RmdirIn(v, c, m, j) ELSE UnlinkIn(v, c, m, j)
    BY <1>4 DEF Replaced, Dir
  <2> HIDE DEF c, j, n, m, r
  <2>3. c = e
    BY <2>1, OneParent
  <2>4. Holds(v, e, m, j) /\ i # j /\ Replaces(v, i, j) /\ j \in v.imap
    <3>1. j \in v.imap
      BY <2>1, NameiMeans
    <3> QED BY <1>1, <2>1, <3>1
  <2>5. ~(d = e /\ n = m)
    BY <1>1, <1>2, <2>4 DEF Linked
  <2>6. Sound(r) /\ Loses(v, r, e, m) /\ e \in DirsOf(r)
    <3>1. CASE v.ino[j].kind = Dir
      <4>1. j \in DirsOf(v) /\ Entries(v, j) = {}
        BY <2>4, <3>1 DEF Replaces, IsEmptyDir, DirsOf, Dir
      <4>2. e # j
        BY <2>4, <4>1 DEF Holds
      <4>3. r = RmdirIn(v, e, m, j)
        BY <2>2, <2>3, <3>1
      <4>4. Sound(r) /\ Loses(v, r, e, m) /\ DirsOf(r) = DirsOf(v) \ {j}
        BY <1>1, <2>4, <4>1, <4>3, RmdirIs
      <4> QED BY <1>1, <4>2, <4>4
    <3>2. CASE v.ino[j].kind # Dir
      <4>1. j \notin DirsOf(v)
        BY <3>2 DEF DirsOf
      <4>2. r = UnlinkIn(v, e, m, j)
        BY <2>2, <2>3, <3>2
      <4>3. Sound(r) /\ Loses(v, r, e, m) /\ DirsOf(r) = DirsOf(v)
        BY <1>1, <2>4, <4>1, <4>2, UnlinkIs
      <4> QED BY <1>1, <4>3
    <3> QED BY <3>1, <3>2
  <2>7. ReadyToMove(r, i, d, n, e, m)
    BY <1>1, <2>5, <2>6 DEF Loses, ReadyToMove
  <2> QED BY <2>6, <2>7 DEF n, m, r
<1> QED BY <1>3, <1>4

SetUp(v, i, e) == [v EXCEPT !.up[i] = e]

(* ".." of one inode is set, and nothing else changes.                     *)
LEMMA SetUpIs ==
  ASSUME NEW v, Disk(v), NEW i \in Ino, NEW e \in Ino
  PROVE  /\ Disk(SetUp(v, i, e)) /\ SameNames(v, SetUp(v, i, e))
         /\ SetUp(v, i, e).imap = v.imap /\ SetUp(v, i, e).ino = v.ino
         /\ DirsOf(SetUp(v, i, e)) = DirsOf(v) /\ SetUp(v, i, e).up[i] = e
         /\ \A j \in Ino : j # i => SetUp(v, i, e).up[j] = v.up[j]
<1> DEFINE w == SetUp(v, i, e)
<1>1. v \in Vol
  BY DEF Disk
<1>2. w = [v EXCEPT !.up[i] = e]
  BY DEF SetUp
<1> HIDE DEF w
<1>3. /\ w.ino = v.ino /\ w.ent = v.ent /\ w.imap = v.imap /\ w.bmap = v.bmap
      /\ w.up = [v.up EXCEPT ![i] = e] /\ w \in Vol
  BY <1>1, <1>2 DEF Vol
<1>4. Disk(w) /\ DirsOf(w) = DirsOf(v)
  BY <1>3 DEF Disk, DirsOf, Of
<1>5. SameNames(v, w)
  BY <1>3 DEF SameNames, Holds, Entries
<1>6. w.up[i] = e /\ \A j \in Ino : j # i => w.up[j] = v.up[j]
  BY <1>1, <1>3, VolFields
<1> QED BY <1>3, <1>4, <1>5, <1>6 DEF w

(* The links and ".." of a directory that changes parents.                 *)
IsMoved(r, y, i, d, e) ==
  /\ y.imap = r.imap /\ DirsOf(y) = DirsOf(r)
  /\ i \in DirsOf(r) => y.up[i] = e
  /\ \A j \in r.imap : j # i => y.up[j] = r.up[j]
  /\ \A j \in r.imap : y.ino[j].links = r.ino[j].links + Shift(r, i, d, e, j)

(* The links of both directories change when ".." does, of a directory.    *)
LEMMA MovedIs ==
  ASSUME NEW r, Sound(r), NEW x, Disk(x), Kept(r, x), DirsOf(x) = DirsOf(r),
         NEW i \in r.imap, NEW d \in DirsOf(r), NEW e \in DirsOf(r),
         i \in DirsOf(r) => r.up[i] = d
  PROVE  /\ Disk(Moved(x, i, d, e)) /\ SameNames(x, Moved(x, i, d, e))
         /\ IsMoved(r, Moved(x, i, d, e), i, d, e)
<1> DEFINE y == Moved(x, i, d, e)
<1>1. /\ r \in Vol /\ r.imap \subseteq Ino /\ x \in Vol /\ x.imap = r.imap /\ x.up = r.up
      /\ d \in Ino /\ e \in Ino /\ i \in Ino /\ d \in x.imap /\ e \in x.imap
      /\ \A j \in Ino : x.ino[j].links = r.ino[j].links
  <2>1. r \in Vol /\ r.imap \subseteq Ino /\ x \in Vol
    BY VolFields DEF Sound, Disk
  <2>2. d \in r.imap /\ e \in r.imap
    BY DEF DirsOf
  <2> QED BY <2>1, <2>2 DEF Kept
<1>2. \A j \in r.imap : r.ino[j].links \in Nat
  BY <1>1, VolFields, InodeFields
<1>3. x.ino[i].kind = Dir <=> i \in DirsOf(r)
  BY <1>1 DEF DirsOf
<1>4. CASE x.ino[i].kind = Dir /\ d # e
  <2> DEFINE k == x.ino[d].links - 1
             l == x.ino[e].links + 1
             a == [x.ino[d] EXCEPT !.links = k]
             b == [x.ino[e] EXCEPT !.links = l]
             t == WriteInode(x, d, a)
             u == WriteInode(t, e, b)
  <2>1. x.ino[d].links \in Nat /\ x.ino[d].links >= 2 /\ x.ino[e].links \in Nat
    <3>1. r.ino[d].links \in Nat /\ r.ino[d].links >= 2
      BY DirLinks
    <3>2. r.ino[e].links \in Nat
      BY DirLinks
    <3> QED BY <1>1, <3>1, <3>2
  <2>2. y = [WriteInode(WriteInode(x, d, [x.ino[d] EXCEPT !.links = IF @ > 1 THEN @ - 1 ELSE @]),
                        e, [x.ino[e] EXCEPT !.links = @ + 1]) EXCEPT !.up[i] = e]
    BY <1>4 DEF Moved, Dir
  <2>3. /\ [x.ino[d] EXCEPT !.links = IF @ > 1 THEN @ - 1 ELSE @] = a
        /\ [x.ino[e] EXCEPT !.links = @ + 1] = b
    BY <2>1
  <2>4. y = SetUp(u, i, e)
    BY <2>2, <2>3 DEF SetUp
  <2>5. k \in Nat \ {0} /\ l \in Nat \ {0}
    BY <2>1
  <2>6. k = r.ino[d].links - 1 /\ l = r.ino[e].links + 1
    BY <1>1
  <2>7. a = [x.ino[d] EXCEPT !.links = k] /\ b = [x.ino[e] EXCEPT !.links = l]
    OBVIOUS
  <2>8. x.ino[d] \in Inode
    BY <1>1, VolFields
  <2> HIDE DEF y, k, l, a, b
  <2>9. a.links = k
    BY <2>7, <2>8 DEF Inode
  <2>10. Disk(t) /\ SameNames(x, t) /\ Relinked(x, t, d, k) /\ DirsOf(t) = DirsOf(x)
    BY <1>1, <2>5, <2>7, RelinkIs
  <2>11. t.ino[e] = x.ino[e]
    <3>1. t = [x EXCEPT !.ino[d] = a]
      BY <2>5, <2>9 DEF WriteInode
    <3> HIDE DEF t
    <3>2. t.ino = [x.ino EXCEPT ![d] = a]
      BY <1>1, <3>1 DEF Vol
    <3> QED BY <1>1, <1>4, <3>2, VolFields
  <2> HIDE DEF t
  <2>12. Disk(u) /\ SameNames(t, u) /\ Relinked(t, u, e, l) /\ DirsOf(u) = DirsOf(t)
    <3>1. e \in t.imap
      BY <1>1, <2>10 DEF Relinked
    <3>2. b = [t.ino[e] EXCEPT !.links = l]
      BY <2>7, <2>11
    <3> QED BY <2>5, <2>10, <3>1, <3>2, RelinkIs
  <2> HIDE DEF u
  <2>13. /\ Disk(y) /\ SameNames(u, y) /\ y.imap = u.imap /\ y.ino = u.ino
         /\ DirsOf(y) = DirsOf(u) /\ y.up[i] = e
         /\ \A j \in Ino : j # i => y.up[j] = u.up[j]
    <3>1. y = SetUp(u, i, e) /\ Disk(u) /\ i \in Ino /\ e \in Ino
      BY <1>1, <2>4, <2>12
    <3>2. /\ Disk(SetUp(u, i, e)) /\ SameNames(u, SetUp(u, i, e))
          /\ SetUp(u, i, e).imap = u.imap /\ SetUp(u, i, e).ino = u.ino
          /\ DirsOf(SetUp(u, i, e)) = DirsOf(u) /\ SetUp(u, i, e).up[i] = e
          /\ \A j \in Ino : j # i => SetUp(u, i, e).up[j] = u.up[j]
      BY <3>1, SetUpIs
    <3> QED BY <3>1, <3>2
  <2>14. y.imap = r.imap /\ DirsOf(y) = DirsOf(r) /\ u.up = r.up
    BY <1>1, <2>10, <2>12, <2>13 DEF Relinked
  <2>15. \A j \in r.imap : j # i => y.up[j] = r.up[j]
    BY <1>1, <2>13, <2>14
  <2>16. ASSUME NEW j \in r.imap PROVE y.ino[j].links = r.ino[j].links + Shift(r, i, d, e, j)
    <3>1. Shift(r, i, d, e, j) = IF j = e THEN 1 ELSE IF j = d THEN -1 ELSE 0
      BY <1>3, <1>4 DEF Shift
    <3>2. j \in Ino
      BY <1>1
    <3>3. y.ino[j].links = IF j = e THEN l ELSE t.ino[j].links
      BY <2>12, <2>13, <3>2 DEF Relinked
    <3>4. t.ino[j].links = IF j = d THEN k ELSE x.ino[j].links
      BY <2>10, <3>2 DEF Relinked
    <3>5. x.ino[j].links = r.ino[j].links /\ r.ino[j].links \in Nat
      BY <1>1, <1>2, <3>2
    <3> QED BY <1>4, <2>6, <3>1, <3>3, <3>4, <3>5
  <2>17. SameNames(x, y)
    BY <2>10, <2>12, <2>13 DEF SameNames
  <2>18. IsMoved(r, y, i, d, e)
    BY <2>13, <2>14, <2>15, <2>16 DEF IsMoved
  <2> QED BY <2>13, <2>17, <2>18 DEF y
<1>5. CASE ~(x.ino[i].kind = Dir /\ d # e)
  <2>1. y = x
    BY <1>5 DEF Moved, Dir
  <2>2. \A j : Shift(r, i, d, e, j) = 0
    BY <1>3, <1>5 DEF Shift
  <2>3. i \in DirsOf(r) => d = e
    BY <1>3, <1>5
  <2> HIDE DEF y
  <2>4. SameNames(x, y)
    BY <2>1 DEF SameNames
  <2>5. IsMoved(r, y, i, d, e)
    BY <1>1, <1>2, <2>1, <2>2, <2>3 DEF IsMoved
  <2> QED BY <2>1, <2>4, <2>5 DEF y
<1> QED BY <1>4, <1>5

(* A rename moves the name, or there is no room and nothing changes.       *)
LEMMA MoveIs ==
  ASSUME NEW r, NEW i, NEW d, NEW n, NEW e, NEW m \in Name, ReadyToMove(r, i, d, n, e, m)
  PROVE  /\ Sound(Move(r, i, d, n, e, m))
         /\ \/ Move(r, i, d, n, e, m) = r
            \/ Moves(r, Move(r, i, d, n, e, m), i, d, n, e, m)
<1> DEFINE w == Move(r, i, d, n, e, m)
<1>1. /\ Sound(r) /\ Disk(r) /\ Linked(r) /\ Holds(r, d, n, i) /\ e \in DirsOf(r)
      /\ \A j : ~Holds(r, e, m, j)
  BY DEF ReadyToMove, Sound
<1>2. /\ d \in DirsOf(r) /\ i \in r.imap /\ i \in Ino /\ (i \in DirsOf(r) => r.up[i] = d)
      /\ ~(d = e /\ n = m)
  <2>1. r.imap \subseteq Ino
    BY <1>1, VolFields DEF Disk
  <2> QED BY <1>1, <2>1 DEF Linked
<1>3. CASE MakeRoom(r, e) = {}
  BY <1>1, <1>3 DEF Move
<1>4. CASE MakeRoom(r, e) # {}
  <2> DEFINE x == CHOOSE z \in LinkIn(r, e, m, i) : TRUE
             y == Moved(x, i, d, e)
  <2>1. x \in LinkIn(r, e, m, i)
    <3>1. LinkIn(r, e, m, i) # {}
      BY <1>4 DEF LinkIn
    <3> QED BY <3>1
  <2>2. w = DropName(y, d, n)
    BY <1>4 DEF Move
  <2> HIDE DEF x, w
  <2>3. Disk(x) /\ Kept(r, x) /\ DirsOf(x) = DirsOf(r) /\ Gains(r, x, e, m, i)
    BY <1>1, <1>2, <2>1, LinkInIs
  <2>4. Disk(y) /\ SameNames(x, y) /\ IsMoved(r, y, i, d, e)
    BY <1>1, <1>2, <2>3, MovedIs
  <2> HIDE DEF y
  <2>5. Disk(w) /\ SameInodes(y, w) /\ Loses(y, w, d, n)
    <3>1. d \in DirsOf(y)
      BY <1>2, <2>4 DEF IsMoved
    <3> QED BY <2>2, <2>4, <3>1, DropNameIs
  <2>6. IsMoved(r, w, i, d, e)
    BY <2>4, <2>5 DEF IsMoved, SameInodes, DirsOf
  <2>7. Moves(r, w, i, d, n, e, m)
    <3> SUFFICES ASSUME NEW c, NEW k, NEW j
                 PROVE  Holds(w, c, k, j) <=> \/ Holds(r, c, k, j) /\ ~(c = d /\ k = n)
                                              \/ c = e /\ k = m /\ j = i
      BY DEF Moves
    <3>1. Holds(w, c, k, j) <=> Holds(x, c, k, j) /\ ~(c = d /\ k = n)
      BY <2>4, <2>5 DEF Loses, SameNames
    <3>2. Holds(x, c, k, j) <=> Holds(r, c, k, j) \/ (c = e /\ k = m /\ j = i)
      BY <2>3 DEF Gains
    <3> QED BY <1>2, <3>1, <3>2
  <2>8. Sound(w)
    <3>1. /\ w.imap = r.imap /\ DirsOf(w) = DirsOf(r) /\ (i \in DirsOf(r) => w.up[i] = e)
          /\ (\A j \in r.imap : j # i => w.up[j] = r.up[j])
          /\ \A j \in r.imap : w.ino[j].links = r.ino[j].links + Shift(r, i, d, e, j)
      BY <2>6 DEF IsMoved
    <3> QED BY <1>1, <2>5, <2>7, <3>1, MoveName
  <2> QED BY <2>7, <2>8 DEF w
<1> QED BY <1>3, <1>4

(* What had a name has one, but what stood at the new one.                 *)
LEMMA RenameIs ==
  ASSUME NEW v, Sound(v), NEW s \in Path, NEW p \in Path, NEW d \in Parents(v, s),
         NEW i \in Namei(v, s), NEW e \in Parents(v, p),
         \A j \in Namei(v, p) : i # j /\ Replaces(v, i, j),
         NEW w, w = Move(Replaced(v, p), i, d, Split(s).name, e, Split(p).name)
  PROVE  /\ Sound(w)
         /\ \A c, k, j : Holds(v, c, k, j) /\ j \notin Namei(v, p) =>
              \E a, l : Holds(w, a, l, j)
<1> DEFINE n == Split(s).name
           m == Split(p).name
           r == Replaced(v, p)
<1>1. ReadyToMove(r, i, d, n, e, m) /\ Loses(v, r, e, m)
  BY ReplacedIs
<1>2. m \in Name
  BY PathMeans
<1>3. \A j : j \in Namei(v, p) <=> Holds(v, e, m, j)
  BY ParentsMean
<1> HIDE DEF n, m, r
<1>4. w = Move(r, i, d, n, e, m)
  BY DEF n, m, r
<1>5. Sound(w) /\ (w = r \/ Moves(r, w, i, d, n, e, m))
  BY <1>1, <1>2, <1>4, MoveIs
<1>6. ASSUME NEW c, NEW k, NEW j, Holds(v, c, k, j), j \notin Namei(v, p)
      PROVE  \E a, l : Holds(w, a, l, j)
  <2>1. Holds(r, c, k, j)
    BY <1>1, <1>3, <1>6 DEF Loses
  <2>2. CASE w = r
    BY <2>1, <2>2
  <2>3. CASE Moves(r, w, i, d, n, e, m)
    <3>1. c = d /\ k = n => j = i
      BY <1>1, <2>1 DEF ReadyToMove, Sound, Linked
    <3>2. Holds(w, e, m, i)
      BY <2>3 DEF Moves
    <3>3. ~(c = d /\ k = n) => Holds(w, c, k, j)
      BY <2>1, <2>3 DEF Moves
    <3> QED BY <3>1, <3>2, <3>3
  <2> QED BY <1>5, <2>2, <2>3
<1> QED BY <1>5, <1>6

-----------------------------------------------------------------------------
(* The volume is what the variables say.                                   *)
LEMMA VolumeIs ==
  /\ Volume.ino = ino /\ Volume.ent = ent /\ Volume.up = up
  /\ Volume.imap = imap /\ Volume.bmap = bmap
BY DEF Volume

(* A handler leaves the volume it has computed.                            *)
LEMMA BecomesIs ==
  ASSUME NEW v \in Vol, Becomes(v)
  PROVE  Volume' = v
BY DEF Becomes, Volume, Vol

(* What a sound volume is made of.                                         *)
LEMMA SoundIsVol ==
  ASSUME NEW v, Sound(v)
  PROVE  v \in Vol /\ Disk(v) /\ v.imap \subseteq Ino
BY VolFields DEF Sound, Disk

(* What is missing is not in the directory it would be in.                 *)
LEMMA MissingIs ==
  ASSUME Sound(Volume), NEW p \in Path, Missing(p), NEW d \in Parents(Volume, p)
  PROVE  /\ d \in DirsOf(Volume) /\ Split(p).name \in Name
         /\ \A j : ~Holds(Volume, d, Split(p).name, j)
BY ParentsMean, PathMeans DEF Missing

(* What a path leads to is in use, and may be no directory.                *)
LEMMA NotDirIs ==
  ASSUME Sound(Volume), NEW p \in Path, NEW i \in Namei(Volume, p), ino[i].kind # Dir
  PROVE  i \in Volume.imap /\ i \notin DirsOf(Volume)
BY NameiMeans, VolumeIs DEF DirsOf

(* op_create keeps the volume sound.                                       *)
LEMMA CreateIs ==
  ASSUME Sound(Volume), NEW p \in Path, Create(p)
  PROVE  Sound(Volume')
<1>1. PICK d \in Parents(Volume, p) : \E v \in DoCreate(Volume, d, Split(p).name, File) : Becomes(v)
  BY DEF Create, File
<1>2. PICK v \in DoCreate(Volume, d, Split(p).name, File) : Becomes(v)
  BY <1>1
<1>3. Missing(p)
  BY DEF Create
<1>4. Sound(v)
  BY <1>3, MissingIs, KindsDiffer, DoCreateIs
<1> QED BY <1>2, <1>4, SoundIsVol, BecomesIs

(* op_symlink keeps it sound, though it may leave an empty link.           *)
LEMMA SymlinkIs ==
  ASSUME Sound(Volume), NEW p \in Path, NEW long, Symlink(p, long)
  PROVE  Sound(Volume')
<1> DEFINE i == Min(FreeIno(Volume))
           W(v) == IF long THEN DoWrite(v, i, 0) ELSE v
<1>1. Missing(p) /\ \E d \in Parents(Volume, p) :
        \E v \in DoCreate(Volume, d, Split(p).name, SymKind) : Becomes(W(v))
  BY DEF Symlink, SymKind
<1>2. PICK d \in Parents(Volume, p) :
        \E v \in DoCreate(Volume, d, Split(p).name, SymKind) : Becomes(W(v))
  BY <1>1
<1>3. PICK v \in DoCreate(Volume, d, Split(p).name, SymKind) : Becomes(W(v))
  BY <1>2
<1>4. Sound(v) /\ i \in v.imap
  BY <1>1, MissingIs, KindsDiffer, DoCreateIs
<1>5. Sound(W(v))
  <2> HIDE DEF i
  <2>1. Sound(DoWrite(v, i, 0))
    BY <1>4, DoWriteIs
  <2> QED BY <1>4, <2>1
<1> HIDE DEF W
<1> QED BY <1>3, <1>5, SoundIsVol, BecomesIs

(* op_write keeps it sound.                                                *)
LEMMA WriteIs ==
  ASSUME Sound(Volume), NEW p \in Path, NEW k \in Nat, Write(p, k)
  PROVE  Sound(Volume')
<1>1. PICK i \in Namei(Volume, p) : Becomes(DoWrite(Volume, i, k))
  BY DEF Write
<1>2. i \in Volume.imap
  BY NameiMeans
<1>3. Sound(DoWrite(Volume, i, k))
  BY <1>2, DoWriteIs
<1> QED BY <1>1, <1>3, SoundIsVol, BecomesIs

(* op_truncate keeps it sound.                                             *)
LEMMA TruncateSound ==
  ASSUME Sound(Volume), NEW p \in Path, NEW s \in Nat, Truncate(p, s)
  PROVE  Sound(Volume')
<1>1. PICK i \in Namei(Volume, p) : ino[i].kind = File /\ Becomes(TruncateIn(Volume, i, s))
  BY VolumeIs DEF Truncate, TruncateIn, File
<1>2. i \in Volume.imap /\ i \notin DirsOf(Volume)
  BY <1>1, NotDirIs, KindsDiffer
<1>3. Sound(TruncateIn(Volume, i, s))
  BY <1>2, TruncateIs
<1> QED BY <1>1, <1>3, SoundIsVol, BecomesIs

(* op_mkdir keeps it sound, though only the parent may have grown.         *)
LEMMA MkdirSound ==
  ASSUME Sound(Volume), NEW p \in Path, Mkdir(p)
  PROVE  Sound(Volume')
<1> DEFINE n == Split(p).name
           W(v, d) == IF FreeBlk(v) = {} THEN v
                      ELSE MkdirIn(v, d, n, Min(FreeIno(v)), Min(FreeBlk(v)))
<1>1. /\ Missing(p) /\ FreeIno(Volume) # {}
      /\ \E d \in Parents(Volume, p) : \E v \in MakeRoom(Volume, d) : Becomes(W(v, d))
  BY DEF Mkdir, MkdirIn, NewDirInode, Dir
<1>2. PICK d \in Parents(Volume, p) : \E v \in MakeRoom(Volume, d) : Becomes(W(v, d))
  BY <1>1
<1>3. PICK v \in MakeRoom(Volume, d) : Becomes(W(v, d))
  BY <1>2
<1>4. d \in DirsOf(Volume) /\ n \in Name /\ \A j : ~Holds(Volume, d, n, j)
  BY <1>1, MissingIs
<1>5. /\ Disk(v) /\ Kept(Volume, v) /\ SameNames(Volume, v) /\ Roomy(v, d) # {}
      /\ DirsOf(v) = DirsOf(Volume)
  BY <1>4, SoundIsVol, MakeRoomIs
<1>6. Sound(v) /\ v \in Vol
  BY <1>5, SoundSame, SoundIsVol
<1>7. Sound(W(v, d))
  <2>1. CASE FreeBlk(v) = {}
    BY <1>6, <2>1
  <2>2. CASE FreeBlk(v) # {}
    <3> DEFINE i == Min(FreeIno(v))
               b == Min(FreeBlk(v))
    <3>0. FreeIno(v) # {}
      BY <1>1, <1>5 DEF Kept, FreeIno
    <3>1. i \in Ino /\ i \notin v.imap /\ b \in Blk /\ b \notin v.bmap
      BY <1>6, <2>2, <3>0, FreeIsFree
    <3>2. W(v, d) = MkdirIn(v, d, n, i, b)
      BY <2>2
    <3>3. \A j : ~Holds(v, d, n, j)
      BY <1>4, <1>5 DEF SameNames
    <3>4. d \in DirsOf(v)
      BY <1>4, <1>5
    <3> HIDE DEF i, b, n, W
    <3>5. Sound(MkdirIn(v, d, n, i, b))
      BY <1>4, <1>5, <1>6, <3>1, <3>3, <3>4, MkdirIs
    <3> QED BY <3>2, <3>5
  <2> QED BY <2>1, <2>2
<1> HIDE DEF W
<1> QED BY <1>3, <1>7, SoundIsVol, BecomesIs

(* op_unlink keeps it sound.                                               *)
LEMMA UnlinkSound ==
  ASSUME Sound(Volume), NEW p \in Path, Unlink(p)
  PROVE  Sound(Volume')
<1>1. PICK d \in Parents(Volume, p), i \in Namei(Volume, p) :
        ino[i].kind # Dir /\ Becomes(UnlinkIn(Volume, d, Split(p).name, i))
  BY DEF Unlink, Dir
<1>2. i \in Volume.imap /\ i \notin DirsOf(Volume)
  BY <1>1, NotDirIs
<1>3. d \in DirsOf(Volume) /\ Holds(Volume, d, Split(p).name, i)
  BY ParentsMean
<1>4. Sound(UnlinkIn(Volume, d, Split(p).name, i))
  BY <1>2, <1>3, UnlinkIs
<1> QED BY <1>1, <1>4, SoundIsVol, BecomesIs

(* op_rmdir keeps it sound.                                                *)
LEMMA RmdirSound ==
  ASSUME Sound(Volume), NEW p \in Path, Rmdir(p)
  PROVE  Sound(Volume')
<1>1. PICK d \in Parents(Volume, p), i \in Namei(Volume, p) :
        IsEmptyDir(Volume, i) /\ Becomes(RmdirIn(Volume, d, Split(p).name, i))
  BY DEF Rmdir
<1>2. i \in DirsOf(Volume) /\ Entries(Volume, i) = {}
  BY <1>1, NameiMeans DEF IsEmptyDir, DirsOf, Dir
<1>3. d \in DirsOf(Volume) /\ Holds(Volume, d, Split(p).name, i)
  BY ParentsMean
<1>4. Sound(RmdirIn(Volume, d, Split(p).name, i))
  BY <1>2, <1>3, RmdirIs
<1> QED BY <1>1, <1>4, SoundIsVol, BecomesIs

(* op_link keeps it sound if it did not make the directory grow.           *)
LEMMA LinkSound ==
  ASSUME Sound(Volume), NEW s \in Path, NEW p \in Path, Link(s, p), ~lost'
  PROVE  Sound(Volume')
<1>1. PICK i \in Namei(Volume, s), d \in Parents(Volume, p) :
        /\ ino[i].kind # Dir
        /\ \E v \in LinkIn(Volume, d, Split(p).name, i) :
             Becomes(WriteInode(WriteInode(v, i, [ino[i] EXCEPT !.links = @ + 1]), d, ino[d]))
        /\ lost' = (lost \/ Roomy(Volume, d) = {})
  BY DEF Link, Dir
<1>2. PICK v \in LinkIn(Volume, d, Split(p).name, i) : Becomes(LinkedIn(Volume, v, d, i))
  BY <1>1, VolumeIs DEF LinkedIn
<1>3. Missing(p) /\ Roomy(Volume, d) # {}
  BY <1>1 DEF Link
<1>4. i \in Volume.imap /\ i \notin DirsOf(Volume)
  BY <1>1, NotDirIs
<1>5. /\ d \in DirsOf(Volume) /\ Split(p).name \in Name
      /\ \A j : ~Holds(Volume, d, Split(p).name, j)
  BY <1>3, MissingIs
<1>6. Sound(LinkedIn(Volume, v, d, i))
  BY <1>3, <1>4, <1>5, LinkIs
<1> QED BY <1>2, <1>6, SoundIsVol, BecomesIs

(* op_rename keeps it sound, and the names of all but what it replaces.    *)
LEMMA RenameSound ==
  ASSUME Sound(Volume), NEW s \in Path, NEW p \in Path, Rename(s, p)
  PROVE  /\ Sound(Volume')
         /\ \A c, k, j : Holds(Volume, c, k, j) /\ j \notin Namei(Volume, p) =>
              \E a, l : Holds(Volume', a, l, j)
<1>1. PICK d \in Parents(Volume, s), i \in Namei(Volume, s), e \in Parents(Volume, p) :
        /\ \A j \in Namei(Volume, p) : i # j /\ Replaces(Volume, i, j)
        /\ Becomes(Move(Replaced(Volume, p), i, d, Split(s).name, e, Split(p).name))
  BY DEF Rename
<1> DEFINE w == Move(Replaced(Volume, p), i, d, Split(s).name, e, Split(p).name)
<1>2. /\ Sound(w)
      /\ \A c, k, j : Holds(Volume, c, k, j) /\ j \notin Namei(Volume, p) =>
           \E a, l : Holds(w, a, l, j)
  BY <1>1, RenameIs
<1>3. Becomes(w)
  BY <1>1
<1> HIDE DEF w
<1>4. Volume' = w
  BY <1>2, <1>3, SoundIsVol, BecomesIs
<1> QED BY <1>2, <1>4

(* A volume with nothing but a root is sound.                              *)
LEMMA InitSound == Init => Sound(Volume)
<1> SUFFICES ASSUME Init PROVE Sound(Volume)
  OBVIOUS
<1> DEFINE e == <<0, 1>>
           bs == {e}
           x == [kind |-> Dir, links |-> 2, size |-> 1, blk |-> bs]
           v == Volume
<1>1. 1 \in Ino /\ 1 \in Blk /\ Root = 1
  BY CountAssumption DEF Ino, Blk, Root
<1>2. ino = [i \in Ino |-> IF i = Root THEN x ELSE NoInode]
  BY DEF Init, Dir
<1>3. e \in Nat \X Blk /\ e[2] = 1
  BY <1>1
<1>4. \A y : y \in bs <=> y = e
  OBVIOUS
<1> HIDE DEF e
<1>5. bs \in IBlk
  BY <1>3, FS_Singleton DEF IBlk
<1> HIDE DEF bs
<1>6. x \in Inode /\ x.kind = Dir /\ x.links = 2 /\ x.blk = bs
  BY <1>5, KindsDiffer DEF Inode
<1> HIDE DEF x
<1>7. Blocks(x) = {1}
  BY <1>3, <1>4, <1>6 DEF Blocks
<1>8. NoInode \in Inode
  BY FS_EmptySet DEF NoInode, Inode, Kind, NoKind, IBlk
<1>9. /\ v.ino = ino /\ v.ent = [b \in Blk |-> {}] /\ v.up = [i \in Ino |-> Root]
      /\ v.imap = {Root} /\ v.bmap = {1}
      /\ v = [ino |-> v.ino, ent |-> v.ent, up |-> v.up, imap |-> v.imap, bmap |-> v.bmap]
  BY DEF Init, Volume
<1> HIDE DEF v
<1>10. v \in Vol
  <2>1. v.ino \in [Ino -> Inode]
    BY <1>2, <1>6, <1>8, <1>9
  <2>2. v.ent \in [Blk -> SUBSET (Name \X Ino)] /\ v.up \in [Ino -> Ino]
    BY <1>1, <1>9
  <2>3. v.imap \in SUBSET Ino /\ v.bmap \in SUBSET Blk
    BY <1>1, <1>9
  <2> QED BY <1>9, <2>1, <2>2, <2>3 DEF Vol
<1>11. v.ino[Root] = x
  BY <1>1, <1>2, <1>9
<1>12. Of(v, Root) = {1} /\ DirsOf(v) = {Root}
  BY <1>6, <1>7, <1>9, <1>11 DEF Of, DirsOf
<1>13. Disk(v)
  <2>1. \A b \in Blk : b \in v.bmap <=> \E i \in v.imap : b \in Of(v, i)
    BY <1>9, <1>12
  <2>2. \A i, j \in v.imap : i # j => Of(v, i) \cap Of(v, j) = {}
    BY <1>9
  <2> QED BY <1>10, <2>1, <2>2 DEF Disk
<1>14. \A d, n, i : ~Holds(v, d, n, i)
  <2> SUFFICES ASSUME NEW d, NEW n, NEW i, Holds(v, d, n, i) PROVE FALSE
    OBVIOUS
  <2> DEFINE y == <<n, i>>
  <2>1. d = Root /\ y \in Entries(v, d)
    BY <1>9 DEF Holds
  <2> HIDE DEF y
  <2> QED BY <1>1, <1>9, <1>12, <2>1, EntriesMean
<1>15. Linked(v)
  BY <1>9, <1>12, <1>14 DEF Linked
<1>16. NamesIn(v, Root) = {} /\ DirsIn(v, Root) = {}
  BY <1>14 DEF NamesIn, DirsIn
<1>17. Counted(v)
  <2>1. IsFiniteSet(NamesIn(v, Root)) /\ Cardinality(DirsIn(v, Root)) = 0
    BY <1>16, FS_EmptySet
  <2>2. v.ino[Root].links = LinksOf(v, Root)
    BY <1>6, <1>11, <1>12, <2>1 DEF LinksOf
  <2> QED BY <1>9, <2>1, <2>2 DEF Counted
<1> QED BY <1>13, <1>15, <1>17 DEF Sound, v

SoundUntilLost == ~lost => Sound(Volume)

(* Every handler keeps the volume sound until a link loses a block.        *)
LEMMA HandlerSound ==
  ASSUME Sound(Volume), Handler, ~lost'
  PROVE  Sound(Volume')
<1>1. PICK p \in Path :
        \/ Create(p) \/ Mkdir(p) \/ Unlink(p) \/ Rmdir(p)
        \/ \E long \in BOOLEAN : Symlink(p, long)
        \/ \E k \in 0 .. MaxSize - 1 : Write(p, k) \/ Truncate(p, k)
        \/ \E s \in Path : Link(s, p) \/ Rename(s, p)
  BY DEF Handler
<1>2. \A k \in 0 .. MaxSize - 1 : k \in Nat
  OBVIOUS
<1> QED BY <1>1, <1>2, CreateIs, MkdirSound, UnlinkSound, RmdirSound, SymlinkIs, WriteIs,
           TruncateSound, LinkSound, RenameSound

(* So does every step.                                                     *)
LEMMA StepSound == SoundUntilLost /\ [Next]_vars => SoundUntilLost'
<1> SUFFICES ASSUME SoundUntilLost, [Next]_vars, ~lost' PROVE Sound(Volume')
  BY DEF SoundUntilLost
<1>1. CASE UNCHANGED <<ino, ent, up, imap, bmap, lost>>
  BY <1>1 DEF SoundUntilLost, Volume
<1>2. CASE ParseOption
  BY <1>1, <1>2 DEF ParseOption
<1>3. CASE Mount
  BY <1>1, <1>3 DEF Mount
<1>4. CASE ~lost /\ Handler
  BY <1>4, HandlerSound DEF SoundUntilLost
<1>5. CASE UNCHANGED vars
  BY <1>1, <1>5 DEF vars
<1> QED BY <1>2, <1>3, <1>4, <1>5 DEF Next

(* The volume of fuse-ext2 is sound until op_link writes back the inode of *)
(* a directory that ext2fs_expand_dir has made grow (op_link.c): the       *)
(* inductive invariant.                                                    *)
THEOREM SoundAlways == Spec => []SoundUntilLost
<1>1. Init => SoundUntilLost
  BY InitSound DEF SoundUntilLost
<1> QED BY <1>1, StepSound, PTL DEF Spec

-----------------------------------------------------------------------------
(* The directories that the properties count.                              *)
LEMMA DirsIs == Dirs = DirsOf(Volume)
BY VolumeIs DEF Dirs, DirsOf, Dir

(* What has a name, in the terms of the properties.                        *)
LEMMA NamedIs ==
  ASSUME Sound(Volume), NEW i
  PROVE  i \in Named <=> \E d, n : Holds(Volume, d, n, i)
<1>1. Volume \in Vol /\ Linked(Volume)
  BY SoundIsVol DEF Sound
<1>2. \A d \in DirsOf(Volume) : d \in Volume.imap
  BY DEF DirsOf
<1>3. i \in Named <=> \E d \in DirsOf(Volume), n \in Name : i \in Lookup(Volume, d, n)
  BY DirsIs DEF Named
<1>4. i \in Named <=> \E d \in DirsOf(Volume), n \in Name : Holds(Volume, d, n, i)
  BY <1>1, <1>2, <1>3, LookupMeans
<1> QED BY <1>1, <1>4, HoldsTypes DEF Linked

(* The names of an inode, in the terms of the properties.                  *)
LEMMA NamesOfIs ==
  ASSUME Sound(Volume), NEW i
  PROVE  NamesOf(i) = NamesIn(Volume, i)
<1>1. Volume \in Vol /\ Linked(Volume) /\ Volume.imap \subseteq Ino
  BY SoundIsVol DEF Sound
<1>2. \A d \in DirsOf(Volume) : d \in Volume.imap
  BY DEF DirsOf
<1>3. \A d \in DirsOf(Volume) : \A n : i \in Lookup(Volume, d, n) <=> Holds(Volume, d, n, i)
  BY <1>1, <1>2, LookupMeans
<1>4. NamesOf(i) = {x \in DirsOf(Volume) \X Name : i \in Lookup(Volume, x[1], x[2])}
  BY DirsIs DEF NamesOf
<1>5. \A d, n : Holds(Volume, d, n, i) => d \in DirsOf(Volume)
  BY <1>1 DEF Linked
<1>6. NamesIn(Volume, i) \subseteq DirsOf(Volume) \X Name
  BY <1>5 DEF NamesIn
<1>7. DirsOf(Volume) \X Name \subseteq Ino \X Name
  BY <1>1, <1>2
<1> QED BY <1>3, <1>4, <1>6, <1>7 DEF NamesIn

(* The directories in a directory, in the terms of the properties.         *)
LEMMA SubDirsIs ==
  ASSUME Sound(Volume), NEW d \in DirsOf(Volume)
  PROVE  SubDirs(d) = DirsIn(Volume, d)
<1>1. Volume \in Vol /\ d \in Volume.imap
  BY SoundIsVol DEF DirsOf
<1>2. \A n, e : e \in Lookup(Volume, d, n) <=> Holds(Volume, d, n, e)
  BY <1>1, LookupMeans
<1>3. \A n, e : Holds(Volume, d, n, e) => n \in Name
  BY <1>1, HoldsTypes
<1>4. SubDirs(d) = {e \in DirsOf(Volume) \ {Root} : \E n \in Name : e \in Lookup(Volume, d, n)}
  BY DirsIs DEF SubDirs
<1> QED BY <1>2, <1>3, <1>4 DEF DirsIn

(* A volume that is sound has lost nothing.                                *)
LEMMA SoundLosesNothing ==
  ASSUME Sound(Volume)
  PROVE  NothingLost
<1>1. Volume \in Vol /\ Linked(Volume) /\ Disk(Volume) /\ Volume.imap \subseteq Ino
  BY SoundIsVol DEF Sound
<1>2. LinksCounted
  <2> SUFFICES ASSUME NEW i \in imap
               PROVE  ino[i].links = IF i \in Dirs THEN 2 + Cardinality(SubDirs(i))
                                     ELSE Cardinality(NamesOf(i))
    BY DEF LinksCounted
  <2>1. ino[i].links = LinksOf(Volume, i)
    BY VolumeIs DEF Sound, Counted
  <2> QED BY <2>1, DirsIs, NamesOfIs, SubDirsIs DEF LinksOf
<1>3. NothingLeaks
  <2>1. imap = {Root} \cup Named
    <3>1. Root \in imap
      BY <1>1, VolumeIs DEF Linked, DirsOf
    <3>2. \A i \in Named : i \in imap
      BY <1>1, NamedIs, VolumeIs DEF Linked
    <3>3. \A i \in imap : i # Root => i \in Named
      BY <1>1, NamedIs, VolumeIs DEF Linked
    <3> QED BY <3>1, <3>2, <3>3
  <2>2. \A i \in imap : Blocks(ino[i]) = Of(Volume, i) /\ Blocks(ino[i]) \subseteq Blk
    BY <1>1, VolumeIs, VolFields, InodeFields DEF Of
  <2>3. bmap = UNION {Blocks(ino[i]) : i \in imap}
    <3>1. \A b \in Blk : b \in bmap <=> \E i \in imap : b \in Of(Volume, i)
      BY <1>1, VolumeIs DEF Disk
    <3>2. bmap \subseteq Blk
      BY <1>1, VolumeIs, VolFields
    <3>3. \A b : b \in bmap <=> \E i \in imap : b \in Blocks(ino[i])
      BY <2>2, <3>1, <3>2
    <3> QED BY <3>3
  <2>4. \A i, j \in imap : i # j => Blocks(ino[i]) \cap Blocks(ino[j]) = {}
    BY <1>1, <2>2, VolumeIs DEF Disk
  <2> QED BY <2>1, <2>3, <2>4 DEF NothingLeaks
<1>4. DotDotRight
  <2> SUFFICES ASSUME NEW d \in Dirs \ {Root}
               PROVE  \E n \in Name : NamesOf(d) = {<<up[d], n>>}
    BY DEF DotDotRight
  <2>1. d \in DirsOf(Volume) /\ d \in Volume.imap /\ d # Root
    BY DirsIs DEF DirsOf
  <2>2. PICK c, n : Holds(Volume, c, n, d)
    BY <1>1, <2>1 DEF Linked
  <2>3. c = up[d] /\ n \in Name /\ c \in Ino
    BY <1>1, <2>1, <2>2, HoldsTypes, VolumeIs DEF Linked
  <2>4. \A a, m : Holds(Volume, a, m, d) <=> a = c /\ m = n
    <3>1. \A a, m : Holds(Volume, a, m, d) => a = c
      BY <1>1, <2>1, <2>2 DEF Linked
    <3>2. \A m : Holds(Volume, c, m, d) => m = n
      BY <1>1, <2>1, <2>2 DEF Linked
    <3> QED BY <2>2, <3>1, <3>2
  <2>5. NamesIn(Volume, d) = {<<c, n>>}
    <3>1. \A x \in Ino \X Name : Holds(Volume, x[1], x[2], d) <=> x = <<c, n>>
      BY <2>4
    <3>2. <<c, n>> \in Ino \X Name
      BY <2>3
    <3> QED BY <3>1, <3>2 DEF NamesIn
  <2> QED BY <2>3, <2>5, NamesOfIs
<1> QED BY <1>2, <1>3, <1>4 DEF NothingLost

(* Whatever the handlers do, every file has as many links as names and     *)
(* every directory two more than directories in it, no inode or block is   *)
(* lost or used twice, and ".." leads to where the name is, until a link   *)
(* makes a directory grow.                                                 *)
THEOREM NothingIsLost == Spec => []NothingLost
<1>1. SoundUntilLost => NothingLost
  <2>1. ASSUME lost PROVE NothingLost
    BY <2>1 DEF NothingLost, LinksCounted, NothingLeaks, DotDotRight
  <2> QED BY <2>1, SoundLosesNothing DEF SoundUntilLost
<1> QED BY <1>1, SoundAlways, PTL

NamesAre == Sound(Volume) => \A i : i \in Named <=> \E d, n : Holds(Volume, d, n, i)

RenameKeeps ==
  ~(Named \subseteq Named') =>
    \A s, p \in Path : Rename(s, p) => Named \ Namei(Volume, p) \subseteq Named'

(* NamedIs, of the volume before a step and after it.                      *)
LEMMA NamesAreHeld == NamesAre
BY NamedIs DEF NamesAre

(* A step that takes a name away is no rename, or takes away what it       *)
(* replaces.                                                               *)
LEMMA StepKeepsNames == SoundUntilLost /\ [Next]_vars => [RenameKeeps]_vars
<1> SUFFICES ASSUME SoundUntilLost, Next PROVE RenameKeeps
  OBVIOUS
<1>1. NamesAre /\ NamesAre'
  BY NamesAreHeld, PTL
<1>3. CASE UNCHANGED <<ino, ent, up, imap, bmap>>
  <2>1. Volume' = Volume /\ Dirs' = Dirs
    BY <1>3 DEF Volume, Dirs
  <2>2. Named' = Named
    BY <2>1 DEF Named
  <2> QED BY <2>2 DEF RenameKeeps
<1>4. CASE ParseOption \/ Mount
  BY <1>3, <1>4 DEF ParseOption, Mount
<1>5. CASE ~lost /\ Handler
  <2> SUFFICES ASSUME NEW s \in Path, NEW p \in Path, Rename(s, p),
                      NEW j \in Named, j \notin Namei(Volume, p)
               PROVE  j \in Named'
    BY DEF RenameKeeps
  <2>1. Sound(Volume)
    BY <1>5 DEF SoundUntilLost
  <2>2. /\ Sound(Volume')
        /\ \A c, k : Holds(Volume, c, k, j) => \E a, l : Holds(Volume', a, l, j)
    BY <2>1, RenameSound
  <2>3. \E c, k : Holds(Volume, c, k, j)
    BY <1>1, <2>1 DEF NamesAre
  <2>4. \E a, l : Holds(Volume', a, l, j)
    BY <2>2, <2>3
  <2> QED BY <1>1, <2>2, <2>4 DEF NamesAre
<1> QED BY <1>4, <1>5 DEF Next

(* op_rename leaves a name to every inode that had one, but to what stood  *)
(* at the new name: it adds the new name before it drops the old one.      *)
THEOREM RenameKeepsNames == Spec => RenameLosesNothing
<1>1. RenameLosesNothing <=> [][RenameKeeps]_vars
  BY DEF RenameLosesNothing, RenameKeeps
<1> QED BY <1>1, SoundAlways, StepKeepsNames, PTL DEF Spec

-----------------------------------------------------------------------------
(* The options, as the provers can handle them.                            *)
Ro     == "ro"
Rw     == "rw"
RwPlus == "rw+"
Forced == "force"

Forces(g)    == \E k \in DOMAIN g : g[k] \in {RwPlus, Forced}
ReadsOnly(g) ==
  \E k \in DOMAIN g : g[k] = Ro /\ \A l \in k + 1 .. Len(g) : g[l] \notin {Rw, RwPlus}

(* The options are four constants.                                         *)
LEMMA OptionsDiffer ==
  /\ Opt = {Ro, Rw, RwPlus, Forced}
  /\ Ro # Rw /\ Ro # RwPlus /\ Ro # Forced /\ Rw # RwPlus /\ Rw # Forced /\ RwPlus # Forced
BY DEF Opt, Ro, Rw, RwPlus, Forced

(* One more option.                                                        *)
LEMMA AppendForces ==
  ASSUME NEW g \in Seq(Opt), NEW o \in Opt
  PROVE  Forces(Append(g, o)) <=> Forces(g) \/ o \in {RwPlus, Forced}
<1> DEFINE h == Append(g, o)
           m == Len(g) + 1
<1>1. /\ h \in Seq(Opt) /\ Len(h) = m /\ h[m] = o /\ DOMAIN h = 1 .. m /\ DOMAIN g = 1 .. Len(g)
      /\ Len(g) \in Nat /\ \A k \in 1 .. Len(g) : h[k] = g[k]
  OBVIOUS
<1>2. \A k : k \in 1 .. m <=> k \in 1 .. Len(g) \/ k = m
  BY <1>1
<1> HIDE DEF h, m
<1>3. Forces(h) <=> Forces(g) \/ o \in {RwPlus, Forced}
  BY <1>1, <1>2 DEF Forces
<1> QED BY <1>3 DEF h

(* One more option, and the last that says "ro" or not.                    *)
LEMMA AppendReadsOnly ==
  ASSUME NEW g \in Seq(Opt), NEW o \in Opt
  PROVE  ReadsOnly(Append(g, o)) <=> o = Ro \/ (o = Forced /\ ReadsOnly(g))
<1> DEFINE h == Append(g, o)
           m == Len(g) + 1
           Stands(k, f) == f[k] = Ro /\ \A l \in k + 1 .. Len(f) : f[l] \notin {Rw, RwPlus}
<1>1. /\ h \in Seq(Opt) /\ Len(h) = m /\ h[m] = o /\ DOMAIN h = 1 .. m /\ DOMAIN g = 1 .. Len(g)
      /\ Len(g) \in Nat /\ m \in Nat /\ \A k \in 1 .. Len(g) : h[k] = g[k]
  OBVIOUS
<1>2. \A k : k \in 1 .. m <=> k \in 1 .. Len(g) \/ k = m
  BY <1>1
<1>3. /\ ReadsOnly(h) <=> \E k \in 1 .. m : Stands(k, h)
      /\ ReadsOnly(g) <=> \E k \in 1 .. Len(g) : Stands(k, g)
  BY <1>1 DEF ReadsOnly
<1>4. Stands(m, h) <=> o = Ro
  BY <1>1
<1>5. ASSUME NEW k \in 1 .. Len(g)
      PROVE  Stands(k, h) <=> Stands(k, g) /\ o \notin {Rw, RwPlus}
  <2>1. h[k] = g[k]
    BY <1>1
  <2>2. \A l : l \in k + 1 .. m <=> l \in k + 1 .. Len(g) \/ l = m
    BY <1>1
  <2>3. \A l \in k + 1 .. Len(g) : h[l] = g[l]
    BY <1>1
  <2> QED BY <1>1, <2>1, <2>2, <2>3
<1> HIDE DEF h, m, Stands
<1>6. ReadsOnly(h) <=> o = Ro \/ (ReadsOnly(g) /\ o \notin {Rw, RwPlus})
  BY <1>2, <1>3, <1>4, <1>5
<1> QED BY <1>6, OptionsDiffer DEF h

OptionsRead ==
  /\ readonly \in BOOLEAN /\ force \in BOOLEAN /\ given \in Seq(Opt)
  /\ ~mounted => (readonly <=> ReadsOnly(given)) /\ (force <=> Forces(given))

(* No handler changes what was mounted how.                                *)
LEMMA HandlerLeavesOptions == Handler => UNCHANGED options
<1> SUFFICES ASSUME Handler PROVE UNCHANGED options
  OBVIOUS
<1>1. ASSUME NEW v, Becomes(v) PROVE UNCHANGED options
  BY <1>1 DEF Becomes
<1>2. PICK p \in Path :
        \/ Create(p) \/ Mkdir(p) \/ Unlink(p) \/ Rmdir(p)
        \/ \E long \in BOOLEAN : Symlink(p, long)
        \/ \E k \in 0 .. MaxSize - 1 : Write(p, k) \/ Truncate(p, k)
        \/ \E s \in Path : Link(s, p) \/ Rename(s, p)
  BY DEF Handler
<1>3. CASE Create(p)
  BY <1>1, <1>3 DEF Create
<1>4. CASE Mkdir(p)
  BY <1>1, <1>4 DEF Mkdir
<1>5. CASE Unlink(p)
  BY <1>1, <1>5 DEF Unlink
<1>6. CASE Rmdir(p)
  BY <1>1, <1>6 DEF Rmdir
<1>7. ASSUME NEW long, Symlink(p, long) PROVE UNCHANGED options
  BY <1>1, <1>7 DEF Symlink
<1>8. ASSUME NEW k, Write(p, k) PROVE UNCHANGED options
  BY <1>1, <1>8 DEF Write
<1>9. ASSUME NEW k, Truncate(p, k) PROVE UNCHANGED options
  BY <1>1, <1>9 DEF Truncate
<1>10. ASSUME NEW s, Link(s, p) PROVE UNCHANGED options
  BY <1>1, <1>10 DEF Link
<1>11. ASSUME NEW s, Rename(s, p) PROVE UNCHANGED options
  BY <1>1, <1>11 DEF Rename
<1> QED BY <1>2, <1>3, <1>4, <1>5, <1>6, <1>7, <1>8, <1>9, <1>10, <1>11

(* parse_mount_options, one option at a time, has read them all.           *)
LEMMA StepReadsOptions == OptionsRead /\ [Next]_vars => OptionsRead'
<1> SUFFICES ASSUME OptionsRead, [Next]_vars PROVE OptionsRead'
  OBVIOUS
<1>1. CASE UNCHANGED options
  BY <1>1 DEF OptionsRead, options
<1>2. CASE ParseOption
  <2>1. PICK o \in Opt : Option(o) /\ given' = Append(given, o)
    BY <1>2 DEF ParseOption
  <2>2. /\ readonly' = (IF o = Forced THEN readonly ELSE o = Ro)
        /\ force' = (force \/ o \in {RwPlus, Forced}) /\ ~mounted
    BY <1>2, <2>1 DEF Option, ParseOption, Forced, Ro, RwPlus
  <2>3. given \in Seq(Opt) /\ readonly \in BOOLEAN /\ force \in BOOLEAN
    BY DEF OptionsRead
  <2>4. readonly' \in BOOLEAN /\ force' \in BOOLEAN
    BY <2>2, <2>3
  <2>5. given' \in Seq(Opt)
    BY <2>1, <2>3
  <2>6. (ReadsOnly(given'))  <=> o = Ro \/ (o = Forced /\ ReadsOnly(given))
    BY <2>1, <2>3, AppendReadsOnly
  <2>7. Forces(given') <=> Forces(given) \/ o \in {RwPlus, Forced}
    BY <2>1, <2>3, AppendForces
  <2>8. (readonly <=> ReadsOnly(given)) /\ (force <=> Forces(given))
    BY <2>2 DEF OptionsRead
  <2>9. readonly' <=> ReadsOnly(given')
    BY <2>2, <2>6, <2>8, OptionsDiffer, Zenon
  <2>10. force' <=> Forces(given')
    BY <2>2, <2>7, <2>8, Zenon
  <2> QED BY <2>4, <2>5, <2>9, <2>10 DEF OptionsRead
<1>3. CASE Mount
  <2>1. /\ mounted' = TRUE /\ readonly' = (readonly \/ ~force) /\ force' = force
        /\ given' = <<>>
    BY <1>3 DEF Mount
  <2>2. given' \in Seq(Opt)
    BY <2>1
  <2>3. readonly' \in BOOLEAN /\ force' \in BOOLEAN
    BY <2>1 DEF OptionsRead
  <2> QED BY <2>1, <2>2, <2>3 DEF OptionsRead
<1>4. CASE Handler
  <2>1. UNCHANGED options
    BY <1>4, HandlerLeavesOptions
  <2> QED BY <1>1, <2>1
<1>5. CASE UNCHANGED vars
  BY <1>1, <1>5 DEF vars
<1> QED BY <1>2, <1>3, <1>4, <1>5 DEF Next

(* A mount writes only if an option forces it, "rw+" or "force", and every *)
(* "ro" is followed by one that takes it back, however many options there  *)
(* are.                                                                    *)
THEOREM OnlyForcedMountsWrite == Spec => []ForcedOnly
<1>1. Init => OptionsRead
  <2> SUFFICES ASSUME Init PROVE OptionsRead
    OBVIOUS
  <2> DEFINE g == <<>>
  <2>1. g \in Seq(Opt) /\ DOMAIN g = {}
    OBVIOUS
  <2>2. given = g /\ readonly = FALSE /\ force = FALSE
    BY DEF Init
  <2> HIDE DEF g
  <2>3. ~Forces(given) /\ ~ReadsOnly(given)
    BY <2>1, <2>2 DEF Forces, ReadsOnly
  <2> QED BY <2>1, <2>2, <2>3 DEF OptionsRead
<1>2. OptionsRead => ForcedOnly
  <2> SUFFICES ASSUME OptionsRead, ~mounted PROVE ForcedOnly
    BY DEF ForcedOnly
  <2> DEFINE A == \E k \in DOMAIN given : given[k] \in {RwPlus, Forced}
             B == \A k \in DOMAIN given : given[k] = Ro =>
                    \E l \in k + 1 .. Len(given) : given[l] \in {Rw, RwPlus}
  <2>1. readonly \in BOOLEAN /\ force \in BOOLEAN
    BY DEF OptionsRead
  <2>2. force <=> A
    BY DEF OptionsRead, Forces
  <2>3. ~readonly <=> B
    BY DEF OptionsRead, ReadsOnly
  <2>4. ForcedOnly <=> ((~readonly /\ force) = (A /\ B))
    BY DEF ForcedOnly, Ro, Rw, RwPlus, Forced
  <2> HIDE DEF A, B
  <2>5. (~readonly /\ force) = (A /\ B)
    BY <2>2, <2>3
  <2> QED BY <2>4, <2>5
<1> QED BY <1>1, <1>2, StepReadsOptions, PTL DEF Spec
===============================================================================

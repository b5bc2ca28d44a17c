----------------------------- MODULE TinyFSProofs -----------------------------
(***************************************************************************)
(* Proofs about TinyFS and EarlierFS, as MCTinyFS composes them: blocks    *)
(* and inodes of both versions have one owner each, the handlers of net/   *)
(* implement FileTree, its listings show every name once, and a rename of  *)
(* the earlier version moves what it says.  An answer of net/ may be lost  *)
(* with the reports to the monitor; what a call does is done all the same. *)
(*                                                                         *)
(* The invariant of both versions is TreeOK, of the inodes, the blocks and *)
(* both bitmaps given as arguments, so that a lemma can speak of a         *)
(* handler's first step and of the one after it: Owned (the blocks),       *)
(* Rooted, and NamesOK (every name is in a block of a directory and has an *)
(* inode in use of the type the entry says, every inode in use but the     *)
(* root has one name, and no directory has a name twice).  A place of a    *)
(* directory, which the handlers count through all its blocks, is a spot   *)
(* <<block, index>> here.                                                  *)
(*                                                                         *)
(* Programs that the tree is proved for keep it flat (FlatIn: directories  *)
(* are in the root), and their directories neat (NeatIn: "." and ".." are  *)
(* the first two entries, and nowhere else).  What they see is derived     *)
(* from Holds(d), the entries of a directory as a set: a handler adds one, *)
(* takes one away, or leaves all (Gains, Loses, Same), and the path of     *)
(* that entry is the only one that changes its kind.                       *)
(***************************************************************************)
EXTENDS MCTinyFS, WellFoundedInduction, FiniteSetTheorems, TLAPS

(* The strings that the model compares, as the provers can handle them.    *)
NoName == ""
Self   == "."
Dir    == "dir"
File   == "file"

(* What entries, inodes and spots are, of a disk whose free blocks hold     *)
(* nothing that looks like names.                                          *)
Index == 1 .. NDirent
Kind  == {File, Dir}
Ent   == [name : Name \cup {"", ".", ".."}, ino : Ino, type : Kind]
Node  == [type : Kind, blk : Seq(Blk)]
Spot  == Blk \X Index

Typed(in, dat, fr, bf) ==
  /\ in \in [Ino -> Node]
  /\ \A i \in Ino : Len(in[i].blk) <= NDirect
  /\ dat \in [Blk -> [Index -> Ent]]
  /\ fr \subseteq Ino /\ bf \subseteq Blk

At(dat, x) == dat[x[1]][x[2]]
Live(dat)  == {x \in Spot : At(dat, x).name \in Name}

DirsOf(in, fr)   == {i \in Ino \ fr : in[i].type = Dir}
BlocksOf(in, i)  == {in[i].blk[k] : k \in 1 .. Len(in[i].blk)}

(* Every block that is not free belongs to an inode in use, no free one    *)
(* does, and none belongs to two or to one twice.                          *)
Covered(in, fr, bf) == \A b \in Blk \ bf : \E i \in Ino \ fr : b \in BlocksOf(in, i)

Taken(in, fr, bf) == \A i \in Ino \ fr : BlocksOf(in, i) \cap bf = {}

OnePlace(in, fr) ==
  \A i, j \in Ino \ fr : \A k \in 1 .. Len(in[i].blk), l \in 1 .. Len(in[j].blk) :
    in[i].blk[k] = in[j].blk[l] => i = j /\ k = l

Owned(in, fr, bf) == Covered(in, fr, bf) /\ Taken(in, fr, bf) /\ OnePlace(in, fr)

Rooted(in, fr) == Root \in DirsOf(in, fr)

(* A directory begins with ".", and so keeps its first block.              *)
HeadOf(in, d) == <<in[d].blk[1], 1>>

Headed(in, dat, fr) ==
  \A d \in DirsOf(in, fr) : Len(in[d].blk) > 0 /\ At(dat, HeadOf(in, d)).name = Self

(* Where names are, and what they are linked to.                           *)
Housed(in, dat, fr) == \A x \in Live(dat) : \E d \in DirsOf(in, fr) : x[1] \in BlocksOf(in, d)

Linked(in, dat, fr) ==
  \A x \in Live(dat) : /\ At(dat, x).ino \in Ino \ fr /\ At(dat, x).ino # Root
                       /\ in[At(dat, x).ino].type = At(dat, x).type

LinkedOnce(dat) == \A x, y \in Live(dat) : At(dat, x).ino = At(dat, y).ino => x = y

AllLinked(dat, fr) == \A i \in Ino \ fr : i # Root => \E x \in Live(dat) : At(dat, x).ino = i

Distinct(in, dat, fr) ==
  \A d \in DirsOf(in, fr) : \A x, y \in Live(dat) :
    /\ x[1] \in BlocksOf(in, d) /\ y[1] \in BlocksOf(in, d)
    /\ At(dat, x).name = At(dat, y).name
    => x = y

NamesOK(in, dat, fr) ==
  /\ Headed(in, dat, fr) /\ Housed(in, dat, fr)
  /\ Linked(in, dat, fr) /\ LinkedOnce(dat) /\ AllLinked(dat, fr) /\ Distinct(in, dat, fr)

TreeOK(in, dat, fr, bf) ==
  Typed(in, dat, fr, bf) /\ Owned(in, fr, bf) /\ Rooted(in, fr) /\ NamesOK(in, dat, fr)

-----------------------------------------------------------------------------
(* The names that a directory has entries of its own for are not for programs.*)
LEMMA NameFacts == Self \notin Name /\ NoName \notin Name /\ Self # NoName
BY NameAssumption DEF Self, NoName

(* There are two types of inodes.                                          *)
LEMMA KindFacts == Dir # File /\ Kind = {File, Dir}
BY DEF Dir, File, Kind

(* The parts of a state that has its types.                                *)
LEMMA TypedFacts ==
  ASSUME NEW in, NEW dat, NEW fr, NEW bf, Typed(in, dat, fr, bf)
  PROVE  /\ \A i \in Ino : /\ in[i].type \in Kind /\ in[i].blk \in Seq(Blk)
                           /\ Len(in[i].blk) \in Nat
                           /\ BlocksOf(in, i) \subseteq Blk
         /\ \A x \in Spot : At(dat, x) \in Ent
BY DEF Typed, Node, BlocksOf, At, Spot

(* A step that changes no inode in use, no name of a program and no head of*)
(* a directory keeps the tree.                                             *)
LEMMA Unseen ==
  ASSUME NEW in, NEW dat, NEW fr, NEW bf, TreeOK(in, dat, fr, bf),
         NEW in2, NEW dat2, Typed(in2, dat2, fr, bf),
         \A i \in Ino \ fr : in2[i] = in[i],
         Live(dat2) = Live(dat), \A x \in Live(dat) : At(dat2, x) = At(dat, x),
         \A d \in DirsOf(in, fr) : At(dat2, HeadOf(in, d)).name = Self
  PROVE  TreeOK(in2, dat2, fr, bf)
<1>1. DirsOf(in2, fr) = DirsOf(in, fr)
  BY DEF DirsOf
<1>2. \A i \in Ino \ fr : BlocksOf(in2, i) = BlocksOf(in, i)
  BY DEF BlocksOf
<1>3. \A d \in DirsOf(in, fr) : d \in Ino \ fr /\ BlocksOf(in2, d) = BlocksOf(in, d) /\ HeadOf(in2, d) = HeadOf(in, d)
  BY <1>2 DEF DirsOf, HeadOf
<1>4. Owned(in2, fr, bf)
  <2>1. Covered(in2, fr, bf) /\ Taken(in2, fr, bf)
    BY <1>2 DEF TreeOK, Owned, Covered, Taken
  <2>2. OnePlace(in2, fr)
    BY DEF TreeOK, Owned, OnePlace
  <2> QED BY <2>1, <2>2 DEF Owned
<1>5. Headed(in2, dat2, fr)
  BY <1>1, <1>3 DEF TreeOK, NamesOK, Headed, DirsOf
<1>6. Housed(in2, dat2, fr)
  BY <1>1, <1>3 DEF TreeOK, NamesOK, Housed
<1>7. Linked(in2, dat2, fr)
  BY DEF TreeOK, NamesOK, Linked
<1>8. LinkedOnce(dat2) /\ AllLinked(dat2, fr)
  BY DEF TreeOK, NamesOK, LinkedOnce, AllLinked
<1>9. Distinct(in2, dat2, fr)
  BY <1>1, <1>3 DEF TreeOK, NamesOK, Distinct
<1> QED BY <1>1, <1>4, <1>5, <1>6, <1>7, <1>8, <1>9 DEF TreeOK, NamesOK, Rooted

(* A directory's blocks hold only the names of that directory.             *)
LEMMA FreeDead ==
  ASSUME NEW in, NEW dat, NEW fr, NEW bf, TreeOK(in, dat, fr, bf)
  PROVE  \A x \in Live(dat) : x[1] \notin bf
BY DEF TreeOK, NamesOK, Housed, Owned, Taken, DirsOf

(* The head of a directory is a place.                                     *)
LEMMA HeadSpot ==
  ASSUME NEW in, NEW dat, NEW fr, NEW bf, Typed(in, dat, fr, bf),
         NEW d \in Ino, Len(in[d].blk) > 0
  PROVE  HeadOf(in, d) \in Spot
<1>1. in[d].blk[1] \in Blk
  BY TypedFacts
<1> QED BY <1>1, SizeAssumption DEF HeadOf, Spot, Index

(* A place without a name, or in a block that was free, is no head.        *)
LEMMA NotHead ==
  ASSUME NEW in, NEW dat, NEW fr, NEW bf, TreeOK(in, dat, fr, bf), NEW y,
         At(dat, y).name = NoName
  PROVE  At(dat, y).name \notin Name /\ \A c \in DirsOf(in, fr) : HeadOf(in, c) # y
<1>1. Headed(in, dat, fr)
  BY DEF TreeOK, NamesOK
<1> QED BY <1>1, NameFacts DEF Headed

(* An inode in use takes one more block.                                   *)
LEMMA TakeBlock ==
  ASSUME NEW in, NEW dat, NEW fr, NEW bf, TreeOK(in, dat, fr, bf),
         NEW c \in Ino \ fr, NEW b \in bf,
         NEW in2, Typed(in2, dat, fr, bf \ {b}),
         \A i \in Ino : i # c => in2[i] = in[i],
         in2[c].type = in[c].type, in2[c].blk = Append(in[c].blk, b)
  PROVE  TreeOK(in2, dat, fr, bf \ {b})
<1>p. /\ Typed(in, dat, fr, bf) /\ Covered(in, fr, bf) /\ Taken(in, fr, bf)
      /\ OnePlace(in, fr) /\ Rooted(in, fr)
      /\ Headed(in, dat, fr) /\ Housed(in, dat, fr) /\ Linked(in, dat, fr)
      /\ LinkedOnce(dat) /\ AllLinked(dat, fr) /\ Distinct(in, dat, fr)
  BY DEF TreeOK, Owned, NamesOK
<1>0. Typed(in, dat, fr, bf)
  BY <1>p
<1>1. in[c].blk \in Seq(Blk) /\ Len(in[c].blk) \in Nat
  BY <1>0, TypedFacts
<1>2. /\ Len(in2[c].blk) = Len(in[c].blk) + 1
      /\ \A k \in 1 .. Len(in[c].blk) : in2[c].blk[k] = in[c].blk[k]
      /\ in2[c].blk[Len(in[c].blk) + 1] = b
  <2>1. b \in Blk
    BY <1>0 DEF Typed
  <2> DEFINE s == in[c].blk
  <2>2. s \in Seq(Blk) /\ in2[c].blk = Append(s, b)
    BY <1>1
  <2> HIDE DEF s
  <2>3. /\ Len(Append(s, b)) = Len(s) + 1
        /\ \A k \in 1 .. Len(s) : Append(s, b)[k] = s[k]
        /\ Append(s, b)[Len(s) + 1] = b
    BY <2>1, <2>2
  <2> QED BY <2>2, <2>3 DEF s
<1>3. BlocksOf(in2, c) = BlocksOf(in, c) \cup {b}
  BY <1>1, <1>2 DEF BlocksOf
<1>4. \A i \in Ino : i # c => BlocksOf(in2, i) = BlocksOf(in, i)
  BY DEF BlocksOf
<1>5. DirsOf(in2, fr) = DirsOf(in, fr) /\ DirsOf(in, fr) \subseteq Ino \ fr
  BY DEF DirsOf
<1>6. Covered(in2, fr, bf \ {b})
  BY <1>3, <1>4, <1>p DEF Covered
<1>7. Taken(in2, fr, bf \ {b})
  BY <1>3, <1>4, <1>p DEF Taken
<1>8. OnePlace(in2, fr)
  <2> SUFFICES ASSUME NEW i \in Ino \ fr, NEW j \in Ino \ fr,
                      NEW k \in 1 .. Len(in2[i].blk), NEW l \in 1 .. Len(in2[j].blk),
                      in2[i].blk[k] = in2[j].blk[l]
               PROVE  i = j /\ k = l
    BY DEF OnePlace
  <2> DEFINE Old(h, m) == m \in 1 .. Len(in[h].blk) /\ in2[h].blk[m] = in[h].blk[m]
             New(h, m) == h = c /\ m = Len(in[c].blk) + 1 /\ in2[h].blk[m] = b
  <2>0. ASSUME NEW h \in Ino \ fr, NEW m \in 1 .. Len(in2[h].blk)
        PROVE  Old(h, m) \/ New(h, m)
    <3>1. CASE h = c
      <4>1. m \in 1 .. Len(in[c].blk) + 1
        BY <3>1, <1>2
      <4>2. m \in 1 .. Len(in[c].blk) \/ m = Len(in[c].blk) + 1
        BY <4>1, <1>1
      <4> QED BY <4>2, <3>1, <1>2
    <3>2. CASE h # c
      BY <3>2
    <3> QED BY <3>1, <3>2
  <2>1. /\ Old(i, k) \/ New(i, k)
        /\ Old(j, l) \/ New(j, l)
    BY <2>0
  <2>2. \A h \in Ino \ fr : \A m \in 1 .. Len(in[h].blk) : in[h].blk[m] # b
    BY <1>p DEF Taken, BlocksOf
  <2>3. CASE Old(i, k) /\ Old(j, l)
    <3>1. in[i].blk[k] = in[j].blk[l] /\ k \in 1 .. Len(in[i].blk) /\ l \in 1 .. Len(in[j].blk)
      BY <2>3
    <3> QED BY <3>1, <1>p DEF OnePlace
  <2>4. CASE Old(i, k) /\ New(j, l)
    BY <2>2, <2>4
  <2>5. CASE New(i, k) /\ Old(j, l)
    BY <2>2, <2>5
  <2>6. CASE New(i, k) /\ New(j, l)
    BY <2>6
  <2> QED BY <2>1, <2>3, <2>4, <2>5, <2>6
<1>9. \A d \in DirsOf(in, fr) : Len(in[d].blk) > 0 => HeadOf(in2, d) = HeadOf(in, d)
  BY <1>2, <1>1, <1>5 DEF HeadOf
<1>10. Headed(in2, dat, fr)
  <2> SUFFICES ASSUME NEW d \in DirsOf(in, fr)
               PROVE  Len(in2[d].blk) > 0 /\ At(dat, HeadOf(in2, d)).name = Self
    BY <1>5 DEF Headed
  <2>1. Len(in[d].blk) > 0 /\ At(dat, HeadOf(in, d)).name = Self
    BY <1>p DEF Headed
  <2>2. Len(in2[d].blk) > 0
    BY <1>1, <1>2, <1>5, <2>1
  <2> QED BY <1>9, <2>1, <2>2
<1>11. Housed(in2, dat, fr)
  BY <1>3, <1>4, <1>5, <1>p DEF Housed
<1>12. Linked(in2, dat, fr)
  BY <1>p DEF Linked
<1>13. Distinct(in2, dat, fr)
  <2> SUFFICES ASSUME NEW d \in DirsOf(in, fr), NEW x \in Live(dat), NEW y \in Live(dat),
                      x[1] \in BlocksOf(in2, d), y[1] \in BlocksOf(in2, d),
                      At(dat, x).name = At(dat, y).name
               PROVE  x = y
    BY <1>5 DEF Distinct
  <2>1. x[1] # b /\ y[1] # b
    BY FreeDead
  <2>2. x[1] \in BlocksOf(in, d) /\ y[1] \in BlocksOf(in, d)
    BY <2>1, <1>3, <1>4, <1>5
  <2> QED BY <2>2, <1>p DEF Distinct
<1> QED BY <1>5, <1>6, <1>7, <1>8, <1>10, <1>11, <1>12, <1>13 DEF TreeOK, Owned, NamesOK, Rooted

(* Blocks that are given up: those at places of inode c that K leaves out.  *)
(* from maps the places that are left to where they were.                   *)
Fewer(in, in2, c, from) ==
  /\ \A k \in 1 .. Len(in2[c].blk) : /\ from[k] \in 1 .. Len(in[c].blk)
                                     /\ in2[c].blk[k] = in[c].blk[from[k]]
  /\ \A k, l \in 1 .. Len(in2[c].blk) : from[k] = from[l] => k = l

KeepsNames(in, in2, dat, c) ==
  /\ Len(in2[c].blk) > 0 /\ in2[c].blk[1] = in[c].blk[1]
  /\ \A x \in Live(dat) : x[1] \in BlocksOf(in, c) => x[1] \in BlocksOf(in2, c)

(* An inode gives blocks back; a directory keeps its first one and those   *)
(* that hold names.                                                        *)
LEMMA GiveBlocks ==
  ASSUME NEW in, NEW dat, NEW fr, NEW bf, TreeOK(in, dat, fr, bf),
         NEW c \in Ino \ fr, NEW in2, NEW bf2, Typed(in2, dat, fr, bf2),
         \A i \in Ino : i # c => in2[i] = in[i],
         in2[c].type = in[c].type,
         NEW from, Fewer(in, in2, c, from),
         bf2 = bf \cup (BlocksOf(in, c) \ BlocksOf(in2, c)),
         c \in DirsOf(in, fr) => KeepsNames(in, in2, dat, c)
  PROVE  TreeOK(in2, dat, fr, bf2)
<1>p. /\ Typed(in, dat, fr, bf) /\ Covered(in, fr, bf) /\ Taken(in, fr, bf)
      /\ OnePlace(in, fr) /\ Rooted(in, fr)
      /\ Headed(in, dat, fr) /\ Housed(in, dat, fr) /\ Linked(in, dat, fr)
      /\ LinkedOnce(dat) /\ AllLinked(dat, fr) /\ Distinct(in, dat, fr)
  BY DEF TreeOK, Owned, NamesOK
<1>3. BlocksOf(in2, c) \subseteq BlocksOf(in, c)
  BY DEF BlocksOf, Fewer
<1>4. \A i \in Ino : i # c => BlocksOf(in2, i) = BlocksOf(in, i)
  BY DEF BlocksOf
<1>5. DirsOf(in2, fr) = DirsOf(in, fr) /\ DirsOf(in, fr) \subseteq Ino \ fr
  BY DEF DirsOf
<1>6. Covered(in2, fr, bf2)
  BY <1>3, <1>4, <1>p DEF Covered
<1>a. \A i \in Ino \ fr : i # c => BlocksOf(in, i) \cap BlocksOf(in, c) = {}
  BY <1>p DEF OnePlace, BlocksOf
<1>7. Taken(in2, fr, bf2)
  BY <1>3, <1>4, <1>a, <1>p DEF Taken
<1>8. OnePlace(in2, fr)
  <2> SUFFICES ASSUME NEW i \in Ino \ fr, NEW j \in Ino \ fr,
                      NEW k \in 1 .. Len(in2[i].blk), NEW l \in 1 .. Len(in2[j].blk),
                      in2[i].blk[k] = in2[j].blk[l]
               PROVE  i = j /\ k = l
    BY DEF OnePlace
  <2>1. in2[i].blk[k] \in BlocksOf(in2, i) /\ in2[j].blk[l] \in BlocksOf(in2, j)
    BY DEF BlocksOf
  <2>2. CASE i = c /\ j = c
    <3>1. /\ from[k] \in 1 .. Len(in[c].blk) /\ from[l] \in 1 .. Len(in[c].blk)
          /\ in[c].blk[from[k]] = in[c].blk[from[l]]
      BY <2>2 DEF Fewer
    <3>2. from[k] = from[l]
      BY <3>1, <1>p DEF OnePlace
    <3> QED BY <3>2, <2>2 DEF Fewer
  <2>3. CASE i = c /\ j # c
    BY <2>1, <2>3, <1>3, <1>4, <1>a
  <2>4. CASE i # c /\ j = c
    BY <2>1, <2>4, <1>3, <1>4, <1>a
  <2>5. CASE i # c /\ j # c
    BY <2>5, <1>p DEF OnePlace
  <2> QED BY <2>2, <2>3, <2>4, <2>5
<1>10. Headed(in2, dat, fr)
  BY <1>5, <1>p DEF Headed, HeadOf, KeepsNames
<1>11. Housed(in2, dat, fr)
  BY <1>4, <1>5, <1>p DEF Housed, KeepsNames
<1>12. Linked(in2, dat, fr)
  BY <1>p DEF Linked
<1>13. \A d \in DirsOf(in, fr) : BlocksOf(in2, d) \subseteq BlocksOf(in, d)
  BY <1>3, <1>4, <1>5
<1>14. Distinct(in2, dat, fr)
  BY <1>5, <1>13, <1>p DEF Distinct
<1> QED BY <1>5, <1>6, <1>7, <1>8, <1>10, <1>11, <1>12, <1>14 DEF TreeOK, Owned, NamesOK, Rooted

NewNode(node, ty, dat, bf, bf2) ==
  /\ node.type = ty
  /\ \/ ty = File /\ Len(node.blk) = 0 /\ bf2 = bf
     \/ /\ Len(node.blk) = 1 /\ node.blk[1] \in bf /\ bf2 = bf \ {node.blk[1]}
        /\ dat[node.blk[1]][1].name = Self

(* Inode t is taken for a new file or directory, whose name is written at  *)
(* y in directory d.                                                       *)
LEMMA NewEntry ==
  ASSUME NEW in, NEW dat, NEW fr, NEW bf, TreeOK(in, dat, fr, bf),
         NEW d \in DirsOf(in, fr), NEW y \in Spot, y[1] \in BlocksOf(in, d),
         At(dat, y).name \notin Name, \A c \in DirsOf(in, fr) : HeadOf(in, c) # y,
         NEW t \in fr, NEW n \in Name, NEW ty \in Kind,
         \A x \in Live(dat) : x[1] \in BlocksOf(in, d) => At(dat, x).name # n,
         NEW in2, NEW dat2, NEW bf2, Typed(in2, dat2, fr \ {t}, bf2),
         At(dat2, y) = Dirent(n, t, ty),
         \A x \in Spot : x # y => At(dat2, x) = At(dat, x),
         \A i \in Ino \ fr : in2[i] = in[i], NewNode(in2[t], ty, dat, bf, bf2)
  PROVE  TreeOK(in2, dat2, fr \ {t}, bf2)
<1>p. /\ Typed(in, dat, fr, bf) /\ Covered(in, fr, bf) /\ Taken(in, fr, bf)
      /\ OnePlace(in, fr) /\ Rooted(in, fr)
      /\ Headed(in, dat, fr) /\ Housed(in, dat, fr) /\ Linked(in, dat, fr)
      /\ LinkedOnce(dat) /\ AllLinked(dat, fr) /\ Distinct(in, dat, fr)
  BY DEF TreeOK, Owned, NamesOK
<1>0. /\ Typed(in, dat, fr, bf) /\ t \in Ino /\ t # Root /\ d \in Ino \ fr /\ t # d
  BY <1>p DEF Typed, Rooted, DirsOf
<1>1. Ino \ (fr \ {t}) = (Ino \ fr) \cup {t}
  BY <1>0
<1>2. At(dat2, y).name = n /\ At(dat2, y).ino = t /\ At(dat2, y).type = ty
  BY DEF Dirent
<1>3. Live(dat2) = Live(dat) \cup {y} /\ y \notin Live(dat)
  BY <1>2, NameFacts DEF Live
<1>4. \A x \in Live(dat) : At(dat2, x) = At(dat, x)
  BY <1>3 DEF Live
<1>5. \A i \in Ino \ fr : BlocksOf(in2, i) = BlocksOf(in, i)
  BY DEF BlocksOf
<1>6. BlocksOf(in2, t) = bf \ bf2 /\ bf2 \subseteq bf /\ Len(in2[t].blk) \in {0, 1}
  <2> DEFINE s == in2[t].blk
  <2>1. (Len(s) = 0 /\ bf2 = bf) \/ (Len(s) = 1 /\ s[1] \in bf /\ bf2 = bf \ {s[1]})
    BY DEF NewNode
  <2>2. BlocksOf(in2, t) = {s[k] : k \in 1 .. Len(s)}
    BY DEF BlocksOf
  <2>4. Len(s) \in Nat
    BY TypedFacts, <1>0
  <2> HIDE DEF s
  <2>3. (Len(s) = 0 => {s[k] : k \in 1 .. Len(s)} = {}) /\ (Len(s) = 1 => {s[k] : k \in 1 .. Len(s)} = {s[1]})
    BY <2>4
  <2> QED BY <2>1, <2>2, <2>3 DEF s
<1>b. in2[t].type = ty
  BY DEF NewNode
<1>7. DirsOf(in2, fr \ {t}) = DirsOf(in, fr) \cup (IF ty = Dir THEN {t} ELSE {})
  BY <1>1, <1>b DEF DirsOf
<1>8. Covered(in2, fr \ {t}, bf2)
  BY <1>1, <1>5, <1>6, <1>0, <1>p DEF Covered
<1>9. Taken(in2, fr \ {t}, bf2)
  BY <1>1, <1>5, <1>6, <1>0, <1>p DEF Taken
<1>10. OnePlace(in2, fr \ {t})
  <2> SUFFICES ASSUME NEW i \in (Ino \ fr) \cup {t}, NEW j \in (Ino \ fr) \cup {t},
                      NEW k \in 1 .. Len(in2[i].blk), NEW l \in 1 .. Len(in2[j].blk),
                      in2[i].blk[k] = in2[j].blk[l]
               PROVE  i = j /\ k = l
    BY <1>1 DEF OnePlace
  <2>1. \A h \in Ino \ fr : BlocksOf(in2, h) \cap BlocksOf(in2, t) = {}
    BY <1>5, <1>6, <1>p DEF Taken
  <2>2. in2[i].blk[k] \in BlocksOf(in2, i) /\ in2[j].blk[l] \in BlocksOf(in2, j)
    BY DEF BlocksOf
  <2>3. CASE i = t /\ j = t
    BY <2>3, <1>6
  <2>4. CASE i = t /\ j # t
    BY <2>1, <2>2, <2>4
  <2>5. CASE i # t /\ j = t
    BY <2>1, <2>2, <2>5
  <2>6. CASE i # t /\ j # t
    BY <2>6, <1>p DEF OnePlace
  <2> QED BY <2>3, <2>4, <2>5, <2>6
<1>11. Rooted(in2, fr \ {t})
  BY <1>7, <1>p DEF Rooted
<1>12. Headed(in2, dat2, fr \ {t})
  <2>1. ASSUME NEW c \in DirsOf(in, fr)
        PROVE  Len(in2[c].blk) > 0 /\ At(dat2, HeadOf(in2, c)).name = Self
    <3>1. Len(in[c].blk) > 0 /\ At(dat, HeadOf(in, c)).name = Self /\ in2[c] = in[c]
      BY <1>p DEF Headed, DirsOf
    <3>2. HeadOf(in, c) \in Spot
      <4>1. in[c].blk[1] \in BlocksOf(in, c) /\ c \in Ino
        BY <3>1, <1>0, TypedFacts DEF BlocksOf, DirsOf
      <4>2. in[c].blk[1] \in Blk
        BY <4>1, <1>0, TypedFacts
      <4> QED BY <4>2, SizeAssumption DEF HeadOf, Spot, Index
    <3>3. HeadOf(in, c) # y
      OBVIOUS
    <3> QED BY <3>1, <3>2, <3>3 DEF HeadOf
  <2>2. ASSUME ty = Dir
        PROVE  Len(in2[t].blk) > 0 /\ At(dat2, HeadOf(in2, t)).name = Self
    <3> DEFINE b == in2[t].blk[1]
    <3>1. Len(in2[t].blk) = 1 /\ b \in bf /\ dat[b][1].name = Self
      BY <2>2, KindFacts DEF NewNode
    <3>2. Len(in2[t].blk) = 1 /\ HeadOf(in2, t) = <<b, 1>>
      BY <3>1 DEF HeadOf
    <3> HIDE DEF b
    <3>3. b # y[1]
      BY <3>1, <1>p DEF Taken, DirsOf
    <3>4. <<b, 1>> \in Spot /\ <<b, 1>> # y
      BY <1>0, <3>1, <3>3, SizeAssumption DEF Typed, Spot, Index
    <3>5. At(dat2, <<b, 1>>) = At(dat, <<b, 1>>) /\ At(dat, <<b, 1>>).name = Self
      BY <3>1, <3>4 DEF At
    <3> QED BY <3>2, <3>5
  <2> QED BY <1>7, <2>1, <2>2 DEF Headed
<1>13. \A c \in DirsOf(in, fr) : c \in DirsOf(in2, fr \ {t}) /\ BlocksOf(in2, c) = BlocksOf(in, c)
  BY <1>5, <1>7 DEF DirsOf
<1>14. Housed(in2, dat2, fr \ {t})
  BY <1>3, <1>13, <1>p DEF Housed
<1>15. Linked(in2, dat2, fr \ {t})
  BY <1>0, <1>1, <1>2, <1>3, <1>4, <1>b, <1>p DEF Linked
<1>16. LinkedOnce(dat2)
  <2>1. \A x \in Live(dat) : At(dat2, x).ino # t
    BY <1>4, <1>p DEF Linked
  <2> QED BY <1>2, <1>3, <1>4, <2>1, <1>p DEF LinkedOnce
<1>17. AllLinked(dat2, fr \ {t})
  BY <1>1, <1>2, <1>3, <1>4, <1>p DEF AllLinked
<1>18. Distinct(in2, dat2, fr \ {t})
  <2> SUFFICES ASSUME NEW c \in DirsOf(in2, fr \ {t}), NEW x \in Live(dat2), NEW z \in Live(dat2),
                      x[1] \in BlocksOf(in2, c), z[1] \in BlocksOf(in2, c),
                      At(dat2, x).name = At(dat2, z).name
               PROVE  x = z
    BY DEF Distinct
  <2>1. \A w \in Live(dat2) : w[1] \notin bf
    BY <1>3, FreeDead, <1>p DEF Taken, DirsOf
  <2>2. c \in DirsOf(in, fr)
    BY <1>6, <1>7, <2>1
  <2>3. BlocksOf(in2, c) = BlocksOf(in, c) /\ c \in Ino \ fr
    BY <2>2, <1>13 DEF DirsOf
  <2>4. CASE x \in Live(dat) /\ z \in Live(dat)
    BY <1>4, <2>2, <2>3, <2>4, <1>p DEF Distinct
  <2>5. ASSUME NEW w \in Live(dat), w[1] \in BlocksOf(in2, c), y[1] \in BlocksOf(in2, c)
        PROVE  At(dat2, w).name # n
    <3>1. c = d
      BY <2>2, <2>3, <2>5, <1>p DEF OnePlace, BlocksOf, DirsOf
    <3> QED BY <3>1, <2>3, <2>5, <1>4
  <2> QED BY <1>2, <1>3, <2>4, <2>5
<1>19. Owned(in2, fr \ {t}, bf2)
  BY <1>8, <1>9, <1>10 DEF Owned
<1>20. NamesOK(in2, dat2, fr \ {t})
  BY <1>12, <1>14, <1>15, <1>16, <1>17, <1>18 DEF NamesOK
<1> QED BY <1>11, <1>19, <1>20 DEF TreeOK

(* The name at x is taken away, and its inode and blocks given back.       *)
LEMMA DropEntry ==
  ASSUME NEW in, NEW dat, NEW fr, NEW bf, TreeOK(in, dat, fr, bf),
         NEW x \in Live(dat), NEW i, i = At(dat, x).ino,
         i \in DirsOf(in, fr) => \A y \in Live(dat) : y[1] \notin BlocksOf(in, i),
         NEW dat2, Typed(in, dat2, fr \cup {i}, bf \cup BlocksOf(in, i)),
         At(dat2, x).name \notin Name,
         \A y \in Spot : y # x => At(dat2, y) = At(dat, y)
  PROVE  TreeOK(in, dat2, fr \cup {i}, bf \cup BlocksOf(in, i))
<1>p. /\ Typed(in, dat, fr, bf) /\ Covered(in, fr, bf) /\ Taken(in, fr, bf)
      /\ OnePlace(in, fr) /\ Rooted(in, fr)
      /\ Headed(in, dat, fr) /\ Housed(in, dat, fr) /\ Linked(in, dat, fr)
      /\ LinkedOnce(dat) /\ AllLinked(dat, fr) /\ Distinct(in, dat, fr)
  BY DEF TreeOK, Owned, NamesOK
<1>1. i \in Ino \ fr /\ i # Root
  BY <1>p DEF Linked
<1>2. Live(dat2) = Live(dat) \ {x} /\ x \in Spot
  BY DEF Live
<1>3. \A y \in Live(dat2) : y \in Live(dat) /\ At(dat2, y) = At(dat, y)
  BY <1>2 DEF Live
<1>4. DirsOf(in, fr \cup {i}) = DirsOf(in, fr) \ {i} /\ DirsOf(in, fr) \subseteq Ino \ fr
  BY DEF DirsOf
<1>5. Covered(in, fr \cup {i}, bf \cup BlocksOf(in, i))
  BY <1>p DEF Covered
<1>6. Taken(in, fr \cup {i}, bf \cup BlocksOf(in, i))
  <2>1. \A j \in Ino \ fr : j # i => BlocksOf(in, j) \cap BlocksOf(in, i) = {}
    BY <1>1, <1>p DEF OnePlace, BlocksOf
  <2> QED BY <2>1, <1>p DEF Taken
<1>7. OnePlace(in, fr \cup {i})
  BY <1>p DEF OnePlace
<1>8. Rooted(in, fr \cup {i})
  BY <1>1, <1>4, <1>p DEF Rooted
<1>9. Headed(in, dat2, fr \cup {i})
  <2> SUFFICES ASSUME NEW d \in DirsOf(in, fr)
               PROVE  Len(in[d].blk) > 0 /\ At(dat2, HeadOf(in, d)).name = Self
    BY <1>4 DEF Headed
  <2>1. Len(in[d].blk) > 0 /\ At(dat, HeadOf(in, d)).name = Self
    BY <1>p DEF Headed
  <2>2. HeadOf(in, d) \in Spot
    BY <2>1, <1>4, <1>p, HeadSpot
  <2>3. HeadOf(in, d) # x
    BY <2>1, NameFacts DEF Live
  <2> QED BY <2>1, <2>2, <2>3
<1>10. Housed(in, dat2, fr \cup {i})
  BY <1>3, <1>4, <1>p DEF Housed
<1>11. Linked(in, dat2, fr \cup {i})
  BY <1>2, <1>3, <1>p DEF Linked, LinkedOnce
<1>12. LinkedOnce(dat2)
  BY <1>3, <1>p DEF LinkedOnce
<1>13. AllLinked(dat2, fr \cup {i})
  <2> SUFFICES ASSUME NEW j \in Ino \ fr, j # i, j # Root
               PROVE  \E y \in Live(dat2) : At(dat2, y).ino = j
    BY DEF AllLinked
  <2>1. PICK y \in Live(dat) : At(dat, y).ino = j
    BY <1>p DEF AllLinked
  <2>2. y \in Live(dat2)
    BY <2>1, <1>2
  <2> QED BY <2>1, <2>2, <1>3
<1>14. Distinct(in, dat2, fr \cup {i})
  BY <1>3, <1>4, <1>p DEF Distinct
<1>15. Owned(in, fr \cup {i}, bf \cup BlocksOf(in, i))
  BY <1>5, <1>6, <1>7 DEF Owned
<1>16. NamesOK(in, dat2, fr \cup {i})
  BY <1>9, <1>10, <1>11, <1>12, <1>13, <1>14 DEF NamesOK
<1> QED BY <1>8, <1>15, <1>16 DEF TreeOK

(* The entry at x goes to y, which may be x, under the name n.             *)
LEMMA MovedEntry ==
  ASSUME NEW in, NEW dat, NEW fr, NEW bf, TreeOK(in, dat, fr, bf),
         NEW x \in Live(dat), NEW d \in DirsOf(in, fr),
         NEW y \in Spot, y[1] \in BlocksOf(in, d),
         y # x => At(dat, y).name \notin Name /\ \A c \in DirsOf(in, fr) : HeadOf(in, c) # y,
         NEW n \in Name,
         \A z \in Live(dat) : z # x /\ z[1] \in BlocksOf(in, d) => At(dat, z).name # n,
         NEW dat2, Typed(in, dat2, fr, bf),
         At(dat2, y) = Dirent(n, At(dat, x).ino, At(dat, x).type),
         y # x => At(dat2, x).name \notin Name,
         \A z \in Spot : z # y /\ z # x => At(dat2, z) = At(dat, z)
  PROVE  TreeOK(in, dat2, fr, bf)
<1>p. /\ Typed(in, dat, fr, bf) /\ Covered(in, fr, bf) /\ Taken(in, fr, bf)
      /\ OnePlace(in, fr) /\ Rooted(in, fr)
      /\ Headed(in, dat, fr) /\ Housed(in, dat, fr) /\ Linked(in, dat, fr)
      /\ LinkedOnce(dat) /\ AllLinked(dat, fr) /\ Distinct(in, dat, fr)
  BY DEF TreeOK, Owned, NamesOK
<1>1. /\ At(dat2, y).name = n /\ At(dat2, y).ino = At(dat, x).ino
      /\ At(dat2, y).type = At(dat, x).type
  BY DEF Dirent
<1>2. Live(dat2) = (Live(dat) \ {x}) \cup {y} /\ x \in Spot
  BY <1>1, NameFacts DEF Live
<1>3. \A z \in Live(dat2) : z # y => z \in Live(dat) /\ z # x /\ At(dat2, z) = At(dat, z)
  BY <1>2 DEF Live
<1>4. DirsOf(in, fr) \subseteq Ino \ fr
  BY DEF DirsOf
<1>9. Headed(in, dat2, fr)
  <2> SUFFICES ASSUME NEW c \in DirsOf(in, fr)
               PROVE  Len(in[c].blk) > 0 /\ At(dat2, HeadOf(in, c)).name = Self
    BY <1>4 DEF Headed
  <2>1. Len(in[c].blk) > 0 /\ At(dat, HeadOf(in, c)).name = Self
    BY <1>p DEF Headed
  <2>2. HeadOf(in, c) \in Spot
    BY <2>1, <1>4, <1>p, HeadSpot
  <2>3. HeadOf(in, c) # x
    BY <2>1, NameFacts DEF Live
  <2>4. HeadOf(in, c) # y
    BY <2>1, <2>3, NameFacts
  <2> QED BY <2>1, <2>2, <2>3, <2>4
<1>10. Housed(in, dat2, fr)
  BY <1>3, <1>p DEF Housed
<1>11. Linked(in, dat2, fr)
  <2> SUFFICES ASSUME NEW z \in Live(dat2)
               PROVE  /\ At(dat2, z).ino \in Ino \ fr /\ At(dat2, z).ino # Root
                      /\ in[At(dat2, z).ino].type = At(dat2, z).type
    BY DEF Linked
  <2>1. CASE z = y
    BY <2>1, <1>1, <1>p DEF Linked
  <2>2. CASE z # y
    BY <2>2, <1>3, <1>p DEF Linked
  <2> QED BY <2>1, <2>2
<1>12. LinkedOnce(dat2)
  <2>1. \A z \in Live(dat2) : z # y => At(dat2, z).ino # At(dat2, y).ino
    BY <1>1, <1>3, <1>p DEF LinkedOnce
  <2> QED BY <2>1, <1>3, <1>p DEF LinkedOnce
<1>13. AllLinked(dat2, fr)
  <2> SUFFICES ASSUME NEW j \in Ino \ fr, j # Root
               PROVE  \E z \in Live(dat2) : At(dat2, z).ino = j
    BY DEF AllLinked
  <2>1. PICK z \in Live(dat) : At(dat, z).ino = j
    BY <1>p DEF AllLinked
  <2>2. CASE z = x
    BY <2>1, <2>2, <1>1, <1>2
  <2>3. CASE z # x /\ z # y
    BY <2>1, <2>3, <1>2, <1>3
  <2>4. CASE z # x /\ z = y
    BY <2>4, NameFacts DEF Live
  <2> QED BY <2>2, <2>3, <2>4
<1>14. Distinct(in, dat2, fr)
  <2> SUFFICES ASSUME NEW c \in DirsOf(in, fr), NEW w \in Live(dat2), NEW z \in Live(dat2),
                      w[1] \in BlocksOf(in, c), z[1] \in BlocksOf(in, c),
                      At(dat2, w).name = At(dat2, z).name
               PROVE  w = z
    BY DEF Distinct
  <2>1. ASSUME y[1] \in BlocksOf(in, c)
        PROVE  c = d
    BY <2>1, <1>4, <1>p DEF OnePlace, BlocksOf
  <2>2. CASE w # y /\ z # y
    BY <2>2, <1>3, <1>p DEF Distinct
  <2>3. CASE w = y /\ z # y
    BY <2>1, <2>3, <1>1, <1>3
  <2>4. CASE w # y /\ z = y
    BY <2>1, <2>4, <1>1, <1>3
  <2> QED BY <2>2, <2>3, <2>4
<1>15. NamesOK(in, dat2, fr)
  BY <1>9, <1>10, <1>11, <1>12, <1>13, <1>14 DEF NamesOK
<1> QED BY <1>15 DEF TreeOK

(* A set of numbers has a smallest one.                                    *)
LEMMA First ==
  ASSUME NEW S \in SUBSET Nat, S # {}
  PROVE  \E b \in S : \A c \in S : b <= c
  <1> DEFINE R == {ss \in Nat \X Nat : ss[1] < ss[2]}
  <1>1. IsWellFoundedOn(R, Nat)
    BY NatLessThanWellFounded DEF OpToRel
  <1>2. PICK b \in S : \A c \in S : <<c, b>> \notin R
    <2> HIDE DEF R
    <2> QED BY <1>1, WFMin
  <1>3. ASSUME NEW c \in S PROVE b <= c
    <2>1. <<c, b>> \in Nat \X Nat /\ <<c, b>> \notin R /\ c \in Nat /\ b \in Nat
      BY <1>2
    <2>2. ~(c < b)
      BY <2>1
    <2> QED BY <2>1, <2>2
  <1> QED BY <1>3

(* Induction over an interval.                                             *)
LEMMA Climb ==
  ASSUME NEW a \in Nat, NEW z \in Nat, NEW T, a \in T,
         \A i \in a .. z - 1 : i \in T => i + 1 \in T
  PROVE  \A i \in a .. z : i \in T
  <1> DEFINE Bad == {i \in a .. z : i \notin T}
  <1> SUFFICES ASSUME Bad # {} PROVE FALSE
    OBVIOUS
  <1>1. Bad \in SUBSET Nat
    OBVIOUS
  <1>2. PICK b \in Bad : \A c \in Bad : b <= c
    <2> HIDE DEF Bad
    <2> QED BY <1>1, First
  <1>3. b # a /\ b - 1 \in a .. z - 1
    BY <1>2
  <1>4. b - 1 \in T
    BY <1>2, <1>3
  <1> QED BY <1>2, <1>3, <1>4

(* The smallest one is in the set.                                         *)
LEMMA MinIsIn ==
  ASSUME NEW S \in SUBSET Nat, S # {}
  PROVE  Min(S) \in S
BY First DEF Min

(* The allocator finds what is free.                                       *)
LEMMA FirstFreeIsFree ==
  ASSUME NEW S \in SUBSET Nat, S # {}
  PROVE  FirstFree(S) \in S
BY First DEF FirstFree

-----------------------------------------------------------------------------
(* Place k is in block InBlock(k), at AtIndex(k).                          *)
LEMMA PlaceMeans ==
  ASSUME NEW n \in Nat, NEW k \in 1 .. NDirent * n
  PROVE  /\ InBlock(k) \in 1 .. n /\ AtIndex(k) \in Index
         /\ k = (InBlock(k) - 1) * NDirent + AtIndex(k)
<1>1. NDirent \in Nat /\ NDirent > 1 /\ k \in Nat /\ k - 1 \in Nat
  BY SizeAssumption
<1> DEFINE q == (k - 1) \div NDirent
           r == (k - 1) % NDirent
<1>2. q \in Nat /\ r \in 0 .. NDirent - 1 /\ k - 1 = q * NDirent + r
  BY <1>1
<1>3. q < n
  <2> SUFFICES ASSUME n <= q PROVE FALSE
    BY <1>2
  <2>1. NDirent * n <= NDirent * q
    BY <1>1, <1>2
  <2> QED BY <1>1, <1>2, <2>1
<1>4. InBlock(k) = q + 1 /\ AtIndex(k) = r + 1
  BY DEF InBlock, AtIndex
<1> HIDE DEF q, r
<1>5. q + 1 \in 1 .. n /\ r + 1 \in Index
  BY <1>1, <1>2, <1>3 DEF Index
<1>6. k = q * NDirent + (r + 1)
  <2> DEFINE qn == q * NDirent
  <2>1. qn \in Nat /\ k - 1 = qn + r
    BY <1>1, <1>2
  <2> HIDE DEF qn
  <2>2. k = qn + (r + 1)
    BY <1>1, <1>2, <2>1
  <2> QED BY <2>2 DEF qn
<1> QED BY <1>2, <1>4, <1>5, <1>6

(* Every index of every block is a place.                                  *)
LEMMA PlaceOf ==
  ASSUME NEW n \in Nat, NEW m \in 1 .. n, NEW j \in Index
  PROVE  \E k \in 1 .. NDirent * n : InBlock(k) = m /\ AtIndex(k) = j
<1> DEFINE k == (m - 1) * NDirent + j
<1>1. NDirent \in Nat /\ NDirent > 1 /\ m - 1 \in Nat /\ j - 1 \in 0 .. NDirent - 1
  BY SizeAssumption DEF Index
<1>2. (m - 1) * NDirent \in Nat /\ (m - 1) * NDirent + NDirent <= NDirent * n
  <2>0. ASSUME NEW a \in Nat, NEW b \in Nat, a < b
        PROVE  a * NDirent + NDirent <= NDirent * b /\ a * NDirent \in Nat
    BY <1>1, <2>0
  <2>1. m - 1 < n
    OBVIOUS
  <2> QED BY <1>1, <2>0, <2>1
<1>3. k \in 1 .. NDirent * n /\ k - 1 = (m - 1) * NDirent + (j - 1)
  <2> DEFINE mn == (m - 1) * NDirent
             nn == NDirent * n
  <2>1. mn \in Nat /\ nn \in Nat /\ mn + NDirent <= nn /\ k = mn + j /\ j \in 1 .. NDirent
    BY <1>1, <1>2 DEF Index
  <2> HIDE DEF mn, nn, k
  <2>2. k \in 1 .. nn /\ k - 1 = mn + (j - 1)
    BY <1>1, <2>1
  <2> QED BY <2>2 DEF mn, nn
<1>4. (k - 1) \div NDirent = m - 1 /\ (k - 1) % NDirent = j - 1
  <2> DEFINE a == m - 1
             c == j - 1
  <2>1. k - 1 = a * NDirent + c /\ a \in Nat /\ c \in 0 .. NDirent - 1
    BY <1>1, <1>3
  <2> HIDE DEF a, c, k
  <2>2. (a * NDirent + c) \div NDirent = a /\ (a * NDirent + c) % NDirent = c
    BY <1>1, <2>1
  <2> QED BY <2>1, <2>2 DEF a, c
<1>5. InBlock(k) = m /\ AtIndex(k) = j
  BY <1>4 DEF InBlock, AtIndex, Index
<1> QED BY <1>3, <1>5

SpotOf(d, k) == <<inode[d].blk[InBlock(k)], AtIndex(k)>>
Places(d)    == 1 .. NDirent * Len(inode[d].blk)

(* A place of a directory is a spot in one of its blocks.                  *)
LEMMA SpotIn ==
  ASSUME NEW fr, NEW bf, Typed(inode, data, fr, bf), NEW d \in Ino, NEW k \in Places(d)
  PROVE  /\ SpotOf(d, k) \in Spot /\ SpotOf(d, k)[1] \in BlocksOf(inode, d)
         /\ EntryAt(d, k) = At(data, SpotOf(d, k))
         /\ InBlock(k) \in 1 .. Len(inode[d].blk) /\ AtIndex(k) \in Index
<1>1. Len(inode[d].blk) \in Nat
  BY TypedFacts
<1>2. InBlock(k) \in 1 .. Len(inode[d].blk) /\ AtIndex(k) \in Index
  BY <1>1, PlaceMeans DEF Places
<1>3. inode[d].blk[InBlock(k)] \in BlocksOf(inode, d)
  BY <1>2 DEF BlocksOf
<1>4. inode[d].blk[InBlock(k)] \in Blk
  BY <1>3, TypedFacts
<1> QED BY <1>2, <1>3, <1>4 DEF SpotOf, Spot, EntryAt, At

(* A spot in a block of a directory is a place of it.                      *)
LEMMA SpotFrom ==
  ASSUME NEW fr, NEW bf, Typed(inode, data, fr, bf), NEW d \in Ino,
         NEW x \in Spot, x[1] \in BlocksOf(inode, d)
  PROVE  \E k \in Places(d) : SpotOf(d, k) = x
<1>1. Len(inode[d].blk) \in Nat
  BY TypedFacts
<1>2. PICK m \in 1 .. Len(inode[d].blk) : inode[d].blk[m] = x[1]
  BY DEF BlocksOf
<1>3. x[2] \in Index /\ x = <<x[1], x[2]>>
  BY DEF Spot
<1>4. PICK k \in Places(d) : InBlock(k) = m /\ AtIndex(k) = x[2]
  BY <1>1, <1>3, PlaceOf DEF Places
<1> QED BY <1>2, <1>3, <1>4 DEF SpotOf

(* No two places are the same spot.                                        *)
LEMMA SpotOnce ==
  ASSUME NEW fr, NEW bf, Typed(inode, data, fr, bf), OnePlace(inode, fr), NEW d \in Ino \ fr,
         NEW k \in Places(d), NEW l \in Places(d), SpotOf(d, k) = SpotOf(d, l)
  PROVE  k = l
<1>1. Len(inode[d].blk) \in Nat
  BY TypedFacts
<1>2. /\ InBlock(k) \in 1 .. Len(inode[d].blk) /\ InBlock(l) \in 1 .. Len(inode[d].blk)
      /\ k = (InBlock(k) - 1) * NDirent + AtIndex(k)
      /\ l = (InBlock(l) - 1) * NDirent + AtIndex(l)
  BY <1>1, PlaceMeans DEF Places
<1>3. inode[d].blk[InBlock(k)] = inode[d].blk[InBlock(l)] /\ AtIndex(k) = AtIndex(l)
  BY DEF SpotOf
<1>4. InBlock(k) = InBlock(l)
  BY <1>2, <1>3 DEF OnePlace
<1> QED BY <1>2, <1>3, <1>4

(* Find looks at every place.                                              *)
LEMMA FindMeans ==
  ASSUME NEW fr, NEW bf, Typed(inode, data, fr, bf), NEW d \in Ino, NEW n
  PROVE  /\ Has(d, n) => Find(d, n) \in Places(d) /\ EntryAt(d, Find(d, n)).name = n
         /\ ~Has(d, n) => \A k \in Places(d) : EntryAt(d, k).name # n
<1> DEFINE hits == {k \in Places(d) : EntryAt(d, k).name = n}
<1>1. hits \in SUBSET Nat /\ 0 \notin hits
  BY DEF Places
<1>2. Find(d, n) = IF hits = {} THEN 0 ELSE Min(hits)
  BY DEF Find, Places
<1>3. CASE hits = {}
  BY <1>2, <1>3 DEF Has
<1>4. CASE hits # {}
  <2>1. Find(d, n) \in hits
    <3> HIDE DEF hits
    <3> QED BY <1>1, <1>2, <1>4, MinIsIn
  <2> QED BY <1>1, <2>1 DEF Has
<1> QED BY <1>3, <1>4

-----------------------------------------------------------------------------
WalkFrom == [ok |-> TRUE, dir |-> Root, up |-> Root]

WalksTo(w, p, z) == w = [k \in 0 .. z |-> IF k = 0 THEN WalkFrom ELSE Step(w[k - 1], p[k])]

(* There are such walks: each step is computed from the one before.        *)
LEMMA SomeWalk ==
  ASSUME NEW p, NEW z \in Nat
  PROVE  \E w : WalksTo(w, p, z)
  <1> DEFINE T == {m \in 0 .. z : \E w : WalksTo(w, p, m)}
  <1>1. 0 \in T
    <2>1. WalksTo([k \in 0 .. 0 |-> WalkFrom], p, 0)
      BY DEF WalksTo
    <2> QED BY <2>1
  <1>2. ASSUME NEW m \in 0 .. z - 1, m \in T PROVE m + 1 \in T
    <2>1. PICK w : WalksTo(w, p, m)
      BY <1>2
    <2> DEFINE v == [k \in 0 .. m + 1 |-> IF k = m + 1 THEN Step(w[m], p[m + 1]) ELSE w[k]]
    <2>2. \A k \in 0 .. m + 1 : v[k] = IF k = 0 THEN WalkFrom ELSE Step(v[k - 1], p[k])
      <3> SUFFICES ASSUME NEW k \in 0 .. m + 1
                   PROVE  v[k] = IF k = 0 THEN WalkFrom ELSE Step(v[k - 1], p[k])
        OBVIOUS
      <3>1. CASE k = m + 1
        <4>1. k # 0 /\ k - 1 = m /\ m \in 0 .. m + 1 /\ m # m + 1
          BY <3>1
        <4>2. v[k] = Step(w[m], p[k]) /\ v[k - 1] = w[m]
          BY <3>1, <4>1
        <4> QED BY <4>1, <4>2
      <3>2. CASE k # m + 1
        <4>1. k \in 0 .. m /\ v[k] = w[k]
          BY <3>2
        <4>2. k # 0 => k - 1 \in 0 .. m + 1 /\ k - 1 # m + 1 /\ v[k - 1] = w[k - 1]
          BY <4>1
        <4>3. w[k] = IF k = 0 THEN WalkFrom ELSE Step(w[k - 1], p[k])
          BY <2>1, <4>1 DEF WalksTo
        <4> HIDE DEF v
        <4> QED BY <4>1, <4>2, <4>3
      <3> QED BY <3>1, <3>2
    <2>3. v = [k \in 0 .. m + 1 |-> v[k]]
      OBVIOUS
    <2> HIDE DEF v
    <2>4. WalksTo(v, p, m + 1)
      BY <2>2, <2>3 DEF WalksTo
    <2> QED BY <2>4
  <1> HIDE DEF T
  <1>3. z \in T
    <2>1. z \in 0 .. z /\ \A m \in 0 .. z - 1 : m \in T => m + 1 \in T
      BY <1>2
    <2> QED BY <1>1, <2>1, Climb
  <1> QED BY <1>3 DEF T

(* Walk is the last step of one.                                           *)
LEMMA WalkIs ==
  ASSUME NEW p, Len(p) \in Nat
  PROVE  \E w : WalksTo(w, p, Len(p)) /\ Walk(p) = w[Len(p)]
  <1> DEFINE W == CHOOSE w : WalksTo(w, p, Len(p))
  <1>1. WalksTo(W, p, Len(p))
    BY SomeWalk
  <1>2. Walk(p) = W[Len(p)]
    BY DEF Walk, WalksTo, WalkFrom
  <1>3. QED
    <2> HIDE DEF W
    <2> QED BY <1>1, <1>2

(* A step down, of a path of names, stays among the directories in use.    *)
LEMMA StepStays ==
  ASSUME TreeOK(inode, data, ifree, bfree), NEW w, NEW n \in Name,
         w.ok => w.dir \in DirsOf(inode, ifree), Step(w, n).ok
  PROVE  /\ w.ok /\ w.dir \in DirsOf(inode, ifree)
         /\ Step(w, n).dir \in DirsOf(inode, ifree) /\ Step(w, n).up = w.dir
         /\ Has(w.dir, n) /\ Step(w, n).dir = Get(w.dir, n).ino
<1>1. w.ok /\ Has(w.dir, n) /\ Get(w.dir, n).type # "file" 
  BY DEF Step
<1> DEFINE d == w.dir
           k == Find(d, n)
<1>2. d \in DirsOf(inode, ifree) /\ d \in Ino \ ifree
  BY <1>1 DEF DirsOf
<1>3. Typed(inode, data, ifree, bfree) /\ Linked(inode, data, ifree)
  BY DEF TreeOK, NamesOK
<1>4. k \in Places(d) /\ EntryAt(d, k).name = n
  BY <1>1, <1>2, <1>3, FindMeans
<1>5. SpotOf(d, k) \in Live(data) /\ EntryAt(d, k) = At(data, SpotOf(d, k))
  BY <1>2, <1>3, <1>4, SpotIn DEF Live
<1> DEFINE e == EntryAt(d, k)
<1>6. e.ino \in Ino \ ifree /\ inode[e.ino].type = e.type
  BY <1>3, <1>5 DEF Linked
<1>7. e = Get(w.dir, n)
  BY DEF Get
<1>8. e.ino \in DirsOf(inode, ifree)
  <2>1. inode[e.ino].type \in {"file", "dir"}
    BY <1>3, <1>6, TypedFacts DEF Kind, File, Dir
  <2>2. inode[e.ino].type = "dir"
    BY <2>1, <1>1, <1>6, <1>7
  <2> QED BY <2>2, <1>6 DEF DirsOf, Dir
<1>9. Step(w, n) = [ok |-> TRUE, dir |-> e.ino, up |-> w.dir]
  BY <1>1, <1>7 DEF Step
<1> QED BY <1>1, <1>2, <1>7, <1>8, <1>9

(* A walk that arrives ends in a directory in use, and so does the one that*)
(* stops one step before.                                                  *)
LEMMA WalkEnds ==
  ASSUME TreeOK(inode, data, ifree, bfree), NEW p \in Seq(Name), Walk(p).ok
  PROVE  /\ Walk(p).dir \in DirsOf(inode, ifree) /\ Walk(p).up \in DirsOf(inode, ifree)
         /\ Len(p) = 0 => Walk(p) = WalkFrom
<1>0. Len(p) \in Nat /\ \A k \in 1 .. Len(p) : p[k] \in Name
  OBVIOUS
<1>1. PICK w : WalksTo(w, p, Len(p)) /\ Walk(p) = w[Len(p)]
  BY <1>0, WalkIs
<1>2. \A k \in 0 .. Len(p) : w[k] = IF k = 0 THEN WalkFrom ELSE Step(w[k - 1], p[k])
  BY <1>1 DEF WalksTo
<1> DEFINE D == DirsOf(inode, ifree)
           T == {k \in 0 .. Len(p) : w[k].ok => w[k].dir \in D /\ w[k].up \in D}
<1>3. 0 \in T
  BY <1>0, <1>2 DEF WalkFrom, TreeOK, Rooted
<1>4. ASSUME NEW k \in 0 .. Len(p) - 1, k \in T PROVE k + 1 \in T
  <2>1. k + 1 \in 1 .. Len(p) /\ w[k + 1] = Step(w[k], p[k + 1]) /\ p[k + 1] \in Name
    BY <1>0, <1>2
  <2>2. ASSUME w[k + 1].ok PROVE w[k + 1].dir \in D /\ w[k + 1].up \in D
    BY <1>4, <2>1, <2>2, StepStays
  <2> QED BY <2>1, <2>2
<1>5. Len(p) \in T
  <2> HIDE DEF T
  <2>1. \A k \in 0 .. Len(p) : k \in T
    BY <1>0, <1>3, <1>4, Climb
  <2> QED BY <1>0, <2>1
<1> QED BY <1>1, <1>2, <1>5

TreeNow == TreeOK(inode, data, ifree, bfree)
TreeNext == TreeOK(inode', data', ifree', bfree')

Write(dat, y, e) == [dat EXCEPT ![y[1]][y[2]] = e]
SetNode(in, t, node) == [in EXCEPT ![t] = node]

(* One entry is replaced.                                                  *)
LEMMA Put ==
  ASSUME NEW dat \in [Blk -> [Index -> Ent]], NEW y \in Spot, NEW e \in Ent, NEW dat2,
         dat2 = Write(dat, y, e)
  PROVE  /\ dat2 \in [Blk -> [Index -> Ent]]
         /\ At(dat2, y) = e
         /\ \A x \in Spot : x # y => At(dat2, x) = At(dat, x)
         /\ \A b \in Blk : b # y[1] => dat2[b] = dat[b]
<1>1. y[1] \in Blk /\ y[2] \in Index
  BY DEF Spot
<1>2. dat2 \in [Blk -> [Index -> Ent]] /\ dat2[y[1]][y[2]] = e
  BY <1>1 DEF Write
<1>3. ASSUME NEW x \in Spot, x # y PROVE At(dat2, x) = At(dat, x)
  <2>1. x[1] \in Blk /\ x[2] \in Index /\ (x[1] # y[1] \/ x[2] # y[2])
    BY <1>3 DEF Spot
  <2> QED BY <1>1, <2>1 DEF At, Write
<1>4. \A b \in Blk : b # y[1] => dat2[b] = dat[b]
  BY <1>1 DEF Write
<1> QED BY <1>2, <1>3, <1>4 DEF At

(* What is made of a name, an inode number and a type is an entry.         *)
LEMMA DirentIn ==
  ASSUME NEW n \in Name \cup {"", ".", ".."}, NEW i \in Ino, NEW t \in Kind
  PROVE  Dirent(n, i, t) \in Ent
BY DEF Dirent, Ent

(* The null entry has no name.                                             *)
LEMMA NullIn == Null \in Ent /\ Null.name = NoName /\ Null.name \notin Name
<1>1. 0 \in Ino /\ "file" \in Kind
  BY InoAssumption DEF Kind, File
<1>2. Null \in Ent
  BY <1>1 DEF Null, DirentIn, Dirent, Ent
<1>3. Null.name = ""
  BY DEF Null, Dirent
<1> QED BY <1>2, <1>3, NameFacts DEF NoName

(* The first place without a name in a directory that has one.             *)
LEMMA RoomMeans ==
  ASSUME TreeNow, NEW d \in DirsOf(inode, ifree), Has(d, NoName)
  PROVE  LET y == SpotOf(d, Find(d, NoName)) IN
         /\ y \in Spot /\ y[1] \in BlocksOf(inode, d)
         /\ At(data, y).name = NoName /\ At(data, y).name \notin Name
         /\ \A c \in DirsOf(inode, ifree) : HeadOf(inode, c) # y
         /\ \A e : WithEntry(d, Find(d, NoName), e) = Write(data, y, e)
<1> DEFINE k == Find(d, NoName)
           y == SpotOf(d, k)
<1>1. Typed(inode, data, ifree, bfree) /\ d \in Ino
  BY DEF TreeNow, TreeOK, DirsOf
<1>2. k \in Places(d) /\ EntryAt(d, k).name = NoName
  BY <1>1, FindMeans DEF NoName
<1>3. y \in Spot /\ y[1] \in BlocksOf(inode, d) /\ At(data, y).name = NoName
  BY <1>1, <1>2, SpotIn
<1>4. At(data, y).name \notin Name /\ \A c \in DirsOf(inode, ifree) : HeadOf(inode, c) # y
  <2> HIDE DEF y
  <2> QED BY <1>3, NotHead DEF TreeNow
<1>5. \A e : WithEntry(d, k, e) = Write(data, y, e)
  BY DEF WithEntry, SpotOf, Write
<1> QED BY <1>3, <1>4, <1>5

(* A name that is not found is not there.                                  *)
LEMMA NewName ==
  ASSUME TreeNow, NEW d \in DirsOf(inode, ifree), NEW n \in Name, ~Has(d, n)
  PROVE  \A x \in Live(data) : x[1] \in BlocksOf(inode, d) => At(data, x).name # n
<1>1. Typed(inode, data, ifree, bfree) /\ d \in Ino
  BY DEF TreeNow, TreeOK, DirsOf
<1>2. \A k \in Places(d) : EntryAt(d, k).name # n
  BY <1>1, FindMeans
<1>3. ASSUME NEW x \in Live(data), x[1] \in BlocksOf(inode, d) PROVE At(data, x).name # n
  <2>1. PICK k \in Places(d) : SpotOf(d, k) = x
    BY <1>1, <1>3, SpotFrom DEF Live
  <2> QED BY <1>1, <1>2, <2>1, SpotIn
<1> QED BY <1>3

(* A directory takes one more block.                                       *)
LEMMA Growing ==
  ASSUME TreeNow, NEW d \in DirsOf(inode, ifree), ~Has(d, NoName), ~Full(d), NEW b \in bfree
  PROVE  LET y == <<b, 1>> IN
         /\ TreeOK(Grown(d, b), data, ifree, bfree \ {b})
         /\ d \in DirsOf(Grown(d, b), ifree)
         /\ \A i \in Ino : i # d => Grown(d, b)[i] = inode[i]
         /\ \A x \in Live(data) : x[1] \in BlocksOf(Grown(d, b), d) => x[1] \in BlocksOf(inode, d)
         /\ BlocksOf(Grown(d, b), d) \subseteq BlocksOf(inode, d) \cup {b}
         /\ y \in Spot /\ y[1] \in BlocksOf(Grown(d, b), d)
         /\ At(data, y).name \notin Name
         /\ \A c \in DirsOf(Grown(d, b), ifree) : HeadOf(Grown(d, b), c) # y
<1> DEFINE in2 == Grown(d, b)
           y == <<b, 1>>
<1>1. Typed(inode, data, ifree, bfree) /\ d \in Ino /\ d \in Ino \ ifree /\ b \in Blk
  BY DEF TreeNow, TreeOK, DirsOf, Typed
<1>2. inode[d].blk \in Seq(Blk) /\ Len(inode[d].blk) \in Nat /\ inode[d].type \in Kind
      /\ inode[d] \in Node
  BY <1>1, TypedFacts DEF Typed
<1>3. Len(inode[d].blk) < NDirect
  <2>1. Len(inode[d].blk) <= NDirect /\ Len(inode[d].blk) # NDirect /\ NDirect \in Nat
    BY <1>1, SizeAssumption DEF Full, Typed, NoName
  <2> QED BY <2>1, <1>2
<1>4. /\ in2 \in [Ino -> Node] /\ \A i \in Ino : i # d => in2[i] = inode[i]
      /\ in2[d].type = inode[d].type /\ in2[d].blk = Append(inode[d].blk, b)
  <2>1. Append(inode[d].blk, b) \in Seq(Blk)
    BY <1>1, <1>2
  <2>2. [inode[d] EXCEPT !.blk = Append(@, b)] \in Node
    BY <1>2, <2>1 DEF Node
  <2>3. in2 = [inode EXCEPT ![d] = [inode[d] EXCEPT !.blk = Append(@, b)]]
    BY DEF Grown
  <2> DEFINE node == [inode[d] EXCEPT !.blk = Append(@, b)]
  <2>4. node.type = inode[d].type /\ node.blk = Append(inode[d].blk, b)
    BY <1>2 DEF Node
  <2>5. inode \in [Ino -> Node]
    BY <1>1 DEF Typed
  <2> HIDE DEF node
  <2>6. in2 = [inode EXCEPT ![d] = node] /\ node \in Node
    BY <2>2, <2>3 DEF node
  <2> HIDE DEF in2
  <2> QED BY <1>1, <2>4, <2>5, <2>6
<1>5. \A i \in Ino : Len(in2[i].blk) <= NDirect
  <2> HIDE DEF in2
  <2>1. Len(in2[d].blk) = Len(inode[d].blk) + 1
    BY <1>1, <1>2, <1>4
  <2>2. Len(in2[d].blk) <= NDirect
    BY <1>2, <1>3, <2>1, SizeAssumption
  <2> QED BY <1>1, <1>4, <2>2 DEF Typed
<1>6. Typed(in2, data, ifree, bfree \ {b})
  BY <1>1, <1>4, <1>5 DEF Typed
<1>7. TreeOK(in2, data, ifree, bfree \ {b})
  <2> HIDE DEF in2
  <2> QED BY <1>1, <1>4, <1>6, TakeBlock DEF TreeNow
<1>8. d \in DirsOf(in2, ifree)
  BY <1>4 DEF DirsOf
<1>9. BlocksOf(in2, d) = BlocksOf(inode, d) \cup {b}
  <2> DEFINE s == inode[d].blk
  <2>1. s \in Seq(Blk) /\ in2[d].blk = Append(s, b)
    BY <1>2, <1>4
  <2> HIDE DEF s, in2
  <2>2. /\ Len(Append(s, b)) = Len(s) + 1 /\ Len(s) \in Nat
        /\ \A k \in 1 .. Len(s) : Append(s, b)[k] = s[k]
        /\ Append(s, b)[Len(s) + 1] = b
    BY <1>1, <2>1
  <2>3. BlocksOf(in2, d) = {s[k] : k \in 1 .. Len(s)} \cup {b}
    BY <2>1, <2>2 DEF BlocksOf
  <2> QED BY <2>3 DEF BlocksOf, s
<1>10. \A x \in Live(data) : x[1] # b
  BY FreeDead DEF TreeNow
<1>11. y \in Spot /\ y[1] = b
  BY <1>1, SizeAssumption DEF Spot, Index
<1>12. y \notin Live(data)
  BY <1>10, <1>11
<1>13. ASSUME NEW c \in DirsOf(in2, ifree) PROVE HeadOf(in2, c) # y
  <2>1. HeadOf(in2, c)[1] \in BlocksOf(inode, c) /\ c \in Ino \ ifree
    <3>1. c \in DirsOf(inode, ifree)
      BY <1>4, <1>13 DEF DirsOf
    <3>2. Len(inode[c].blk) > 0 /\ c \in Ino /\ Len(inode[c].blk) \in Nat
      BY <1>1, <3>1, TypedFacts DEF TreeNow, TreeOK, NamesOK, Headed, DirsOf
    <3>3. in2[c].blk[1] = inode[c].blk[1]
      BY <1>1, <1>2, <1>4, <3>2
    <3> QED BY <3>1, <3>2, <3>3 DEF HeadOf, BlocksOf, DirsOf
  <2>2. HeadOf(in2, c)[1] # b
    BY <2>1 DEF TreeNow, TreeOK, Owned, Taken
  <2> QED BY <1>11, <2>2
<1> HIDE DEF in2, y
<1> QED BY <1>4, <1>7, <1>8, <1>9, <1>10, <1>11, <1>12, <1>13 DEF Live, in2, y

(* What is written into free blocks matters to nobody, unless it looks like*)
(* names.                                                                  *)
LEMMA Scribble ==
  ASSUME NEW in, NEW dat, NEW fr, NEW bf, TreeOK(in, dat, fr, bf),
         NEW dat2 \in [Blk -> [Index -> Ent]],
         \A c \in Blk \ bf : dat2[c] = dat[c],
         \A c \in bf : \A j \in Index : dat2[c][j].name \notin Name
  PROVE  /\ TreeOK(in, dat2, fr, bf)
         /\ Live(dat2) = Live(dat) /\ \A x \in Live(dat) : At(dat2, x) = At(dat, x)
         /\ \A x \in Spot : x[1] \notin bf => At(dat2, x) = At(dat, x)
<1>1. /\ Typed(in, dat, fr, bf) /\ Headed(in, dat, fr) /\ Taken(in, fr, bf)
  BY DEF TreeOK, NamesOK, Owned
<1>2. \A x \in Spot : x[1] \notin bf => At(dat2, x) = At(dat, x)
  BY DEF Spot, At
<1>3. \A x \in Live(dat) : x[1] \notin bf /\ x \in Spot
  BY FreeDead DEF Live
<1>4. \A x \in Live(dat2) : x[1] \notin bf /\ x \in Spot
  BY DEF Live, Spot, At
<1>5. Live(dat2) = Live(dat) /\ \A x \in Live(dat) : At(dat2, x) = At(dat, x)
  BY <1>2, <1>3, <1>4 DEF Live
<1>6. Typed(in, dat2, fr, bf)
  BY <1>1 DEF Typed
<1>7. ASSUME NEW d \in DirsOf(in, fr) PROVE At(dat2, HeadOf(in, d)).name = Self
  <2>1. d \in Ino \ fr /\ Len(in[d].blk) > 0 /\ At(dat, HeadOf(in, d)).name = Self
    BY <1>1 DEF Headed, DirsOf
  <2>2. HeadOf(in, d) \in Spot
    BY <1>1, <2>1, HeadSpot
  <2>3. HeadOf(in, d)[1] \in BlocksOf(in, d)
    BY <1>1, <2>1, TypedFacts DEF HeadOf, BlocksOf
  <2>4. HeadOf(in, d)[1] \notin bf
    BY <1>1, <2>1, <2>3 DEF Taken
  <2> QED BY <1>2, <2>1, <2>2, <2>4
<1> QED BY <1>2, <1>5, <1>6, <1>7, Unseen

(* One inode is replaced.                                                  *)
LEMMA NewInode ==
  ASSUME NEW in \in [Ino -> Node], \A i \in Ino : Len(in[i].blk) <= NDirect,
         NEW t \in Ino, NEW node \in Node, Len(node.blk) <= NDirect,
         NEW in2, in2 = SetNode(in, t, node)
  PROVE  /\ in2 \in [Ino -> Node] /\ \A i \in Ino : Len(in2[i].blk) <= NDirect
         /\ in2[t] = node /\ \A i \in Ino : i # t => in2[i] = in[i]
BY DEF SetNode

(* A file begins without blocks.                                           *)
LEMMA EmptyNode ==
  ASSUME NEW ty \in Kind, NEW dat, NEW bf
  PROVE  /\ Inode(ty, << >>) \in Node /\ Len(Inode(ty, << >>).blk) <= NDirect
         /\ NewNode(Inode(File, << >>), File, dat, bf, bf)
<1>1. << >> \in Seq(Blk) /\ Len(<< >>) = 0 /\ NDirect \in Nat
  BY SizeAssumption
<1> DEFINE s == << >>
<1>2. s \in Seq(Blk) /\ Len(s) = 0 /\ 0 <= NDirect
  BY <1>1
<1> HIDE DEF s
<1>3. Inode(ty, s) \in Node /\ Inode(ty, s).blk = s /\ Inode(File, s).blk = s /\ Inode(File, s).type = File
  BY <1>2 DEF Inode, Node
<1> QED BY <1>2, <1>3 DEF NewNode, s

(* A directory begins with one block, which begins with its own entry.     *)
LEMMA DirNode ==
  ASSUME NEW b \in Blk, NEW dat, NEW bf, b \in bf, dat[b][1].name = Self
  PROVE  /\ Inode(Dir, <<b>>) \in Node /\ Len(Inode(Dir, <<b>>).blk) <= NDirect
         /\ NewNode(Inode(Dir, <<b>>), Dir, dat, bf, bf \ {b})
<1> DEFINE s == <<b>>
<1>1. s \in Seq(Blk) /\ Len(s) = 1 /\ s[1] = b /\ 1 <= NDirect
  BY SizeAssumption
<1> HIDE DEF s
<1>2. Inode(Dir, s) \in Node /\ Inode(Dir, s).blk = s /\ Inode(Dir, s).type = Dir
  BY <1>1, KindFacts DEF Inode, Node
<1> QED BY <1>1, <1>2 DEF NewNode, s

(* NewEntry, with the inode and the entry that the handlers write.         *)
LEMMA MakeEntry ==
  ASSUME NEW in, NEW dat, NEW fr, NEW bf, TreeOK(in, dat, fr, bf),
         NEW d \in DirsOf(in, fr), NEW y \in Spot, y[1] \in BlocksOf(in, d),
         At(dat, y).name \notin Name, \A c \in DirsOf(in, fr) : HeadOf(in, c) # y,
         NEW t \in fr, NEW n \in Name, NEW ty \in Kind,
         \A x \in Live(dat) : x[1] \in BlocksOf(in, d) => At(dat, x).name # n,
         NEW node \in Node, Len(node.blk) <= NDirect,
         NEW bf2, bf2 \subseteq bf, NewNode(node, ty, dat, bf, bf2),
         NEW in2, in2 = SetNode(in, t, node),
         NEW dat2, dat2 = Write(dat, y, Dirent(n, t, ty))
  PROVE  TreeOK(in2, dat2, fr \ {t}, bf2)
<1>1. Typed(in, dat, fr, bf)
  BY DEF TreeOK
<1>2. t \in Ino /\ in \in [Ino -> Node] /\ \A i \in Ino : Len(in[i].blk) <= NDirect
  BY <1>1 DEF Typed
<1>3. /\ in2 \in [Ino -> Node] /\ \A i \in Ino : Len(in2[i].blk) <= NDirect
      /\ in2[t] = node /\ \A i \in Ino : i # t => in2[i] = in[i]
  BY <1>2, NewInode
<1>4. dat \in [Blk -> [Index -> Ent]] /\ Dirent(n, t, ty) \in Ent
  BY <1>1, <1>2, DirentIn DEF Typed
<1>5. /\ dat2 \in [Blk -> [Index -> Ent]] /\ At(dat2, y) = Dirent(n, t, ty)
      /\ \A x \in Spot : x # y => At(dat2, x) = At(dat, x)
  BY <1>4, Put
<1>6. Typed(in2, dat2, fr \ {t}, bf2)
  BY <1>1, <1>3, <1>5 DEF Typed
<1>7. NewNode(in2[t], ty, dat, bf, bf2) /\ \A i \in Ino \ fr : in2[i] = in[i]
  BY <1>3
<1> QED BY <1>5, <1>6, <1>7, NewEntry

(* The dots come first, and are no names.                                  *)
LEMMA DotsMean ==
  ASSUME NEW ents \in [Index -> Ent], \A j \in Index : ents[j].name \notin Name,
         NEW t \in Ino, NEW d \in Ino
  PROVE  /\ Dots(ents, t, d) \in [Index -> Ent] /\ Dots(ents, t, d)[1].name = Self
         /\ \A j \in Index : Dots(ents, t, d)[j].name \notin Name
<1> DEFINE e1 == Dirent(".", t, "dir")
           e2 == Dirent("..", d, "dir")
<1>1. "dir" \in Kind
  BY DEF Kind, Dir
<1>2. e1 \in Ent /\ e2 \in Ent
  BY <1>1, DirentIn
<1>3. e1.name = Self /\ e1.name \notin Name /\ e2.name \notin Name
  BY NameAssumption DEF Dirent, Self
<1>4. Dots(ents, t, d) = [ents EXCEPT ![1] = e1, ![2] = e2]
  BY DEF Dots
<1> HIDE DEF e1, e2
<1>5. 1 \in Index /\ 2 \in Index
  BY SizeAssumption DEF Index
<1> QED BY <1>2, <1>3, <1>4, <1>5

(* An empty block holds no names.                                          *)
LEMMA EmptyMeans ==
  Empty \in [Index -> Ent] /\ \A j \in Index : Empty[j] = Null /\ Empty[j].name \notin Name
BY NullIn DEF Empty, Index

-----------------------------------------------------------------------------
(* __create_file keeps the tree.                                           *)
LEMMA CreateKeeps ==
  ASSUME TreeNow, NEW d \in DirsOf(inode, ifree), NEW p, Last(p) \in Name, ~Has(d, Last(p)),
         ifree # {}, ~Full(d), NEW heard \in BOOLEAN, CreateFile(d, p, heard)
  PROVE  TreeNext
<1> DEFINE n == Last(p)
           t == FirstFree(ifree)
           b == FirstFree(bfree)
<1>1. Typed(inode, data, ifree, bfree)
  BY DEF TreeNow, TreeOK
<1>2. t \in ifree /\ (bfree # {} => b \in bfree)
  BY <1>1, InoAssumption, BlkAssumption, FirstFreeIsFree DEF Typed
<1> DEFINE node == Inode(File, << >>)
<1>3. node \in Node /\ Len(node.blk) <= NDirect
  BY EmptyNode, KindFacts
<1>4. \A bf : NewNode(node, File, data, bf, bf)
  BY EmptyNode, KindFacts
<1>5. \A x \in Live(data) : x[1] \in BlocksOf(inode, d) => At(data, x).name # n
  BY NewName
<1>6. n \in Name /\ File \in Kind
  BY KindFacts
<1> HIDE DEF node, n, t, b
<1>7. CASE /\ Has(d, NoName) /\ ifree # {}
           /\ data' = WithEntry(d, Find(d, NoName), Dirent(n, t, File))
           /\ inode' = [inode EXCEPT ![t] = node] /\ ifree' = ifree \ {t} /\ bfree' = bfree
  <2> DEFINE y == SpotOf(d, Find(d, NoName))
  <2>1. /\ y \in Spot /\ y[1] \in BlocksOf(inode, d)
        /\ At(data, y).name \notin Name
        /\ \A c \in DirsOf(inode, ifree) : HeadOf(inode, c) # y
        /\ data' = Write(data, y, Dirent(n, t, File))
    BY <1>7, RoomMeans
  <2> HIDE DEF y
  <2>2. TreeOK(inode, data, ifree, bfree) /\ t \in ifree /\ bfree \subseteq bfree
    BY <1>2, <1>7 DEF TreeNow
  <2>3. inode' = SetNode(inode, t, node)
    BY <1>7 DEF SetNode
  <2>4. NewNode(node, File, data, bfree, bfree)
    BY <1>4
  <2>5. TreeOK(inode', data', ifree \ {t}, bfree)
    BY <1>3, <1>5, <1>6, <2>1, <2>2, <2>3, <2>4, MakeEntry
  <2> QED BY <1>7, <2>5 DEF TreeNext
<1>8. CASE /\ ~Has(d, NoName) /\ ifree # {} /\ bfree # {}
           /\ inode' = [Grown(d, b) EXCEPT ![t] = node]
           /\ data' = [data EXCEPT ![b][1] = Dirent(n, t, File)]
           /\ ifree' = ifree \ {t} /\ bfree' = bfree \ {b}
  <2> DEFINE y == <<b, 1>>
             in1 == Grown(d, b)
  <2>1. /\ TreeOK(in1, data, ifree, bfree \ {b}) /\ d \in DirsOf(in1, ifree)
        /\ \A x \in Live(data) : x[1] \in BlocksOf(in1, d) => x[1] \in BlocksOf(inode, d)
        /\ y \in Spot /\ y[1] \in BlocksOf(in1, d)
        /\ At(data, y).name \notin Name
        /\ \A c \in DirsOf(in1, ifree) : HeadOf(in1, c) # y
    BY <1>2, <1>8, Growing
  <2>2. data' = Write(data, y, Dirent(n, t, File))
    BY <1>8 DEF Write
  <2> HIDE DEF y, in1
  <2>3. \A x \in Live(data) : x[1] \in BlocksOf(in1, d) => At(data, x).name # n
    BY <1>5, <2>1
  <2>4. inode' = SetNode(in1, t, node)
    BY <1>8 DEF in1, SetNode
  <2>5. NewNode(node, File, data, bfree \ {b}, bfree \ {b})
    BY <1>4
  <2> DEFINE bf1 == bfree \ {b}
  <2>6. TreeOK(in1, data, ifree, bf1) /\ bf1 \subseteq bf1 /\ NewNode(node, File, data, bf1, bf1)
    BY <2>1, <2>5
  <2>7. t \in ifree
    BY <1>2, <1>8
  <2> HIDE DEF bf1
  <2>8. TreeOK(inode', data', ifree \ {t}, bf1)
    BY <1>3, <1>6, <2>1, <2>2, <2>3, <2>4, <2>6, <2>7, MakeEntry
  <2> QED BY <1>8, <2>8 DEF TreeNext, bf1
<1>9. CASE UNCHANGED <<inode, data, ifree, bfree>>
  BY <1>9 DEF TreeNow, TreeNext
<1> QED BY <1>7, <1>8, <1>9 DEF CreateFile, GoWild, NoName, File, node, n, t, b

(* MakeDirentry keeps it.                                                  *)
LEMMA MkdirKeeps ==
  ASSUME TreeNow, NEW d \in DirsOf(inode, ifree), NEW p, Last(p) \in Name, ~Has(d, Last(p)),
         NEW heard \in BOOLEAN, MakeDirentry(d, p, heard)
  PROVE  TreeNext
<1> DEFINE n == Last(p)
           t == FirstFree(ifree)
           b == FirstFree(bfree)
           c == FirstFree(bfree \ {b})
<1>1. Typed(inode, data, ifree, bfree) /\ d \in Ino
  BY DEF TreeNow, TreeOK, DirsOf
<1>2. (ifree # {} => t \in ifree /\ t \in Ino) /\ (bfree # {} => b \in bfree)
  BY <1>1, InoAssumption, BlkAssumption, FirstFreeIsFree DEF Typed
<1>3. Cardinality(bfree) > 1 => bfree # {} /\ c \in bfree \ {b}
  <2> SUFFICES ASSUME Cardinality(bfree) > 1 PROVE bfree # {} /\ bfree \ {b} # {}
    BY <1>1, BlkAssumption, FirstFreeIsFree DEF Typed
  <2>1. bfree # {}
    BY FS_EmptySet
  <2>2. bfree \ {b} = {} => bfree = {b}
    BY <1>2, <2>1
  <2>3. Cardinality({b}) = 1
    BY FS_Singleton
  <2> QED BY <2>1, <2>2, <2>3
<1>5. \A x \in Live(data) : x[1] \in BlocksOf(inode, d) => At(data, x).name # n
  BY NewName
<1>6. n \in Name /\ Dir \in Kind
  BY KindFacts
<1>a. \A x \in bfree : x \in Blk /\ data[x] \in [Index -> Ent] /\ \A j \in Index : data[x][j].name \notin Name
  <2>1. \A x \in Live(data) : x[1] \notin bfree
    BY FreeDead DEF TreeNow
  <2>2. ASSUME NEW x \in bfree, NEW j \in Index PROVE data[x][j].name \notin Name
    <3>1. <<x, j>> \in Spot /\ <<x, j>>[1] = x
      BY <1>1 DEF Typed, Spot
    <3>2. <<x, j>> \notin Live(data)
      BY <2>1, <3>1
    <3> QED BY <3>1, <3>2 DEF Live, At
  <2> QED BY <1>1, <2>2 DEF Typed
<1> HIDE DEF n, t, b, c
<1>7. CASE /\ Has(d, NoName) /\ ifree # {} /\ bfree # {}
           /\ data' = [WithEntry(d, Find(d, NoName), Dirent(n, t, Dir)) EXCEPT ![b] = Dots(data[b], t, d)]
           /\ inode' = [inode EXCEPT ![t] = Inode(Dir, <<b>>)]
           /\ ifree' = ifree \ {t} /\ bfree' = bfree \ {b}
  <2> DEFINE y == SpotOf(d, Find(d, NoName))
             new == Dots(data[b], t, d)
             dat1 == [data EXCEPT ![b] = new]
             e == Dirent(n, t, Dir)
  <2>1. /\ y \in Spot /\ y[1] \in BlocksOf(inode, d)
        /\ At(data, y).name \notin Name
        /\ \A x \in DirsOf(inode, ifree) : HeadOf(inode, x) # y
        /\ WithEntry(d, Find(d, NoName), e) = Write(data, y, e)
    BY <1>7, RoomMeans
  <2> HIDE DEF y
  <2>2. b \in bfree /\ b \in Blk /\ t \in ifree /\ t \in Ino /\ y[1] \in Blk /\ y[2] \in Index
    BY <1>1, <1>2, <1>7, <2>1 DEF Typed, Spot
  <2>3. y[1] # b
    BY <2>1, <2>2 DEF TreeNow, TreeOK, Owned, Taken, DirsOf
  <2>4. new \in [Index -> Ent] /\ new[1].name = Self /\ \A j \in Index : new[j].name \notin Name
    BY <1>1, <1>a, <2>2, DotsMean
  <2> HIDE DEF new
  <2>5. /\ dat1 \in [Blk -> [Index -> Ent]] /\ dat1[b] = new
        /\ \A x \in Blk : x # b => dat1[x] = data[x]
    BY <1>1, <2>2, <2>4 DEF Typed
  <2>6. data' = Write(dat1, y, e)
    <3>1. data' = [Write(data, y, e) EXCEPT ![b] = new]
      BY <1>7, <2>1 DEF new
    <3>2. data \in [Blk -> [Index -> Ent]]
      BY <1>1 DEF Typed
    <3> QED BY <2>2, <2>3, <3>1, <3>2 DEF Write
  <2> HIDE DEF dat1
  <2>7. /\ TreeOK(inode, dat1, ifree, bfree)
        /\ Live(dat1) = Live(data) /\ \A x \in Live(data) : At(dat1, x) = At(data, x)
        /\ At(dat1, y) = At(data, y)
    <3>1. /\ \A x \in Blk \ bfree : dat1[x] = data[x]
          /\ \A x \in bfree : \A j \in Index : dat1[x][j].name \notin Name
      BY <1>a, <2>2, <2>4, <2>5
    <3>2. y[1] \notin bfree
      BY <2>1 DEF TreeNow, TreeOK, Owned, Taken, DirsOf
    <3> QED BY <2>1, <2>5, <3>1, <3>2, Scribble DEF TreeNow
  <2>8. /\ Inode(Dir, <<b>>) \in Node /\ Len(Inode(Dir, <<b>>).blk) <= NDirect
        /\ NewNode(Inode(Dir, <<b>>), Dir, dat1, bfree, bfree \ {b})
    BY <2>2, <2>4, <2>5, DirNode
  <2> DEFINE node == Inode(Dir, <<b>>)
  <2>9. inode' = SetNode(inode, t, node) /\ bfree \ {b} \subseteq bfree
    BY <1>7 DEF SetNode
  <2>10. \A x \in Live(dat1) : x[1] \in BlocksOf(inode, d) => At(dat1, x).name # n
    BY <1>5, <2>7
  <2>11. data' = Write(dat1, y, Dirent(n, t, Dir)) /\ At(dat1, y).name \notin Name
    BY <2>1, <2>6, <2>7
  <2>12. node \in Node /\ Len(node.blk) <= NDirect /\ NewNode(node, Dir, dat1, bfree, bfree \ {b})
    BY <2>8
  <2> HIDE DEF node, e
  <2>13. TreeOK(inode', data', ifree \ {t}, bfree \ {b})
    BY <1>6, <2>1, <2>2, <2>7, <2>9, <2>10, <2>11, <2>12, MakeEntry
  <2> QED BY <1>7, <2>13 DEF TreeNext
<1>8. CASE /\ ~Has(d, NoName) /\ ~Full(d) /\ bfree # {}
           /\ inode' = Grown(d, b) /\ bfree' = bfree \ {b} /\ data' = data /\ ifree' = ifree
  BY <1>2, <1>8, Growing DEF TreeNext
<1>9. CASE /\ ~Has(d, NoName) /\ ~Full(d) /\ ifree # {} /\ Cardinality(bfree) > 1
           /\ data' = [data EXCEPT ![b][1] = Dirent(n, t, Dir), ![c] = Dots(Empty, t, d)]
           /\ inode' = [Grown(d, b) EXCEPT ![t] = Inode(Dir, <<c>>)]
           /\ ifree' = ifree \ {t} /\ bfree' = bfree \ {b, c}
  <2> DEFINE y == <<b, 1>>
             in1 == Grown(d, b)
             bf1 == bfree \ {b}
             new == Dots(Empty, t, d)
             dat1 == [data EXCEPT ![c] = new]
             e == Dirent(n, t, Dir)
             node == Inode(Dir, <<c>>)
  <2>2. /\ b \in bfree /\ b \in Blk /\ t \in ifree /\ t \in Ino /\ c \in bf1 /\ c \in Blk /\ b # c
        /\ 1 \in Index
    BY <1>1, <1>2, <1>3, <1>9, SizeAssumption DEF Typed, Index
  <2>1. /\ TreeOK(in1, data, ifree, bf1) /\ d \in DirsOf(in1, ifree)
        /\ \A x \in Live(data) : x[1] \in BlocksOf(in1, d) => x[1] \in BlocksOf(inode, d)
        /\ y \in Spot /\ y[1] \in BlocksOf(in1, d)
        /\ At(data, y).name \notin Name
        /\ \A x \in DirsOf(in1, ifree) : HeadOf(in1, x) # y
    BY <1>9, <2>2, Growing
  <2>4. new \in [Index -> Ent] /\ new[1].name = Self /\ \A j \in Index : new[j].name \notin Name
    BY <1>1, <2>2, DotsMean, EmptyMeans
  <2>0. y[1] = b /\ y[2] = 1
    OBVIOUS
  <2> HIDE DEF new, e
  <2>5. /\ dat1 \in [Blk -> [Index -> Ent]] /\ dat1[c] = new
        /\ \A x \in Blk : x # c => dat1[x] = data[x]
    BY <1>1, <2>2, <2>4 DEF Typed
  <2>6. data' = Write(dat1, y, e)
    <3>1. data' = [[data EXCEPT ![b][1] = e] EXCEPT ![c] = new]
      BY <1>9 DEF new, e
    <3>2. data \in [Blk -> [Index -> Ent]]
      BY <1>1 DEF Typed
    <3> QED BY <2>0, <2>2, <3>1, <3>2 DEF Write
  <2> HIDE DEF dat1, y, in1
  <2>7. /\ TreeOK(in1, dat1, ifree, bf1)
        /\ Live(dat1) = Live(data) /\ \A x \in Live(data) : At(dat1, x) = At(data, x)
        /\ At(dat1, y) = At(data, y)
    <3>1. /\ \A x \in Blk \ bf1 : dat1[x] = data[x]
          /\ \A x \in bf1 : \A j \in Index : dat1[x][j].name \notin Name
      BY <1>a, <2>2, <2>4, <2>5
    <3>2. y[1] \notin bf1
      BY <2>0
    <3> HIDE DEF bf1
    <3> QED BY <2>1, <2>5, <3>1, <3>2, Scribble
  <2> HIDE DEF bf1
  <2>8. node \in Node /\ Len(node.blk) <= NDirect /\ NewNode(node, Dir, dat1, bf1, bf1 \ {c})
    BY <2>2, <2>4, <2>5, DirNode
  <2>9. inode' = SetNode(in1, t, node) /\ bfree' = bf1 \ {c} /\ bf1 \ {c} \subseteq bf1
    BY <1>9 DEF in1, bf1, SetNode
  <2>10. \A x \in Live(dat1) : x[1] \in BlocksOf(in1, d) => At(dat1, x).name # n
    BY <1>5, <2>1, <2>7
  <2>11. data' = Write(dat1, y, Dirent(n, t, Dir)) /\ At(dat1, y).name \notin Name
    BY <2>1, <2>6, <2>7 DEF e
  <2> HIDE DEF node
  <2>12. TreeOK(inode', data', ifree \ {t}, bf1 \ {c})
    BY <1>6, <2>1, <2>2, <2>7, <2>8, <2>9, <2>10, <2>11, MakeEntry
  <2> QED BY <1>9, <2>9, <2>12 DEF TreeNext
<1>10. CASE UNCHANGED <<inode, data, ifree, bfree>>
  BY <1>10 DEF TreeNow, TreeNext
<1> QED BY <1>7, <1>8, <1>9, <1>10 DEF MakeDirentry, GoWild, Refuse, NoName, Dir, n, t, b, c

(* The parts of a path.                                                    *)
LEMMA PathMeans ==
  ASSUME NEW p \in Path
  PROVE  Front(p) \in Seq(Name) /\ Last(p) \in Name /\ Len(p) \in Nat \ {0} /\ p \in Seq(Name)
<1>1. PICK n \in 1 .. MaxDepth : p \in [1 .. n -> Name]
  BY DEF Path
<1>2. p \in Seq(Name) /\ Len(p) = n /\ n \in Nat \ {0}
  BY <1>1, SizeAssumption
<1>3. SubSeq(p, 1, Len(p) - 1) \in Seq(Name) /\ p[Len(p)] \in Name
  BY <1>2
<1> QED BY <1>2, <1>3 DEF Front, Last

(* What a look at a name in a directory finds.                             *)
LEMMA FoundMeans ==
  ASSUME TreeNow, NEW d \in DirsOf(inode, ifree), NEW n \in Name, Has(d, n)
  PROVE  LET x == SpotOf(d, Find(d, n)) IN
         /\ x \in Live(data) /\ x \in Spot /\ x[1] \in BlocksOf(inode, d)
         /\ EntryAt(d, Find(d, n)) = At(data, x) /\ Get(d, n) = At(data, x)
         /\ At(data, x).name = n
         /\ \A z \in Live(data) : z[1] \in BlocksOf(inode, d) /\ At(data, z).name = n => z = x
         /\ At(data, x).ino \in Ino \ ifree /\ At(data, x).ino # Root
         /\ inode[At(data, x).ino].type = At(data, x).type
         /\ Find(d, n) \in Places(d)
<1> DEFINE k == Find(d, n)
           x == SpotOf(d, k)
<1>1. /\ Typed(inode, data, ifree, bfree) /\ d \in Ino
      /\ Linked(inode, data, ifree) /\ Distinct(inode, data, ifree)
  BY DEF TreeNow, TreeOK, NamesOK, DirsOf
<1>2. k \in Places(d) /\ EntryAt(d, k).name = n
  BY <1>1, FindMeans
<1>3. x \in Spot /\ x[1] \in BlocksOf(inode, d) /\ EntryAt(d, k) = At(data, x)
  BY <1>1, <1>2, SpotIn
<1>4. x \in Live(data)
  BY <1>2, <1>3 DEF Live
<1>5. EntryAt(d, k) = Get(d, n)
  BY DEF Get
<1> HIDE DEF x, k
<1>6. \A z \in Live(data) : z[1] \in BlocksOf(inode, d) /\ At(data, z).name = n => z = x
  BY <1>1, <1>2, <1>3, <1>4 DEF Distinct
<1>7. /\ At(data, x).ino \in Ino \ ifree /\ At(data, x).ino # Root
      /\ inode[At(data, x).ino].type = At(data, x).type
  BY <1>1, <1>4 DEF Linked
<1> QED BY <1>2, <1>3, <1>4, <1>5, <1>6, <1>7 DEF x, k

(* The last block goes where the block given up was.                       *)
LEMMA WithoutMeans ==
  ASSUME NEW s \in Seq(Blk), NEW k \in 1 .. Len(s), Len(s) > 1,
         \A i, j \in 1 .. Len(s) : s[i] = s[j] => i = j
  PROVE  /\ Without(s, k) \in Seq(Blk) /\ Len(Without(s, k)) = Len(s) - 1
         /\ \A m \in 1 .. Len(s) - 1 : Without(s, k)[m] = s[IF m = k THEN Len(s) ELSE m]
         /\ \A m \in 1 .. Len(s) - 1 : Without(s, k)[m] # s[k]
         /\ \A m \in 1 .. Len(s) : m # k => \E l \in 1 .. Len(s) - 1 : Without(s, k)[l] = s[m]
<1> DEFINE z == Len(s)
           v == [s EXCEPT ![k] = s[z]]
           w == SubSeq(v, 1, z - 1)
<1>1. z \in Nat /\ z > 1 /\ s[z] \in Blk
  OBVIOUS
<1>2. v \in Seq(Blk) /\ Len(v) = z /\ \A m \in 1 .. z : v[m] = s[IF m = k THEN z ELSE m]
  BY <1>1
<1> HIDE DEF v
<1>3. w \in Seq(Blk) /\ Len(w) = z - 1 /\ \A m \in 1 .. z - 1 : w[m] = v[m]
  BY <1>1, <1>2
<1>4. Without(s, k) = w
  BY <1>2 DEF Without, Front, Last, v
<1> HIDE DEF w
<1>5. \A m \in 1 .. z - 1 : w[m] = s[IF m = k THEN z ELSE m]
  BY <1>1, <1>2, <1>3
<1>6. \A m \in 1 .. z - 1 : w[m] # s[k]
  BY <1>1, <1>5
<1>7. ASSUME NEW m \in 1 .. z, m # k PROVE \E l \in 1 .. z - 1 : w[l] = s[m]
  <2>1. CASE m = z
    <3>1. k \in 1 .. z - 1 /\ w[k] = s[m]
      BY <1>1, <1>5, <1>7, <2>1
    <3> QED BY <3>1
  <2>2. CASE m # z
    <3>1. m \in 1 .. z - 1 /\ w[m] = s[m]
      BY <1>1, <1>5, <1>7, <2>2
    <3> QED BY <3>1
  <2> QED BY <2>1, <2>2
<1> QED BY <1>3, <1>4, <1>5, <1>6, <1>7

ShortNode(in, c, k) == [in[c] EXCEPT !.blk = Without(in[c].blk, k)]

(* A directory gives up a block that holds no name.                        *)
LEMMA DropBlock ==
  ASSUME NEW in, NEW dat, NEW fr, NEW bf, TreeOK(in, dat, fr, bf),
         NEW c \in DirsOf(in, fr), NEW k \in 1 .. Len(in[c].blk),
         \A j \in Index : dat[in[c].blk[k]][j].name = NoName,
         NEW in2, in2 = SetNode(in, c, ShortNode(in, c, k))
  PROVE  TreeOK(in2, dat, fr, bf \cup {in[c].blk[k]})
<1>p. /\ Typed(in, dat, fr, bf) /\ OnePlace(in, fr) /\ Headed(in, dat, fr)
  BY DEF TreeOK, Owned, NamesOK
<1> DEFINE s == in[c].blk
           w == Without(s, k)
           node == ShortNode(in, c, k)
           b == s[k]
<1>1. c \in Ino \ fr /\ c \in Ino /\ s \in Seq(Blk) /\ Len(s) \in Nat /\ in[c] \in Node
  BY <1>p, TypedFacts DEF DirsOf, Typed
<1>2. \A i, j \in 1 .. Len(s) : s[i] = s[j] => i = j
  BY <1>1, <1>p DEF OnePlace
<1>3. k # 1
  <2>1. dat[s[1]][1].name = Self /\ 1 \in Index
    BY <1>p, SizeAssumption DEF Headed, HeadOf, At, Index
  <2> QED BY <2>1, NameFacts
<1>4. Len(s) > 1
  BY <1>1, <1>3
<1>a. k \in 1 .. Len(s)
  OBVIOUS
<1>5. /\ w \in Seq(Blk) /\ Len(w) = Len(s) - 1
      /\ \A m \in 1 .. Len(s) - 1 : w[m] = s[IF m = k THEN Len(s) ELSE m]
      /\ \A m \in 1 .. Len(s) - 1 : w[m] # b
      /\ \A m \in 1 .. Len(s) : m # k => \E l \in 1 .. Len(s) - 1 : w[l] = s[m]
  <2> HIDE DEF s
  <2> QED BY <1>1, <1>2, <1>4, <1>a, WithoutMeans
<1>6. node \in Node /\ node.type = in[c].type /\ node.blk = w
  <2>1. node = [in[c] EXCEPT !.blk = w]
    BY DEF ShortNode
  <2> HIDE DEF w, node
  <2> QED BY <1>1, <1>5, <2>1 DEF Node
<1> HIDE DEF w, node
<1>7. Len(node.blk) <= NDirect
  BY <1>1, <1>5, <1>6, <1>p, SizeAssumption DEF Typed
<1>8. /\ in2 \in [Ino -> Node] /\ \A i \in Ino : Len(in2[i].blk) <= NDirect
      /\ in2[c] = node /\ \A i \in Ino : i # c => in2[i] = in[i]
  BY <1>1, <1>6, <1>7, <1>p, NewInode DEF Typed, node
<1>9. b \in BlocksOf(in, c) /\ b \in Blk
  BY <1>1, <1>a DEF BlocksOf
<1>10. Typed(in2, dat, fr, bf \cup {b})
  BY <1>8, <1>9, <1>p DEF Typed
<1>11. BlocksOf(in2, c) = BlocksOf(in, c) \ {b}
  <2>1. BlocksOf(in2, c) = {w[m] : m \in 1 .. Len(s) - 1} /\ BlocksOf(in, c) = {s[m] : m \in 1 .. Len(s)}
    BY <1>5, <1>6, <1>8 DEF BlocksOf
  <2> HIDE DEF s
  <2>2. ASSUME NEW m \in 1 .. Len(s) - 1
        PROVE  w[m] \in {s[l] : l \in 1 .. Len(s)} \ {s[k]}
    <3>1. w[m] = s[IF m = k THEN Len(s) ELSE m] /\ w[m] # s[k]
      BY <1>5
    <3>2. (IF m = k THEN Len(s) ELSE m) \in 1 .. Len(s)
      BY <1>1, <1>4
    <3> QED BY <3>1, <3>2
  <2>3. ASSUME NEW m \in 1 .. Len(s), s[m] # s[k]
        PROVE  s[m] \in {w[l] : l \in 1 .. Len(s) - 1}
    <3>1. PICK l \in 1 .. Len(s) - 1 : w[l] = s[m]
      BY <1>5, <2>3
    <3> QED BY <3>1
  <2> QED BY <2>1, <2>2, <2>3
<1> DEFINE from == [m \in 1 .. Len(s) - 1 |-> IF m = k THEN Len(s) ELSE m]
<1>12. /\ \A m \in 1 .. Len(in2[c].blk) : from[m] \in 1 .. Len(in[c].blk) /\ in2[c].blk[m] = in[c].blk[from[m]]
       /\ \A m, l \in 1 .. Len(in2[c].blk) : from[m] = from[l] => m = l
  <2>1. Len(in2[c].blk) = Len(s) - 1 /\ in2[c].blk = w
    BY <1>5, <1>6, <1>8
  <2>3. \A m \in 1 .. Len(s) - 1 : from[m] = IF m = k THEN Len(s) ELSE m
    OBVIOUS
  <2> HIDE DEF from, s
  <2>2. ASSUME NEW m \in 1 .. Len(s) - 1
        PROVE  from[m] \in 1 .. Len(s) /\ w[m] = s[from[m]]
    <3>1. w[m] = s[IF m = k THEN Len(s) ELSE m]
      BY <1>5
    <3>2. (IF m = k THEN Len(s) ELSE m) \in 1 .. Len(s)
      BY <1>1, <1>4
    <3> QED BY <3>1, <3>2, <2>3
  <2>4. \A m, l \in 1 .. Len(s) - 1 : from[m] = from[l] => m = l
    BY <1>1, <2>3
  <2> QED BY <2>1, <2>2, <2>4 DEF s
<1>13. bf \cup {b} = bf \cup (BlocksOf(in, c) \ BlocksOf(in2, c))
  BY <1>9, <1>11
<1>14. Len(in2[c].blk) > 0 /\ in2[c].blk[1] = in[c].blk[1]
  BY <1>1, <1>3, <1>4, <1>5, <1>6, <1>8
<1>15. ASSUME NEW x \in Live(dat), x[1] \in BlocksOf(in, c) PROVE x[1] \in BlocksOf(in2, c)
  <2>1. x[1] # b
    BY <1>15, NameFacts DEF Live, At, Spot
  <2> QED BY <1>11, <1>15, <2>1
<1>16. in2[c].type = in[c].type
  BY <1>6, <1>8
<1> HIDE DEF from, s, b
<1>17. TreeOK(in2, dat, fr, bf \cup {b})
  <2> DEFINE bf2 == bf \cup {b}
  <2>1. bf2 = bf \cup (BlocksOf(in, c) \ BlocksOf(in2, c)) /\ Typed(in2, dat, fr, bf2)
    BY <1>10, <1>13
  <2> HIDE DEF bf2
  <2>2. \A i \in Ino : i # c => in2[i] = in[i]
    BY <1>8
  <2>3. Fewer(in, in2, c, from)
    BY <1>12 DEF Fewer
  <2>4. KeepsNames(in, in2, dat, c)
    BY <1>14, <1>15 DEF KeepsNames
  <2>5. c \in Ino \ fr
    BY <1>1
  <2>6. TreeOK(in2, dat, fr, bf2)
    BY <1>16, <2>1, <2>2, <2>3, <2>4, <2>5, GiveBlocks
  <2> QED BY <2>6 DEF bf2
<1> QED BY <1>17 DEF s, b

(* The last match is the only one.                                         *)
LEMMA OnlyMatch ==
  ASSUME NEW s, NEW n, Len(s) \in Nat, NEW j \in 1 .. Len(s),
         \A m \in 1 .. Len(s) : s[m].name = n <=> m = j
  PROVE  SelectLastInSeq(s, LAMBDA e : e.name = n) = j
<1>1. {m \in 1 .. Len(s) : s[m].name = n} = {j}
  OBVIOUS
<1>2. Max({j}) = j
  BY DEF Max
<1> QED BY <1>1, <1>2 DEF SelectLastInSeq

(* The entries of a directory, as a sequence.                              *)
LEMMA EntriesMean ==
  ASSUME NEW fr, NEW bf, Typed(inode, data, fr, bf), NEW d \in Ino
  PROVE  /\ Len(Entries(d)) = NDirent * Len(inode[d].blk) /\ Len(Entries(d)) \in Nat
         /\ 1 .. Len(Entries(d)) = Places(d)
         /\ \A k \in Places(d) : Entries(d)[k] = EntryAt(d, k)
<1>1. Len(inode[d].blk) \in Nat /\ NDirent \in Nat
  BY TypedFacts, SizeAssumption
<1>2. NDirent * Len(inode[d].blk) \in Nat
  BY <1>1
<1> DEFINE z == NDirent * Len(inode[d].blk)
<1>3. Entries(d) = [k \in 1 .. z |-> EntryAt(d, k)]
  BY DEF Entries
<1>4. Places(d) = 1 .. z
  BY DEF Places
<1> HIDE DEF z
<1>5. Len(Entries(d)) = z /\ \A k \in 1 .. z : Entries(d)[k] = EntryAt(d, k)
  BY <1>2, <1>3 DEF z
<1> QED BY <1>2, <1>4, <1>5 DEF z

-----------------------------------------------------------------------------
(* __find_dentry_and_remove clears one entry.                              *)
LEMMA ClearedIs ==
  ASSUME TreeNow, NEW d \in DirsOf(inode, ifree), NEW n \in Name, Has(d, n), NEW x,
         x = SpotOf(d, Find(d, n))
  PROVE  /\ [data EXCEPT ![x[1]] = Cleared(x[1], n)] = Write(data, x, Null)
         /\ data[x[1]][SelectLastInSeq(data[x[1]], LAMBDA e : e.name = n)] = At(data, x)
         /\ \A j \in Index : Cleared(x[1], n)[j] = Write(data, x, Null)[x[1]][j]
<1>1. /\ Typed(inode, data, ifree, bfree)
      /\ x \in Live(data) /\ x \in Spot /\ x[1] \in BlocksOf(inode, d)
      /\ At(data, x).name = n
      /\ \A z \in Live(data) : z[1] \in BlocksOf(inode, d) /\ At(data, z).name = n => z = x
  BY FoundMeans DEF TreeNow, TreeOK
<1> DEFINE b == x[1]
           j == x[2]
<1>2. b \in Blk /\ j \in Index /\ x = <<b, j>> /\ data[b] \in [Index -> Ent] /\ data \in [Blk -> [Index -> Ent]]
  BY <1>1 DEF Spot, Typed
<1>3. \A m \in Index : data[b][m].name = n <=> m = j
  <2>1. ASSUME NEW m \in Index, data[b][m].name = n PROVE m = j
    <3>1. <<b, m>> \in Spot /\ <<b, m>>[1] = b /\ At(data, <<b, m>>).name = n
      BY <1>2, <2>1 DEF Spot, At
    <3>2. <<b, m>> \in Live(data)
      BY <3>1 DEF Live
    <3>3. <<b, m>> = x
      BY <1>1, <3>1, <3>2
    <3> QED BY <3>3
  <2>2. data[b][j].name = n
    BY <1>1 DEF At
  <2> QED BY <2>1, <2>2
<1>4. Cleared(b, n) = [data[b] EXCEPT ![j] = Null]
  <2>1. Cleared(b, n) = [k \in Index |-> IF data[b][k].name = n THEN Null ELSE data[b][k]]
    BY DEF Cleared, Index
  <2> HIDE DEF b, j
  <2> QED BY <1>2, <1>3, <2>1
<1>5. [data EXCEPT ![b] = Cleared(b, n)] = Write(data, x, Null)
  BY <1>2, <1>4 DEF Write
<1>6. \A m \in Index : Cleared(b, n)[m] = Write(data, x, Null)[b][m]
  <2> HIDE DEF b, j
  <2>1. Write(data, x, Null)[b] = Cleared(b, n)
    BY <1>2, <1>5
  <2> QED BY <2>1
<1>7. SelectLastInSeq(data[b], LAMBDA e : e.name = n) = j
  <2> DEFINE s == data[b]
  <2>1. Len(s) = NDirent /\ NDirent \in Nat
    BY <1>2, SizeAssumption DEF Index
  <2>2. j \in 1 .. Len(s) /\ \A m \in 1 .. Len(s) : s[m].name = n <=> m = j
    BY <1>2, <1>3, <2>1 DEF Index
  <2> HIDE DEF s, j
  <2>3. SelectLastInSeq(s, LAMBDA e : e.name = n) = j
    BY <2>1, <2>2, OnlyMatch
  <2> QED BY <2>3 DEF s
<1> QED BY <1>5, <1>6, <1>7 DEF At

(* Open files are there, and every handle is that of its file.             *)
OpenNow  == stray = {} /\ \A i \in opened : i \in Ino \ ifree /\ inode[i].type = File
OpenNext == stray' = {} /\ \A i \in opened' : i \in Ino \ ifree' /\ inode'[i].type = File

(* tiny_unlink keeps the tree.                                             *)
LEMMA UnlinkKeeps ==
  ASSUME TreeNow, OpenNow, NEW p \in Path, NEW heard \in BOOLEAN, ~Stale, Unlink(p, heard)
  PROVE  TreeNext /\ OpenNext
<1> DEFINE d == DirOf(p)
           n == Last(p)
           x == SpotOf(d, Find(d, n))
           k == InBlock(Find(d, n))
           t == At(data, x).ino
           dat2 == Write(data, x, Null)
<1>1. d \in DirsOf(inode, ifree) /\ n \in Name /\ Has(d, n)
  BY PathMeans, WalkEnds DEF Unlink, Resolves, DirOf, TreeNow
<1>2. Typed(inode, data, ifree, bfree) /\ d \in Ino /\ d \in Ino \ ifree
  BY <1>1 DEF TreeNow, TreeOK, DirsOf
<1>3. /\ x \in Live(data) /\ x \in Spot /\ x[1] \in BlocksOf(inode, d)
      /\ Get(d, n) = At(data, x) /\ At(data, x).name = n
      /\ t \in Ino \ ifree /\ t # Root /\ inode[t].type = At(data, x).type
      /\ Find(d, n) \in Places(d)
  BY <1>1, FoundMeans
<1>4. /\ [data EXCEPT ![x[1]] = Cleared(x[1], n)] = dat2
      /\ data[x[1]][SelectLastInSeq(data[x[1]], LAMBDA e : e.name = n)] = At(data, x)
      /\ \A j \in Index : Cleared(x[1], n)[j] = dat2[x[1]][j]
  BY <1>1, ClearedIs
<1>5. x[1] = inode[d].blk[k] /\ k \in 1 .. Len(inode[d].blk)
  BY <1>2, <1>3, SpotIn DEF SpotOf
<1>6. inode[t].type = File /\ t \notin opened /\ t \notin DirsOf(inode, ifree) /\ t # d
  BY <1>1, <1>3, KindFacts DEF Unlink, Target, File, DirsOf
<1>7. Blocks(t) = BlocksOf(inode, t)
  BY <1>2, <1>3, TypedFacts DEF Blocks, BlocksOf, Range
<1> DEFINE b == inode[d].blk[k]
           empty == \A j \in Index : Cleared(b, n)[j].name = NoName
<1>8. /\ ifree' = ifree \cup {t}
      /\ \/ /\ empty /\ bfree' = bfree \cup {b} \cup Blocks(t)
            /\ inode' = [inode EXCEPT ![d].blk = Without(@, k)]
            /\ data' = [data EXCEPT ![b] = Cleared(b, n)]
         \/ /\ ~empty /\ bfree' = bfree \cup Blocks(t)
            /\ data' = [data EXCEPT ![b] = Cleared(b, n)]
            /\ inode' = inode
      /\ UNCHANGED <<opened, stray>>
  <2>1. data[b][SelectLastInSeq(data[b], LAMBDA e : e.name = n)].ino = t
    BY <1>4, <1>5
  <2> QED BY <2>1 DEF Unlink, NoName, Index
<1> HIDE DEF d, n, x, k, t, dat2, empty
<1>9. /\ dat2 \in [Blk -> [Index -> Ent]] /\ At(dat2, x) = Null
      /\ \A y \in Spot : y # x => At(dat2, y) = At(data, y)
  BY <1>2, <1>3, Put, NullIn DEF Typed, dat2
<1>10. TreeOK(inode, dat2, ifree \cup {t}, bfree \cup BlocksOf(inode, t))
  <2>1. Typed(inode, dat2, ifree \cup {t}, bfree \cup BlocksOf(inode, t))
    BY <1>2, <1>3, <1>9, TypedFacts DEF Typed
  <2>2. At(dat2, x).name \notin Name
    BY <1>9, NullIn
  <2>3. t = At(data, x).ino
    BY DEF t
  <2>4. TreeOK(inode, data, ifree, bfree)
    BY DEF TreeNow
  <2> QED BY <1>3, <1>6, <1>9, <2>1, <2>2, <2>3, <2>4, DropEntry
<1>11. data' = dat2
  BY <1>4, <1>5, <1>8
<1>12. CASE inode' = inode /\ bfree' = bfree \cup Blocks(t)
  BY <1>6, <1>7, <1>8, <1>10, <1>11, <1>12 DEF TreeNext, OpenNow, OpenNext
<1>13. CASE /\ empty /\ bfree' = bfree \cup {b} \cup Blocks(t)
            /\ inode' = [inode EXCEPT ![d].blk = Without(@, k)]
  <2>1. inode' = SetNode(inode, d, ShortNode(inode, d, k))
    BY <1>13 DEF SetNode, ShortNode
  <2>2. d \in DirsOf(inode, ifree \cup {t})
    BY <1>1, <1>6 DEF DirsOf
  <2>3. \A j \in Index : dat2[inode[d].blk[k]][j].name = NoName
    BY <1>4, <1>5, <1>13 DEF empty
  <2>4. TreeOK(inode', dat2, ifree \cup {t}, bfree \cup BlocksOf(inode, t) \cup {inode[d].blk[k]})
    BY <1>5, <1>10, <2>1, <2>2, <2>3, DropBlock
  <2>5. bfree' = bfree \cup BlocksOf(inode, t) \cup {inode[d].blk[k]}
    BY <1>7, <1>13
  <2>6. \A i \in opened : inode'[i] = inode[i]
    <3>1. \A i \in opened : i # d /\ i \in Ino
      BY <1>1, KindFacts DEF OpenNow, DirsOf
    <3> QED BY <1>2, <2>1, <3>1 DEF SetNode, Typed
  <2>7. OpenNext
    BY <1>6, <1>8, <2>6 DEF OpenNow, OpenNext
  <2> QED BY <1>8, <1>11, <2>4, <2>5, <2>7 DEF TreeNext
<1> QED BY <1>8, <1>12, <1>13

(* An empty directory holds no names.                                      *)
LEMMA EmptyHoldsNone ==
  ASSUME TreeNow, NEW t \in Ino \ ifree, DirIsEmpty(t)
  PROVE  t \in DirsOf(inode, ifree) /\ \A y \in Live(data) : y[1] \notin BlocksOf(inode, t)
<1>1. Typed(inode, data, ifree, bfree)
  BY DEF TreeNow, TreeOK
<1>2. t \in DirsOf(inode, ifree)
  BY DEF DirIsEmpty, DirsOf, Dir
<1>3. ASSUME NEW m \in 1 .. Len(inode[t].blk), NEW j \in Index
      PROVE  data[inode[t].blk[m]][j].name \notin Name
  <2>1. Len(inode[t].blk) \in Nat
    BY <1>1, TypedFacts
  <2>2. CASE m = 1
    BY <2>2, NameAssumption DEF DirIsEmpty, Index
  <2>3. CASE m # 1
    <3>1. m \in 2 .. Len(inode[t].blk)
      BY <2>1, <2>3
    <3> QED BY <3>1, NameAssumption DEF DirIsEmpty, Index
  <2> QED BY <2>2, <2>3
<1>4. ASSUME NEW y \in Live(data), y[1] \in BlocksOf(inode, t) PROVE FALSE
  <2>1. PICK m \in 1 .. Len(inode[t].blk) : inode[t].blk[m] = y[1]
    BY <1>4 DEF BlocksOf
  <2>2. y[2] \in Index /\ data[y[1]][y[2]].name \in Name
    BY DEF Live, Spot, At
  <2> QED BY <1>3, <2>1, <2>2
<1> QED BY <1>2, <1>4

(* A free inode is written.                                                *)
LEMMA FreeInode ==
  ASSUME NEW in, NEW dat, NEW fr, NEW bf, TreeOK(in, dat, fr, bf), NEW t \in Ino, t \in fr,
         NEW node \in Node, Len(node.blk) <= NDirect, NEW in2, in2 = SetNode(in, t, node)
  PROVE  TreeOK(in2, dat, fr, bf) /\ \A i \in Ino : i # t => in2[i] = in[i]
<1>1. in \in [Ino -> Node] /\ \A i \in Ino : Len(in[i].blk) <= NDirect
  BY DEF TreeOK, Typed
<1>2. /\ in2 \in [Ino -> Node] /\ \A i \in Ino : Len(in2[i].blk) <= NDirect
      /\ \A i \in Ino : i # t => in2[i] = in[i]
  BY <1>1, NewInode
<1>3. Typed(in2, dat, fr, bf)
  BY <1>2 DEF TreeOK, Typed
<1>4. \A i \in Ino \ fr : in2[i] = in[i]
  BY <1>2
<1>5. \A c \in DirsOf(in, fr) : At(dat, HeadOf(in, c)).name = Self
  BY DEF TreeOK, NamesOK, Headed
<1>6. TreeOK(in2, dat, fr, bf)
  BY <1>3, <1>4, <1>5, Unseen
<1> QED BY <1>2, <1>6

(* RemoveDirentry keeps the tree.                                          *)
LEMMA RmdirKeeps ==
  ASSUME TreeNow, OpenNow, NEW d \in DirsOf(inode, ifree), NEW p, Last(p) \in Name,
         RemoveDirentry(d, p)
  PROVE  TreeNext /\ OpenNext
<1> DEFINE n == Last(p)
           s == Entries(d)
           k == SelectInSeq(s, LAMBDA e : /\ e.name = n /\ e.type = "dir"
                                         /\ DirIsEmpty(e.ino))
           x == SpotOf(d, k)
           t == s[k].ino
           bf2 == bfree \cup BlocksOf(inode, t)
           dat1 == Write(data, x, Null)
           node == Inode("file", << >>)
<1>1. Typed(inode, data, ifree, bfree) /\ d \in Ino /\ d \in Ino \ ifree /\ Linked(inode, data, ifree)
  BY DEF TreeNow, TreeOK, DirsOf, NamesOK
<1>2. Len(s) \in Nat /\ 1 .. Len(s) = Places(d) /\ \A m \in Places(d) : s[m] = EntryAt(d, m)
  BY <1>1, EntriesMean
<1>3. k # 0 => k \in 1 .. Len(s) /\ s[k].name = n /\ s[k].type = Dir /\ DirIsEmpty(s[k].ino)
  <2> DEFINE I == {m \in 1 .. Len(s) : s[m].name = n /\ s[m].type = "dir" /\ DirIsEmpty(s[m].ino)}
  <2>1. k = IF I # {} THEN Min(I) ELSE 0
    BY DEF SelectInSeq
  <2>2. I \in SUBSET Nat
    OBVIOUS
  <2>3. I # {} => Min(I) \in I
    BY <2>2, MinIsIn
  <2> QED BY <2>1, <2>3 DEF Dir
<1>4. \/ k = 0 /\ UNCHANGED <<inode, data, ifree, bfree, opened, stray>>
      \/ /\ k # 0
         /\ data' = [b \in Blk |-> IF b \in Blocks(t) THEN Empty ELSE WithEntry(d, k, Null)[b]]
         /\ bfree' = bfree \cup Blocks(t)
         /\ inode' = [inode EXCEPT ![t] = Inode("file", << >>)]
         /\ ifree' = ifree \cup {t}
         /\ UNCHANGED <<opened, stray>>
  BY DEF RemoveDirentry, Refuse
<1> HIDE DEF k, n
<1>5. CASE k = 0 /\ UNCHANGED <<inode, data, ifree, bfree, opened, stray>>
  BY <1>5 DEF TreeNow, TreeNext, OpenNow, OpenNext
<1>6. CASE /\ k # 0
           /\ data' = [b \in Blk |-> IF b \in Blocks(t) THEN Empty ELSE WithEntry(d, k, Null)[b]]
           /\ bfree' = bfree \cup Blocks(t)
           /\ inode' = [inode EXCEPT ![t] = Inode("file", << >>)]
           /\ ifree' = ifree \cup {t}
           /\ UNCHANGED <<opened, stray>>
  <2>1. k \in Places(d) /\ EntryAt(d, k).name = n /\ EntryAt(d, k) = s[k] /\ DirIsEmpty(t)
    BY <1>2, <1>3, <1>6
  <2>2. x \in Spot /\ x[1] \in BlocksOf(inode, d) /\ EntryAt(d, k) = At(data, x)
    BY <1>1, <2>1, SpotIn
  <2>3. x \in Live(data) /\ t = At(data, x).ino
    BY <2>1, <2>2 DEF Live, n
  <2>4. t \in Ino \ ifree /\ t # Root
    BY <1>1, <2>3 DEF Linked
  <2>5. t \in DirsOf(inode, ifree) /\ \A y \in Live(data) : y[1] \notin BlocksOf(inode, t)
    BY <2>1, <2>4, EmptyHoldsNone
  <2>6. WithEntry(d, k, Null) = dat1
    BY DEF WithEntry, SpotOf, Write
  <2>7. Blocks(t) = BlocksOf(inode, t) /\ BlocksOf(inode, t) \subseteq Blk
    BY <1>1, <2>4, TypedFacts DEF Blocks, BlocksOf, Range
  <2>8. data' = [b \in Blk |-> IF b \in BlocksOf(inode, t) THEN Empty ELSE dat1[b]] /\ bfree' = bf2
    BY <1>6, <2>6, <2>7
  <2>9. inode' = SetNode(inode, t, node)
    BY <1>6 DEF SetNode
  <2>10. node \in Node /\ Len(node.blk) <= NDirect
    BY EmptyNode, KindFacts DEF File
  <2> HIDE DEF dat1, x, t, node, s
  <2>11. /\ dat1 \in [Blk -> [Index -> Ent]] /\ At(dat1, x) = Null
         /\ \A y \in Spot : y # x => At(dat1, y) = At(data, y)
         /\ \A b \in Blk : b # x[1] => dat1[b] = data[b]
    BY <1>1, <2>2, Put, NullIn DEF Typed, dat1
  <2>12. TreeOK(inode, dat1, ifree \cup {t}, bf2)
    <3>1. Typed(inode, dat1, ifree \cup {t}, bfree \cup BlocksOf(inode, t))
      BY <1>1, <2>4, <2>7, <2>11 DEF Typed
    <3>2. At(dat1, x).name \notin Name
      BY <2>11, NullIn
    <3>3. TreeOK(inode, data, ifree, bfree)
      BY DEF TreeNow
    <3> QED BY <2>3, <2>5, <2>11, <3>1, <3>2, <3>3, DropEntry
  <2> HIDE DEF bf2
  <2>13. data' \in [Blk -> [Index -> Ent]]
    BY <2>8, <2>11, EmptyMeans
  <2>14. \A b \in Blk \ bf2 : data'[b] = dat1[b]
    BY <2>8 DEF bf2
  <2>15. ASSUME NEW b \in bf2, NEW j \in Index PROVE data'[b][j].name \notin Name
    <3>1. b \in Blk
      BY <1>1, <2>7 DEF bf2, Typed
    <3>2. CASE b \in BlocksOf(inode, t)
      BY <2>8, <3>1, <3>2, EmptyMeans
    <3>3. CASE b \notin BlocksOf(inode, t)
      <4>1. data'[b] = dat1[b]
        BY <2>8, <3>1, <3>3
      <4>2. <<b, j>> \in Spot /\ <<b, j>>[1] = b
        BY <3>1 DEF Spot
      <4>3. \A y \in Live(dat1) : y[1] \notin bf2
        BY <2>12, FreeDead
      <4>4. <<b, j>> \notin Live(dat1)
        BY <4>2, <4>3
      <4> QED BY <4>1, <4>2, <4>4 DEF Live, At
    <3> QED BY <3>2, <3>3
  <2>16. TreeOK(inode, data', ifree \cup {t}, bf2)
    BY <2>12, <2>13, <2>14, <2>15, Scribble
  <2>17. t \in ifree \cup {t} /\ t \in Ino
    BY <2>4
  <2>18. TreeOK(inode', data', ifree \cup {t}, bf2) /\ \A i \in Ino : i # t => inode'[i] = inode[i]
    BY <2>9, <2>10, <2>16, <2>17, FreeInode
  <2>19. t \notin opened
    BY <2>5, KindFacts DEF OpenNow, DirsOf
  <2>20. OpenNext
    BY <1>6, <2>18, <2>19 DEF OpenNow, OpenNext, t
  <2> QED BY <1>6, <2>8, <2>18, <2>20 DEF TreeNext, t, s
<1> QED BY <1>4, <1>5, <1>6

BlocksFrom(in, c, z) == {in[c].blk[m] : m \in z .. Len(in[c].blk)}

(* A file keeps the first z of its blocks.                                 *)
LEMMA CutBlocks ==
  ASSUME NEW in, NEW dat, NEW fr, NEW bf, TreeOK(in, dat, fr, bf),
         NEW c \in Ino \ fr, in[c].type = File, NEW z \in 0 .. Len(in[c].blk),
         NEW node \in Node, node.type = File, Len(node.blk) = z,
         \A m \in 1 .. z : node.blk[m] = in[c].blk[m],
         NEW in2, in2 = SetNode(in, c, node),
         NEW bf2, bf2 = bf \cup BlocksFrom(in, c, z + 1)
  PROVE  TreeOK(in2, dat, fr, bf2)
<1>1. Typed(in, dat, fr, bf) /\ OnePlace(in, fr)
  BY DEF TreeOK, Owned
<1> DEFINE s == in[c].blk
<1>2. Len(s) \in Nat /\ s \in Seq(Blk) /\ Len(s) <= NDirect
  BY <1>1, TypedFacts DEF Typed
<1>3. in \in [Ino -> Node] /\ (\A i \in Ino : Len(in[i].blk) <= NDirect) /\ Len(node.blk) <= NDirect
  BY <1>1, <1>2, SizeAssumption DEF Typed
<1>4. /\ in2 \in [Ino -> Node] /\ \A i \in Ino : Len(in2[i].blk) <= NDirect
      /\ in2[c] = node /\ \A i \in Ino : i # c => in2[i] = in[i]
  BY <1>3, NewInode
<1>5. bf2 \subseteq Blk
  BY <1>1, <1>2 DEF Typed, BlocksFrom
<1>6. Typed(in2, dat, fr, bf2)
  BY <1>1, <1>4, <1>5 DEF Typed
<1> DEFINE from == [m \in 1 .. z |-> m]
<1>7. /\ \A m \in 1 .. Len(in2[c].blk) : from[m] \in 1 .. Len(in[c].blk) /\ in2[c].blk[m] = in[c].blk[from[m]]
      /\ \A m, l \in 1 .. Len(in2[c].blk) : from[m] = from[l] => m = l
  BY <1>2, <1>4
<1>8. {s[m] : m \in z + 1 .. Len(s)} = BlocksOf(in, c) \ BlocksOf(in2, c)
  <2>1. BlocksOf(in2, c) = {s[m] : m \in 1 .. z}
    BY <1>4 DEF BlocksOf
  <2>2. \A i, j \in 1 .. Len(s) : s[i] = s[j] => i = j
    BY <1>1 DEF OnePlace
  <2>3. BlocksOf(in, c) = {s[m] : m \in 1 .. Len(s)}
    BY DEF BlocksOf
  <2> HIDE DEF s
  <2>4. ASSUME NEW m \in z + 1 .. Len(s) PROVE s[m] \in {s[l] : l \in 1 .. Len(s)} /\ s[m] \notin {s[l] : l \in 1 .. z}
    <3>1. m \in 1 .. Len(s)
      BY <1>2
    <3>2. \A l \in 1 .. z : l \in 1 .. Len(s) /\ l # m
      BY <1>2
    <3> QED BY <2>2, <3>1, <3>2
  <2>5. ASSUME NEW m \in 1 .. Len(s), s[m] \notin {s[l] : l \in 1 .. z} PROVE m \in z + 1 .. Len(s)
    <3>1. m \notin 1 .. z
      BY <2>5
    <3> QED BY <1>2, <3>1
  <2> QED BY <2>1, <2>3, <2>4, <2>5
<1>9. c \notin DirsOf(in, fr) /\ in2[c].type = in[c].type
  BY <1>4, KindFacts DEF DirsOf
<1>10. bf2 = bf \cup (BlocksOf(in, c) \ BlocksOf(in2, c))
  BY <1>8 DEF BlocksFrom
<1> HIDE DEF from, s
<1>11. \A i \in Ino : i # c => in2[i] = in[i]
  BY <1>4
<1>12. Fewer(in, in2, c, from)
  BY <1>7 DEF Fewer
<1>13. c \in DirsOf(in, fr) => KeepsNames(in, in2, dat, c)
  BY <1>9
<1>14. in2[c].type = in[c].type
  BY <1>9
<1> QED BY <1>6, <1>10, <1>11, <1>12, <1>13, <1>14, GiveBlocks

(* An inode gets one more block.                                           *)
LEMMA Longer ==
  ASSUME NEW dat, TreeOK(inode, dat, ifree, bfree), NEW d \in Ino \ ifree, Len(inode[d].blk) < NDirect,
         NEW b \in bfree
  PROVE  /\ TreeOK(Grown(d, b), dat, ifree, bfree \ {b})
         /\ \A i \in Ino : i # d => Grown(d, b)[i] = inode[i]
         /\ Grown(d, b)[d].type = inode[d].type
<1> DEFINE in2 == Grown(d, b)
           node == [inode[d] EXCEPT !.blk = Append(@, b)]
<1>1. Typed(inode, dat, ifree, bfree) /\ d \in Ino /\ b \in Blk
  BY DEF TreeOK, Typed
<1>2. /\ inode[d].blk \in Seq(Blk) /\ Len(inode[d].blk) \in Nat /\ inode[d].type \in Kind
      /\ inode[d] \in Node /\ inode \in [Ino -> Node]
  BY <1>1, TypedFacts DEF Typed
<1>3. Append(inode[d].blk, b) \in Seq(Blk)
  BY <1>1, <1>2
<1>4. node \in Node /\ node.type = inode[d].type /\ node.blk = Append(inode[d].blk, b)
  BY <1>2, <1>3 DEF Node
<1>5. Len(node.blk) <= NDirect
  <2>1. Len(Append(inode[d].blk, b)) = Len(inode[d].blk) + 1
    BY <1>1, <1>2
  <2> HIDE DEF node
  <2> QED BY <1>2, <1>4, <2>1, SizeAssumption
<1>6. in2 = SetNode(inode, d, node)
  BY DEF Grown, SetNode
<1> HIDE DEF in2, node
<1>7. /\ in2 \in [Ino -> Node] /\ \A i \in Ino : Len(in2[i].blk) <= NDirect
      /\ in2[d] = node /\ \A i \in Ino : i # d => in2[i] = inode[i]
  <2>1. \A i \in Ino : Len(inode[i].blk) <= NDirect
    BY <1>1 DEF Typed
  <2> QED BY <1>1, <1>2, <1>4, <1>5, <1>6, <2>1, NewInode
<1>8. Typed(in2, dat, ifree, bfree \ {b})
  BY <1>1, <1>7 DEF Typed
<1>9. TreeOK(in2, dat, ifree, bfree \ {b})
  BY <1>4, <1>7, <1>8, TakeBlock
<1> QED BY <1>4, <1>7, <1>9 DEF in2

-----------------------------------------------------------------------------
(* A write behind the last block keeps it.                                 *)
LEMMA GrowKeeps ==
  ASSUME TreeNow, OpenNow, NEW i \in Ino, NEW heard \in BOOLEAN, ~Stale, Grow(i, heard)
  PROVE  TreeNext /\ OpenNext
<1> DEFINE b == FirstFree(bfree)
<1>1. Typed(inode, data, ifree, bfree) /\ Len(inode[i].blk) < NDirect /\ i \in Ino \ ifree
  BY DEF TreeNow, TreeOK, Grow, OpenNow
<1>2. bfree # {} => b \in bfree
  BY <1>1, BlkAssumption, FirstFreeIsFree DEF Typed
<1>3. /\ ifree' = ifree /\ UNCHANGED <<opened, stray>>
      /\ \/ UNCHANGED <<inode, data, bfree>>
         \/ /\ bfree # {} /\ inode' = Grown(i, b) /\ data' = [data EXCEPT ![b] = Empty] /\ bfree' = bfree \ {b}
  BY DEF Grow, Grown, Payload
<1> HIDE DEF b
<1>4. CASE UNCHANGED <<inode, data, bfree>>
  BY <1>3, <1>4 DEF TreeNow, TreeNext, OpenNow, OpenNext
<1>5. CASE bfree # {} /\ inode' = Grown(i, b) /\ data' = [data EXCEPT ![b] = Empty] /\ bfree' = bfree \ {b}
  <2>1. b \in bfree /\ b \in Blk
    BY <1>1, <1>2, <1>5 DEF Typed
  <2> DEFINE dat2 == [data EXCEPT ![b] = Empty]
  <2>2. dat2 \in [Blk -> [Index -> Ent]] /\ dat2[b] = Empty /\ \A c \in Blk : c # b => dat2[c] = data[c]
    BY <1>1, <2>1, EmptyMeans DEF Typed
  <2> HIDE DEF dat2
  <2>3. \A c \in Blk \ bfree : dat2[c] = data[c]
    BY <2>1, <2>2
  <2>4. ASSUME NEW c \in bfree, NEW j \in Index PROVE dat2[c][j].name \notin Name
    <3>1. CASE c = b
      BY <2>2, <3>1, EmptyMeans
    <3>2. CASE c # b
      <4>1. dat2[c] = data[c] /\ <<c, j>> \in Spot /\ <<c, j>>[1] = c
        BY <1>1, <2>2, <3>2 DEF Typed, Spot
      <4>2. <<c, j>> \notin Live(data)
        BY <4>1, FreeDead DEF TreeNow
      <4> QED BY <4>1, <4>2 DEF Live, At
    <3> QED BY <3>1, <3>2
  <2>5. TreeOK(inode, dat2, ifree, bfree)
    BY <2>2, <2>3, <2>4, Scribble DEF TreeNow
  <2>6. /\ TreeOK(Grown(i, b), dat2, ifree, bfree \ {b})
        /\ \A h \in Ino : h # i => Grown(i, b)[h] = inode[h]
        /\ Grown(i, b)[i].type = inode[i].type
    BY <1>1, <2>1, <2>5, Longer
  <2>7. TreeNext
    BY <1>3, <1>5, <2>6 DEF TreeNext, dat2
  <2>8. \A h \in Ino : inode'[h].type = inode[h].type
    BY <1>5, <2>6
  <2>9. OpenNext
    BY <1>3, <2>8 DEF OpenNow, OpenNext
  <2> QED BY <2>7, <2>9
<1> QED BY <1>3, <1>4, <1>5

(* What a path that names a file leads to.                                 *)
LEMMA FileMeans ==
  ASSUME TreeNow, NEW p \in Path, Resolves(p), Target(p).type = File
  PROVE  /\ Target(p).ino \in Ino \ ifree /\ inode[Target(p).ino].type = File
         /\ DirOf(p) \in DirsOf(inode, ifree) /\ Has(DirOf(p), Last(p)) /\ Last(p) \in Name
<1>1. DirOf(p) \in DirsOf(inode, ifree) /\ Has(DirOf(p), Last(p)) /\ Last(p) \in Name
  BY PathMeans, WalkEnds DEF Resolves, DirOf, TreeNow
<1>2. Target(p) = Get(DirOf(p), Last(p))
  BY DEF Target
<1> QED BY <1>1, <1>2, FoundMeans

(* So does truncate, in both versions.                                     *)
LEMMA TruncateKeeps ==
  ASSUME TreeNow, OpenNow, NEW p \in Path, NEW heard \in BOOLEAN,
         Truncate(p, heard) \/ EarlierTruncate(p)
  PROVE  TreeNext /\ OpenNext
<1> DEFINE i == Target(p).ino
           s == inode[i].blk
<1>1. i \in Ino \ ifree /\ inode[i].type = File /\ Typed(inode, data, ifree, bfree)
  BY FileMeans DEF Truncate, EarlierTruncate, File, TreeNow, TreeOK
<1>2. s \in Seq(Blk) /\ Len(s) \in Nat /\ inode[i] \in Node /\ inode \in [Ino -> Node]
  BY <1>1, TypedFacts DEF Typed
<1>3. ASSUME NEW z \in 0 .. Len(s), NEW w \in Seq(Blk), Len(w) = z, \A m \in 1 .. z : w[m] = s[m],
             inode' = [inode EXCEPT ![i].blk = w],
             bfree' = bfree \cup {s[m] : m \in z + 1 .. Len(s)},
             data' = data, ifree' = ifree, UNCHANGED <<opened, stray>>
      PROVE  TreeNext /\ OpenNext
  <2> DEFINE node == [inode[i] EXCEPT !.blk = w]
  <2>1. node \in Node /\ node.type = File /\ node.blk = w
    BY <1>1, <1>2 DEF Node
  <2>2. inode' = SetNode(inode, i, node)
    BY <1>3 DEF SetNode
  <2> HIDE DEF node, i
  <2>3. TreeOK(inode', data, ifree, bfree')
    <3>1. /\ inode[i].type = File /\ z \in 0 .. Len(inode[i].blk) /\ i \in Ino \ ifree
          /\ \A m \in 1 .. z : node.blk[m] = inode[i].blk[m]
          /\ bfree' = bfree \cup BlocksFrom(inode, i, z + 1)
      BY <1>1, <1>3, <2>1 DEF BlocksFrom
    <3>2. node \in Node /\ node.type = File /\ Len(node.blk) = z
      BY <1>3, <2>1
    <3>3. TreeOK(inode, data, ifree, bfree)
      BY DEF TreeNow
    <3> QED BY <2>2, <3>1, <3>2, <3>3, CutBlocks
  <2>4. \A h \in Ino : inode'[h].type = inode[h].type
    BY <1>1, <1>2, <2>1, <2>2 DEF SetNode
  <2> QED BY <1>3, <2>3, <2>4 DEF TreeNext, OpenNow, OpenNext
<1>4. CASE Truncate(p, heard)
  <2>1. /\ Len(s) > 1 /\ inode' = [inode EXCEPT ![i].blk = SubSeq(s, 1, 1)]
        /\ bfree' = bfree \cup Range(Tail(s)) /\ UNCHANGED <<data, ifree, opened, stray>>
    BY <1>4 DEF Truncate
  <2> HIDE DEF i, s
  <2>2. SubSeq(s, 1, 1) \in Seq(Blk) /\ Len(SubSeq(s, 1, 1)) = 1 /\ \A m \in 1 .. 1 : SubSeq(s, 1, 1)[m] = s[m]
    BY <1>2, <2>1
  <2>3. Range(Tail(s)) = {s[m] : m \in 1 + 1 .. Len(s)}
    <3>1. Tail(s) \in Seq(Blk) /\ Len(Tail(s)) = Len(s) - 1 /\ \A m \in 1 .. Len(s) - 1 : Tail(s)[m] = s[m + 1]
      BY <1>2, <2>1
    <3>2. DOMAIN Tail(s) = 1 .. Len(s) - 1
      BY <3>1
    <3> DEFINE v == Tail(s)
               z == Len(s)
    <3>5. z \in Nat /\ DOMAIN v = 1 .. z - 1 /\ \A m \in 1 .. z - 1 : v[m] = s[m + 1]
      BY <1>2, <3>1, <3>2
    <3> HIDE DEF v, z
    <3>6. ASSUME NEW m \in 2 .. z PROVE s[m] \in {v[l] : l \in 1 .. z - 1}
      <4>1. m - 1 \in 1 .. z - 1 /\ v[m - 1] = s[m]
        BY <3>5
      <4> QED BY <4>1
    <3>7. ASSUME NEW m \in 1 .. z - 1 PROVE v[m] \in {s[l] : l \in 2 .. z}
      <4>1. m + 1 \in 2 .. z /\ v[m] = s[m + 1]
        BY <3>5
      <4> QED BY <4>1
    <3>8. {v[l] : l \in 1 .. z - 1} = {s[l] : l \in 2 .. z}
      BY <3>6, <3>7
    <3>9. Range(v) = {v[l] : l \in 1 .. z - 1}
      BY <3>5 DEF Range
    <3>10. 1 + 1 = 2
      OBVIOUS
    <3> QED BY <3>8, <3>9, <3>10 DEF v, z
  <2>4. 1 \in 0 .. Len(s)
    BY <1>2, <2>1
  <2> QED BY <1>3, <2>1, <2>2, <2>3, <2>4
<1>5. CASE EarlierTruncate(p)
  <2> DEFINE w == << >>
  <2>1. /\ inode' = [inode EXCEPT ![i].blk = w]
        /\ bfree' = bfree \cup Blocks(i) /\ UNCHANGED <<data, ifree, opened, stray>>
    BY <1>5 DEF EarlierTruncate
  <2>2. Blocks(i) = {s[m] : m \in 0 + 1 .. Len(s)}
    BY <1>2 DEF Blocks, Range
  <2>3. w \in Seq(Blk) /\ Len(w) = 0
    OBVIOUS
  <2> HIDE DEF i, s, w
  <2>4. 0 \in 0 .. Len(s) /\ \A m \in 1 .. 0 : w[m] = s[m]
    BY <1>2
  <2> QED BY <1>3, <2>1, <2>2, <2>3, <2>4
<1> QED BY <1>4, <1>5

(* The first place that has a name has it.                                 *)
LEMMA FirstPlaceMeans ==
  ASSUME NEW fr, NEW bf, Typed(inode, data, fr, bf), NEW dat, NEW d \in Ino, NEW n,
         \E m \in Places(d) : At(dat, SpotOf(d, m)).name = n
  PROVE  /\ FirstPlace(dat, d, n) \in Places(d)
         /\ At(dat, SpotOf(d, FirstPlace(dat, d, n))).name = n
<1> DEFINE z == NDirent * Len(inode[d].blk)
           s == [m \in 1 .. z |-> dat[inode[d].blk[InBlock(m)]][AtIndex(m)]]
           k == SelectInSeq(s, LAMBDA e : e.name = n)
<1>1. FirstPlace(dat, d, n) = k
  BY DEF FirstPlace
<1>2. z \in Nat /\ Places(d) = 1 .. z
  BY TypedFacts, SizeAssumption DEF Places
<1>3. \A m \in 1 .. z : s[m] = At(dat, SpotOf(d, m))
  BY DEF At, SpotOf
<1>4. Len(s) = z
  <2> HIDE DEF z
  <2> QED BY <1>2
<1> DEFINE I == {m \in 1 .. Len(s) : s[m].name = n}
<1>5. k = IF I # {} THEN Min(I) ELSE 0
  BY DEF SelectInSeq
<1> HIDE DEF k
<1>6. I \in SUBSET Nat /\ I # {}
  <2> HIDE DEF s, z
  <2> QED BY <1>2, <1>3, <1>4
<1>7. Min(I) \in I
  <2> HIDE DEF I
  <2> QED BY <1>6, MinIsIn
<1> HIDE DEF z, s
<1> QED BY <1>1, <1>2, <1>3, <1>4, <1>5, <1>6, <1>7

HoldsNone(dat, b) == \A j \in Index : dat[b][j].name = NoName

(* What is left of the inodes, and of the free blocks.                     *)
Shrunk(in, left, d, k) ==
  IF HoldsNone(left, inode[d].blk[k]) THEN [in EXCEPT ![d].blk = Without(inode[d].blk, k)] ELSE in
Returned(bf, left, d, k) ==
  IF HoldsNone(left, inode[d].blk[k]) THEN bf \cup {inode[d].blk[k]} ELSE bf

(* _remove_dentry, in terms of what is left.                               *)
LEMMA RemoveMeans ==
  ASSUME NEW dat, NEW ind, NEW free, NEW d, NEW n, RemoveDentry(dat, ind, free, d, n),
         NEW k, k = InBlock(FirstPlace(dat, d, n)),
         NEW z, z = SpotOf(d, FirstPlace(dat, d, n))
  PROVE  /\ data' = Write(dat, z, Null)
         /\ inode' = Shrunk(ind, Write(dat, z, Null), d, k)
         /\ bfree' = Returned(free, Write(dat, z, Null), d, k)
BY DEF RemoveDentry, SpotOf, Write, NoName, Index, HoldsNone, Shrunk, Returned

(* An entry under another name.                                            *)
LEMMA Renamed ==
  ASSUME NEW e \in Ent, NEW n
  PROVE  [e EXCEPT !.name = n] = Dirent(n, e.ino, e.type)
<1> DEFINE A == Name \cup {"", ".", ".."}
<1>1. e \in [name : A, ino : Ino, type : Kind]
  BY DEF Ent
<1> HIDE DEF A
<1> QED BY <1>1 DEF Dirent

OpenIn(in, fr) == stray = {} /\ \A i \in opened : i \in Ino \ fr /\ in[i].type = File

(* The end of _remove_dentry: the block is given back if it is empty.      *)
LEMMA Removing ==
  ASSUME NEW in, NEW left, NEW fr, NEW bf, TreeOK(in, left, fr, bf), OpenIn(in, fr),
         NEW d \in DirsOf(in, fr), in[d] = inode[d], NEW k \in 1 .. Len(inode[d].blk),
         data' = left, ifree' = fr, UNCHANGED <<opened, stray>>,
         inode' = Shrunk(in, left, d, k), bfree' = Returned(bf, left, d, k)
  PROVE  TreeNext /\ OpenNext
<1> DEFINE empty == HoldsNone(left, in[d].blk[k])
<1>1. CASE ~empty
  BY <1>1 DEF TreeNext, OpenNext, OpenIn, Shrunk, Returned
<1>2. CASE empty
  <2>1. inode' = SetNode(in, d, ShortNode(in, d, k)) /\ bfree' = bf \cup {in[d].blk[k]}
    BY <1>2 DEF SetNode, ShortNode, Shrunk, Returned
  <2>2. TreeOK(inode', left, fr, bf \cup {in[d].blk[k]})
    BY <1>2, <2>1, DropBlock DEF HoldsNone
  <2>3. d \notin opened
    BY KindFacts DEF OpenIn, DirsOf
  <2>4. \A i \in Ino : i # d => inode'[i] = in[i]
    BY <2>1 DEF SetNode, TreeOK, Typed
  <2>5. OpenNext
    BY <2>3, <2>4 DEF OpenIn, OpenNext
  <2> QED BY <2>1, <2>2, <2>5 DEF TreeNext
<1> QED BY <1>1, <1>2

(* Where the paths of a rename lead to.                                    *)
LEMMA SentMeans ==
  ASSUME TreeNow, NEW p \in Path, NEW q \in Path, KernelSends(p, q)
  PROVE  /\ DirOf(p) \in DirsOf(inode, ifree) /\ Last(p) \in Name /\ Has(DirOf(p), Last(p))
         /\ DirOf(q) \in DirsOf(inode, ifree) /\ Last(q) \in Name
         /\ Target(p) = Get(DirOf(p), Last(p))
         /\ Resolves(q) <=> Has(DirOf(q), Last(q))
         /\ Target(q) = Get(DirOf(q), Last(q))
<1>1. Resolves(p) /\ Walk(Front(q)).ok
  BY DEF KernelSends
<1>2. /\ DirOf(p) \in DirsOf(inode, ifree) /\ Last(p) \in Name /\ Has(DirOf(p), Last(p))
      /\ DirOf(q) \in DirsOf(inode, ifree) /\ Last(q) \in Name
  BY <1>1, PathMeans, WalkEnds DEF Resolves, DirOf, TreeNow
<1> QED BY <1>1, <1>2 DEF Resolves, Target

(* One directory has what is in a block.                                   *)
LEMMA OneHolder ==
  ASSUME NEW in, NEW fr, OnePlace(in, fr), NEW c \in DirsOf(in, fr), NEW d \in DirsOf(in, fr),
         NEW b, b \in BlocksOf(in, c), b \in BlocksOf(in, d)
  PROVE  c = d
BY DEF OnePlace, BlocksOf, DirsOf

(* What is left of the inodes are the same directories, with no block more. *)
LEMMA ShrunkMeans ==
  ASSUME NEW in, NEW left, NEW fr, NEW bf, Typed(in, left, fr, bf),
         NEW d \in DirsOf(in, fr), in[d] = inode[d], NEW k \in 1 .. Len(inode[d].blk)
  PROVE  \A c \in DirsOf(Shrunk(in, left, d, k), fr) :
           /\ c \in DirsOf(in, fr)
           /\ BlocksOf(Shrunk(in, left, d, k), c) \subseteq BlocksOf(in, c)
<1> DEFINE s == inode[d].blk
           w == Without(s, k)
           in2 == Shrunk(in, left, d, k)
<1>1. d \in Ino /\ s \in Seq(Blk) /\ Len(s) \in Nat /\ in \in [Ino -> Node] /\ in[d].blk = s
  BY TypedFacts DEF DirsOf, Typed
<1>2. w \in Seq(Blk) /\ \A m \in 1 .. Len(w) : \E l \in 1 .. Len(s) : w[m] = s[l]
  <2> DEFINE z == Len(s)
             v == [s EXCEPT ![k] = s[z]]
             u == SubSeq(v, 1, z - 1)
  <2>1. z \in Nat /\ z >= 1 /\ s[z] \in Blk /\ z \in 1 .. z
    BY <1>1
  <2>2. v \in Seq(Blk) /\ Len(v) = z /\ \A m \in 1 .. z : v[m] = s[IF m = k THEN z ELSE m]
    BY <1>1, <2>1
  <2> HIDE DEF v
  <2>3. u \in Seq(Blk) /\ Len(u) = z - 1 /\ \A m \in 1 .. z - 1 : u[m] = v[m]
    BY <2>1, <2>2
  <2>4. w = u
    BY <2>2 DEF Without, Front, Last, v
  <2> HIDE DEF u, z, w, s
  <2>5. ASSUME NEW m \in 1 .. Len(w) PROVE \E l \in 1 .. z : w[m] = s[l]
    <3>1. m \in 1 .. z - 1 /\ m \in 1 .. z
      BY <2>1, <2>3, <2>4
    <3>2. w[m] = s[IF m = k THEN z ELSE m]
      BY <2>2, <2>3, <2>4, <3>1
    <3> QED BY <2>1, <3>1, <3>2
  <2> QED BY <2>3, <2>4, <2>5 DEF z
<1>3. /\ \A i \in Ino : i # d => in2[i] = in[i]
      /\ in2[d] = in[d] \/ (in2[d].type = in[d].type /\ in2[d].blk = w)
  <2>1. in[d] \in Node
    BY <1>1
  <2>2. [in[d] EXCEPT !.blk = w].type = in[d].type /\ [in[d] EXCEPT !.blk = w].blk = w
    BY <2>1 DEF Node
  <2> HIDE DEF w
  <2> QED BY <1>1, <2>2 DEF Shrunk, w
<1> HIDE DEF s, w, in2
<1>4. SUFFICES ASSUME NEW c \in DirsOf(in2, fr)
               PROVE  c \in DirsOf(in, fr) /\ BlocksOf(in2, c) \subseteq BlocksOf(in, c)
  BY DEF in2
<1>5. c \in DirsOf(in, fr)
  BY <1>3 DEF DirsOf
<1>6. CASE in2[c] = in[c]
  BY <1>5, <1>6 DEF BlocksOf
<1>7. CASE c = d /\ in2[d].blk = w
  BY <1>1, <1>2, <1>5, <1>7 DEF BlocksOf
<1> QED BY <1>3, <1>5, <1>6, <1>7 DEF DirsOf

(* What a rename does: the entries that name inodes of G are gone, e is in *)
(* directory g, and no other entry has changed.                            *)
Moves(G, e, g) ==
  /\ \A c \in DirsOf(inode', ifree') :
       c \in DirsOf(inode, ifree) /\ BlocksOf(inode', c) \subseteq BlocksOf(inode, c) \cup bfree
  /\ \A w \in Live(data') :
       \/ w \in Live(data) /\ At(data', w) = At(data, w) /\ At(data, w).ino \notin G
       \/ /\ At(data', w) = e
          /\ \A c \in DirsOf(inode', ifree') : w[1] \in BlocksOf(inode', c) => c = g
  /\ \A w \in Live(data) : At(data, w).ino \notin G => w \in Live(data') /\ At(data', w) = At(data, w)
  /\ \E w \in Live(data') : At(data', w) = e

-----------------------------------------------------------------------------
(* _overwrite_dentry keeps the tree, if nothing is in a directory that is  *)
(* replaced and the old directory has no other entry of the new name, and  *)
(* moves the entry.                                                        *)
LEMMA OverwriteKeeps ==
  ASSUME TreeNow, OpenNow, NEW p \in Path, NEW q \in Path, KernelSends(p, q), Safe(p, q),
         Overwrite(p, q)
  PROVE  /\ TreeNext /\ OpenNext
         /\ Moves({Target(p).ino, Target(q).ino},
                  Dirent(Last(q), Target(p).ino, Target(p).type), DirOf(q))
<1> DEFINE d == DirOf(p)
           g == DirOf(q)
           n == Last(q)
           x == SpotOf(d, Find(d, Last(p)))
           y == SpotOf(g, Find(g, n))
           u == Target(q).ino
           e == Target(p)
           e2 == Dirent(n, e.ino, e.type)
           copied == Write(Write(data, x, e2), y, e2)
           fr == ifree \cup {u}
           bf == bfree \cup BlocksOf(inode, u)
           dat1 == Write(data, y, Null)
           k == InBlock(FirstPlace(copied, d, n))
           z == SpotOf(d, FirstPlace(copied, d, n))
           left == Write(copied, z, Null)
<1>1. /\ d \in DirsOf(inode, ifree) /\ g \in DirsOf(inode, ifree) /\ n \in Name /\ Has(g, n)
      /\ e = Get(d, Last(p)) /\ Target(q) = Get(g, n) /\ Last(p) \in Name /\ Has(d, Last(p))
  BY SentMeans DEF Overwrite
<1>2. /\ Typed(inode, data, ifree, bfree) /\ d \in Ino \ ifree /\ g \in Ino \ ifree
      /\ OnePlace(inode, ifree) /\ data \in [Blk -> [Index -> Ent]]
  BY <1>1 DEF TreeNow, TreeOK, DirsOf, Owned, Typed
<1>3. /\ x \in Live(data) /\ x \in Spot /\ x[1] \in BlocksOf(inode, d) /\ e = At(data, x)
      /\ e.ino \in Ino \ ifree /\ e \in Ent /\ Find(d, Last(p)) \in Places(d)
      /\ \A w \in Live(data) : w[1] \in BlocksOf(inode, d) /\ At(data, w).name = Last(p) => w = x
  <2>1. /\ x \in Live(data) /\ x \in Spot /\ x[1] \in BlocksOf(inode, d) /\ e = At(data, x)
        /\ e.ino \in Ino \ ifree /\ Find(d, Last(p)) \in Places(d)
        /\ \A w \in Live(data) : w[1] \in BlocksOf(inode, d) /\ At(data, w).name = Last(p) => w = x
    BY <1>1, FoundMeans
  <2> QED BY <1>2, <2>1, TypedFacts
<1>4. /\ y \in Live(data) /\ y \in Spot /\ y[1] \in BlocksOf(inode, g) /\ At(data, y).name = n
      /\ Target(q) = At(data, y) /\ u \in Ino \ ifree /\ u # Root /\ Find(g, n) \in Places(g)
      /\ inode[u].type = Target(q).type
      /\ \A w \in Live(data) : w[1] \in BlocksOf(inode, g) /\ At(data, w).name = n => w = y
  BY <1>1, FoundMeans
<1>5. u # e.ino /\ x # y /\ u \notin opened
  BY <1>1, <1>3, <1>4 DEF KernelSends, Overwrite
<1>6. e2 \in Ent /\ e2.name = n /\ e2.ino = e.ino /\ e2.type = e.type
  BY <1>1, <1>3 DEF Ent, Dirent
<1>7. u \in DirsOf(inode, ifree) => \A w \in Live(data) : w[1] \notin BlocksOf(inode, u)
  <2>1. u \in DirsOf(inode, ifree) => DirIsEmpty(u)
    BY <1>1, <1>4 DEF Safe, Overwrite, DirsOf, Dir
  <2> QED BY <1>4, <2>1, EmptyHoldsNone
<1>8. u # d /\ u # g
  BY <1>1, <1>3, <1>4, <1>7
<1>9. d # g => ~Has(d, n)
  BY DEF Safe, Overwrite
<1>10. /\ data' = left /\ fr = ifree' /\ UNCHANGED <<opened, stray>>
       /\ inode' = Shrunk(inode, left, d, k) /\ bfree' = Returned(bf, left, d, k)
  <2>1. [e EXCEPT !.name = n] = e2
    BY <1>3, Renamed
  <2>2. RemoveDentry([WithEntry(d, Find(d, Last(p)), e2) EXCEPT
                        ![inode[g].blk[InBlock(Find(g, n))]][AtIndex(Find(g, n))] = e2],
                     inode, bfree \cup Blocks(u), d, n)
        /\ ifree' = fr /\ UNCHANGED <<opened, stray>>
    BY <2>1 DEF Overwrite, GiveInode
  <2>3. [WithEntry(d, Find(d, Last(p)), e2) EXCEPT
            ![inode[g].blk[InBlock(Find(g, n))]][AtIndex(Find(g, n))] = e2] = copied
    BY DEF WithEntry, Write, SpotOf
  <2>4. Blocks(u) = BlocksOf(inode, u)
    BY <1>2, <1>4, TypedFacts DEF Blocks, BlocksOf, Range
  <2>5. RemoveDentry(copied, inode, bf, d, n)
    BY <2>2, <2>3, <2>4
  <2> HIDE DEF bf, copied
  <2> QED BY <2>2, <2>5, RemoveMeans
<1> HIDE DEF d, g, n, x, y, u, e, e2, copied, fr, bf, dat1, k, z, left
<1>11. /\ copied \in [Blk -> [Index -> Ent]] /\ At(copied, x) = e2 /\ At(copied, y) = e2
       /\ \A w \in Spot : w # x /\ w # y => At(copied, w) = At(data, w)
  <2> DEFINE dat0 == Write(data, x, e2)
  <2>1. /\ dat0 \in [Blk -> [Index -> Ent]] /\ At(dat0, x) = e2
        /\ \A w \in Spot : w # x => At(dat0, w) = At(data, w)
    BY <1>2, <1>3, <1>6, Put
  <2>2. copied = Write(dat0, y, e2)
    BY DEF copied
  <2> HIDE DEF dat0
  <2>3. /\ copied \in [Blk -> [Index -> Ent]] /\ At(copied, y) = e2
        /\ \A w \in Spot : w # y => At(copied, w) = At(dat0, w)
    BY <1>4, <1>6, <2>1, <2>2, Put
  <2> QED BY <1>3, <1>5, <2>1, <2>3
<1>12. /\ k \in 1 .. Len(inode[d].blk) /\ z \in Spot /\ z[1] \in BlocksOf(inode, d)
       /\ z[1] = inode[d].blk[k]
       /\ At(copied, z).name = n
  <2> DEFINE m == FirstPlace(copied, d, n)
  <2>1. \E l \in Places(d) : At(copied, SpotOf(d, l)).name = n
    BY <1>3, <1>6, <1>11 DEF x
  <2>2. m \in Places(d) /\ At(copied, SpotOf(d, m)).name = n
    BY <1>2, <2>1, FirstPlaceMeans
  <2>3. /\ SpotOf(d, m) \in Spot /\ SpotOf(d, m)[1] \in BlocksOf(inode, d)
        /\ InBlock(m) \in 1 .. Len(inode[d].blk)
    BY <1>2, <2>2, SpotIn
  <2> QED BY <2>2, <2>3 DEF k, z, SpotOf
<1>13. z = x \/ (z = y /\ d = g)
  <2> SUFFICES ASSUME z # x PROVE z = y /\ d = g
    OBVIOUS
  <2>1. CASE z = y
    BY <1>1, <1>2, <1>4, <1>12, <2>1 DEF OnePlace, BlocksOf
  <2>2. CASE z # y
    <3>1. At(data, z).name = n
      BY <1>11, <1>12, <2>2
    <3>2. z \in Live(data)
      BY <1>1, <1>12, <3>1 DEF Live
    <3>3. CASE d = g
      BY <1>4, <1>12, <2>2, <3>1, <3>2, <3>3
    <3>4. CASE d # g
      BY <1>1, <1>9, <1>12, <3>1, <3>2, <3>4, NewName
    <3> QED BY <3>3, <3>4
  <2> QED BY <2>1, <2>2
<1>14. /\ left \in [Blk -> [Index -> Ent]] /\ At(left, z) = Null
       /\ \A w \in Spot : w # z => At(left, w) = At(copied, w)
  BY <1>11, <1>12, Put, NullIn DEF left
<1>15. /\ dat1 \in [Blk -> [Index -> Ent]] /\ At(dat1, y) = Null
       /\ \A w \in Spot : w # y => At(dat1, w) = At(data, w)
  BY <1>2, <1>4, Put, NullIn DEF dat1
<1>16. TreeOK(inode, dat1, fr, bf)
  <2>1. Typed(inode, dat1, ifree \cup {u}, bfree \cup BlocksOf(inode, u))
    BY <1>2, <1>4, <1>15, TypedFacts DEF Typed
  <2>2. At(dat1, y).name \notin Name
    BY <1>15, NullIn
  <2>3. u = At(data, y).ino
    BY <1>4 DEF u
  <2>4. TreeOK(inode, data, ifree, bfree)
    BY DEF TreeNow
  <2>5. TreeOK(inode, dat1, ifree \cup {u}, bfree \cup BlocksOf(inode, u))
    BY <1>4, <1>7, <1>15, <2>1, <2>2, <2>3, <2>4, DropEntry
  <2> QED BY <2>5 DEF fr, bf
<1>17. x \in Live(dat1) /\ At(dat1, x) = e
  BY <1>3, <1>5, <1>15 DEF Live
<1>18. d \in DirsOf(inode, fr) /\ g \in DirsOf(inode, fr)
  BY <1>1, <1>8 DEF DirsOf, fr
<1>19. \A w \in Live(dat1) : w \in Live(data) /\ w # y /\ At(data, w) = At(dat1, w)
  <2>1. y \notin Live(dat1)
    BY <1>15, NullIn DEF Live
  <2> QED BY <1>15, <2>1 DEF Live
<1>20. \A w \in Live(dat1) : w[1] \in BlocksOf(inode, g) => At(dat1, w).name # n
  BY <1>4, <1>19
<1>21. Typed(inode, left, fr, bf)
  BY <1>14, <1>16 DEF TreeOK, Typed
<1>22. TreeOK(inode, left, fr, bf)
  <2>1. CASE z = x
    <3>1. At(left, y) = Dirent(n, At(dat1, x).ino, At(dat1, x).type) /\ At(left, x).name \notin Name
      BY <1>4, <1>5, <1>11, <1>14, <1>17, <2>1, NullIn DEF e2
    <3>2. \A w \in Spot : w # y /\ w # x => At(left, w) = At(dat1, w)
      BY <1>11, <1>14, <1>15, <2>1
    <3>3. At(dat1, y).name \notin Name /\ \A c \in DirsOf(inode, fr) : HeadOf(inode, c) # y
      BY <1>15, <1>16, NullIn, NotHead
    <3> QED BY <1>1, <1>4, <1>16, <1>17, <1>18, <1>20, <1>21, <3>1, <3>2, <3>3, MovedEntry
  <2>2. CASE z = y /\ d = g
    <3>1. At(left, x) = Dirent(n, At(dat1, x).ino, At(dat1, x).type)
      BY <1>3, <1>5, <1>11, <1>14, <1>17, <2>2 DEF e2
    <3>2. \A w \in Spot : w # x => At(left, w) = At(dat1, w)
      BY <1>11, <1>14, <1>15, <2>2
    <3>3. \A w \in Live(dat1) : w # x /\ w[1] \in BlocksOf(inode, d) => At(dat1, w).name # n
      BY <1>20, <2>2
    <3> QED BY <1>1, <1>3, <1>16, <1>17, <1>18, <1>21, <3>1, <3>2, <3>3, MovedEntry
  <2> QED BY <1>13, <2>1, <2>2
<1>23. OpenIn(inode, fr)
  BY <1>5 DEF OpenNow, OpenIn, fr
<1>24. ifree' = fr /\ inode[d] = inode[d]
  BY <1>10
<1>25. ASSUME NEW c \in DirsOf(inode', ifree')
       PROVE  c \in DirsOf(inode, ifree) /\ BlocksOf(inode', c) \subseteq BlocksOf(inode, c)
  <2>1. c \in DirsOf(inode, fr) /\ BlocksOf(inode', c) \subseteq BlocksOf(inode, c)
    BY <1>10, <1>12, <1>18, <1>21, ShrunkMeans
  <2> QED BY <2>1 DEF DirsOf, fr
<1> DEFINE G == {e.ino, u}
<1>26. \A w \in Live(data) : w # x /\ w # y <=> At(data, w).ino \notin G
  <2>1. LinkedOnce(data) /\ At(data, x).ino = e.ino /\ At(data, y).ino = u
    BY <1>3, <1>4 DEF TreeNow, TreeOK, NamesOK, u
  <2> QED BY <1>3, <1>4, <2>1 DEF LinkedOnce
<1>27. \A w \in Spot : w # x /\ w # y => At(left, w) = At(data, w)
  BY <1>11, <1>13, <1>14
<1>28. z \notin Live(left)
  BY <1>14, NullIn DEF Live
<1>29. \A w : w \in {x, y} \ {z} => /\ w \in Live(left) /\ At(left, w) = e2
                                   /\ w[1] \in BlocksOf(inode, g)
  BY <1>1, <1>3, <1>4, <1>6, <1>11, <1>13, <1>14 DEF Live
<1>30. \E w : w \in {x, y} \ {z}
  BY <1>5
<1>31. Moves(G, e2, g)
  <2>1. ASSUME NEW w \in Live(left)
        PROVE  \/ w \in Live(data) /\ At(left, w) = At(data, w) /\ At(data, w).ino \notin G
               \/ /\ At(left, w) = e2
                  /\ \A c \in DirsOf(inode', ifree') : w[1] \in BlocksOf(inode', c) => c = g
    <3>1. CASE w # x /\ w # y
      <4>1. w \in Spot /\ At(left, w) = At(data, w)
        BY <1>27, <3>1 DEF Live
      <4>2. w \in Live(data)
        BY <4>1 DEF Live
      <4> HIDE DEF G
      <4> QED BY <1>26, <3>1, <4>1, <4>2
    <3>2. CASE w = x \/ w = y
      <4>1. At(left, w) = e2 /\ w[1] \in BlocksOf(inode, g)
        BY <1>28, <1>29, <3>2
      <4>2. \A c \in DirsOf(inode', ifree') : w[1] \in BlocksOf(inode', c) => c = g
        BY <1>1, <1>2, <1>25, <4>1, OneHolder
      <4> QED BY <4>1, <4>2
    <3> QED BY <3>1, <3>2
  <2>2. ASSUME NEW w \in Live(data), At(data, w).ino \notin G
        PROVE  w \in Live(left) /\ At(left, w) = At(data, w)
    <3>1. w \in Spot /\ w # x /\ w # y
      BY <1>26, <2>2 DEF Live
    <3> QED BY <1>27, <3>1 DEF Live
  <2>3. \E w \in Live(left) : At(left, w) = e2
    BY <1>29, <1>30
  <2> HIDE DEF G
  <2> QED BY <1>10, <1>25, <2>1, <2>2, <2>3 DEF Moves
<1>32. TreeNext /\ OpenNext
  BY <1>10, <1>12, <1>18, <1>22, <1>23, <1>24, Removing
<1> QED BY <1>31, <1>32 DEF e2, g, n, e, u

(* The entry at x is copied to y, and then the one at z cleared.           *)
LEMMA Copied ==
  ASSUME NEW in, NEW dat, NEW fr, NEW bf, TreeOK(in, dat, fr, bf),
         NEW x \in Live(dat), NEW d \in DirsOf(in, fr), NEW y \in Spot, y[1] \in BlocksOf(in, d),
         At(dat, y).name \notin Name, \A c \in DirsOf(in, fr) : HeadOf(in, c) # y,
         \A w \in Live(dat) : w # x /\ w[1] \in BlocksOf(in, d) => At(dat, w).name # At(dat, x).name,
         NEW z, z = x \/ z = y, NEW left, left = Write(Write(dat, y, At(dat, x)), z, Null)
  PROVE  TreeOK(in, left, fr, bf)
<1> DEFINE e == At(dat, x)
           dat1 == Write(dat, y, e)
<1>1. Typed(in, dat, fr, bf) /\ dat \in [Blk -> [Index -> Ent]] /\ x \in Spot /\ x # y /\ z \in Spot
  BY DEF TreeOK, Typed, Live
<1>2. e \in Ent /\ e.name \in Name
  BY <1>1, TypedFacts DEF Live
<1>3. left = Write(dat1, z, Null)
  OBVIOUS
<1>4. e = Dirent(e.name, e.ino, e.type)
  <2> DEFINE A == Name \cup {"", ".", ".."}
  <2>1. e \in [name : A, ino : Ino, type : Kind]
    BY <1>2 DEF Ent
  <2> HIDE DEF A, e
  <2> QED BY <2>1 DEF Dirent
<1> HIDE DEF e, dat1
<1>5. /\ dat1 \in [Blk -> [Index -> Ent]] /\ At(dat1, y) = e
      /\ \A w \in Spot : w # y => At(dat1, w) = At(dat, w)
  BY <1>1, <1>2, Put DEF dat1
<1>6. /\ left \in [Blk -> [Index -> Ent]] /\ At(left, z) = Null
      /\ \A w \in Spot : w # z => At(left, w) = At(dat1, w)
  <2>1. Null \in Ent /\ z \in Spot /\ dat1 \in [Blk -> [Index -> Ent]] /\ left = Write(dat1, z, Null)
    BY <1>1, <1>3, <1>5, NullIn
  <2> HIDE DEF Write
  <2> QED BY <2>1, Put
<1>7. Typed(in, left, fr, bf)
  BY <1>1, <1>6 DEF Typed
<1>8. CASE z = x
  <2>1. At(left, y) = Dirent(e.name, At(dat, x).ino, At(dat, x).type)
    BY <1>1, <1>4, <1>5, <1>6, <1>8 DEF e
  <2>2. At(left, x).name \notin Name
    BY <1>6, <1>8, NullIn
  <2>3. \A w \in Spot : w # y /\ w # x => At(left, w) = At(dat, w)
    BY <1>5, <1>6, <1>8
  <2>4. \A w \in Live(dat) : w # x /\ w[1] \in BlocksOf(in, d) => At(dat, w).name # e.name
    BY DEF e
  <2> QED BY <1>2, <1>7, <2>1, <2>2, <2>3, <2>4, MovedEntry
<1>9. CASE z = y
  <2>1. \A w \in Spot : w # y => At(left, w) = At(dat, w)
    BY <1>5, <1>6, <1>9
  <2>2. At(left, y).name \notin Name
    BY <1>6, <1>9, NullIn
  <2>3. Live(left) = Live(dat) /\ \A w \in Live(dat) : At(left, w) = At(dat, w)
    BY <2>1, <2>2 DEF Live
  <2>4. ASSUME NEW c \in DirsOf(in, fr) PROVE At(left, HeadOf(in, c)).name = Self
    <3>1. c \in Ino /\ Len(in[c].blk) > 0 /\ At(dat, HeadOf(in, c)).name = Self
      BY DEF DirsOf, TreeOK, NamesOK, Headed
    <3>2. HeadOf(in, c) \in Spot
      BY <1>1, <3>1, HeadSpot
    <3> QED BY <2>1, <3>1, <3>2
  <2> QED BY <1>7, <2>3, <2>4, Unseen
<1> QED BY <1>8, <1>9

(* So it moves to directory d, whether y or x is cleared.                  *)
LEMMA EntryMoved ==
  ASSUME TreeNow, NEW x \in Live(data), NEW y \in Spot, At(data, y).name \notin Name,
         NEW z, z = x \/ z = y, data' = Write(Write(data, y, At(data, x)), z, Null), NEW d,
         \A c \in DirsOf(inode', ifree') :
           c \in DirsOf(inode, ifree) /\ BlocksOf(inode', c) \subseteq BlocksOf(inode, c) \cup bfree,
         \A c \in DirsOf(inode', ifree') : y[1] \in BlocksOf(inode', c) => c = d,
         z = y => \A c \in DirsOf(inode', ifree') : x[1] \in BlocksOf(inode', c) => c = d
  PROVE  Moves({At(data, x).ino}, At(data, x), d)
<1> DEFINE e == At(data, x)
           dat1 == Write(data, y, e)
           left == Write(dat1, z, Null)
<1>1. Typed(inode, data, ifree, bfree) /\ data \in [Blk -> [Index -> Ent]] /\ LinkedOnce(data)
  BY DEF TreeNow, TreeOK, Typed, NamesOK
<1>2. x \in Spot /\ x # y /\ z \in Spot /\ e \in Ent /\ e.name \in Name
  BY <1>1, TypedFacts DEF Live
<1> HIDE DEF e, dat1
<1>3. /\ dat1 \in [Blk -> [Index -> Ent]] /\ At(dat1, y) = e
      /\ \A w \in Spot : w # y => At(dat1, w) = At(data, w)
  BY <1>1, <1>2, Put DEF dat1
<1>4. At(left, z) = Null /\ \A w \in Spot : w # z => At(left, w) = At(dat1, w)
  BY <1>2, <1>3, NullIn, Put
<1> HIDE DEF left
<1>5. data' = left /\ e = At(data, x)
  BY DEF left, dat1, e
<1>6. z \notin Live(left)
  BY <1>4, NullIn DEF Live
<1>7. \A w \in Spot : w # x /\ w # y => At(left, w) = At(data, w)
  BY <1>3, <1>4
<1>8. \A w \in Live(data) : w # x <=> At(data, w).ino \notin {e.ino}
  BY <1>1, <1>5 DEF LinkedOnce
<1>9. \A w : w \in {x, y} \ {z} =>
        /\ w \in Live(left) /\ At(left, w) = e
        /\ \A c \in DirsOf(inode', ifree') : w[1] \in BlocksOf(inode', c) => c = d
  BY <1>2, <1>3, <1>4, <1>5 DEF Live
<1>10. ASSUME NEW w \in Live(left)
       PROVE  \/ w \in Live(data) /\ At(left, w) = At(data, w) /\ At(data, w).ino \notin {e.ino}
              \/ /\ At(left, w) = e
                 /\ \A c \in DirsOf(inode', ifree') : w[1] \in BlocksOf(inode', c) => c = d
  <2>1. CASE w # x /\ w # y
    <3>1. w \in Spot /\ At(left, w) = At(data, w)
      BY <1>7, <2>1 DEF Live
    <3>2. w \in Live(data)
      BY <3>1 DEF Live
    <3> QED BY <1>8, <2>1, <3>1, <3>2
  <2>2. CASE w = x \/ w = y
    BY <1>6, <1>9, <2>2
  <2> QED BY <2>1, <2>2
<1>11. ASSUME NEW w \in Live(data), At(data, w).ino \notin {e.ino}
       PROVE  w \in Live(left) /\ At(left, w) = At(data, w)
  <2>1. w \in Spot /\ w # x /\ w # y
    BY <1>8, <1>11 DEF Live
  <2> QED BY <1>7, <2>1 DEF Live
<1>12. \E w \in Live(left) : At(left, w) = e
  BY <1>2, <1>9
<1> QED BY <1>5, <1>10, <1>11, <1>12 DEF Moves

(* _add_dentry keeps it, if the new directory does not have the old name,  *)
(* and moves the entry as it is.                                           *)
LEMMA AddKeeps ==
  ASSUME TreeNow, OpenNow, NEW p \in Path, NEW q \in Path, KernelSends(p, q), Safe(p, q),
         Add(p, q)
  PROVE  /\ TreeNext /\ OpenNext
         /\ reply'.ok => Moves({Target(p).ino}, Target(p), DirOf(q))
<1> DEFINE g == DirOf(p)
           d == DirOf(q)
           n == Last(p)
           x == SpotOf(g, Find(g, n))
           e == Target(p)
           b == FirstFree(bfree)
<1>1. /\ g \in DirsOf(inode, ifree) /\ d \in DirsOf(inode, ifree) /\ n \in Name /\ Has(g, n)
      /\ e = Get(g, n)
  BY SentMeans
<1>2. /\ Typed(inode, data, ifree, bfree) /\ d \in Ino \ ifree /\ g \in Ino \ ifree
      /\ OnePlace(inode, ifree) /\ data \in [Blk -> [Index -> Ent]]
  BY <1>1 DEF TreeNow, TreeOK, DirsOf, Owned, Typed
<1>3. /\ x \in Live(data) /\ x \in Spot /\ x[1] \in BlocksOf(inode, g) /\ e = At(data, x)
      /\ At(data, x).name = n /\ Find(g, n) \in Places(g)
      /\ \A w \in Live(data) : w[1] \in BlocksOf(inode, g) /\ At(data, w).name = n => w = x
  BY <1>1, FoundMeans
<1>4. g # d => ~Has(d, n)
  BY DEF Safe, Add
<1>5. \A w \in Live(data) : w # x /\ w[1] \in BlocksOf(inode, d) => At(data, w).name # At(data, x).name
  <2>1. CASE g = d
    BY <1>3, <2>1
  <2>2. CASE g # d
    BY <1>1, <1>3, <1>4, <2>2, NewName
  <2> QED BY <2>1, <2>2
<1>6. bfree # {} => b \in bfree
  BY <1>2, BlkAssumption, FirstFreeIsFree DEF Typed
<1>7. \/ /\ Has(d, NoName) /\ RemoveDentry(WithEntry(d, Find(d, NoName), e), inode, bfree, g, n)
         /\ ifree' = ifree /\ UNCHANGED <<opened, stray>>
      \/ /\ ~Has(d, NoName) /\ ~Full(d) /\ bfree # {}
         /\ RemoveDentry([data EXCEPT ![b][1] = e], Grown(d, b), bfree \ {b}, g, n)
         /\ ifree' = ifree /\ UNCHANGED <<opened, stray>>
      \/ UNCHANGED <<inode, data, ifree, bfree, opened, stray>> /\ reply' = Reply("rename", q, FALSE)
  BY DEF Add, Refuse, NoName
<1>8. OpenIn(inode, ifree)
  BY DEF OpenNow, OpenIn
<1> HIDE DEF g, d, n, x, e, b
<1>9. CASE /\ Has(d, NoName) /\ RemoveDentry(WithEntry(d, Find(d, NoName), e), inode, bfree, g, n)
           /\ ifree' = ifree /\ UNCHANGED <<opened, stray>>
  <2> DEFINE y == SpotOf(d, Find(d, NoName))
             dat1 == Write(data, y, e)
             k == InBlock(FirstPlace(dat1, g, n))
             z == SpotOf(g, FirstPlace(dat1, g, n))
             left == Write(dat1, z, Null)
  <2>1. /\ y \in Spot /\ y[1] \in BlocksOf(inode, d)
        /\ At(data, y).name \notin Name
        /\ \A c \in DirsOf(inode, ifree) : HeadOf(inode, c) # y
        /\ WithEntry(d, Find(d, NoName), e) = dat1
    BY <1>1, <1>9, RoomMeans
  <2> HIDE DEF y
  <2>2. /\ At(dat1, y) = e
        /\ \A w \in Spot : w # y => At(dat1, w) = At(data, w)
    BY <1>2, <1>3, <2>1, TypedFacts, Put
  <2>3. /\ data' = left /\ inode' = Shrunk(inode, left, g, k) /\ bfree' = Returned(bfree, left, g, k)
    <3>1. RemoveDentry(dat1, inode, bfree, g, n)
      BY <1>9, <2>1
    <3> QED BY <3>1, RemoveMeans
  <2> HIDE DEF dat1
  <2>4. /\ k \in 1 .. Len(inode[g].blk) /\ z \in Spot /\ z[1] \in BlocksOf(inode, g)
        /\ At(dat1, z).name = n
    <3> DEFINE m == FirstPlace(dat1, g, n)
    <3>1. x # y
      BY <1>3, <2>1 DEF Live
    <3>2. At(dat1, x).name = n
      BY <1>3, <2>2, <3>1
    <3>3. \E l \in Places(g) : At(dat1, SpotOf(g, l)).name = n
      BY <1>3, <3>2 DEF x
    <3>4. m \in Places(g) /\ At(dat1, SpotOf(g, m)).name = n
      BY <1>2, <3>3, FirstPlaceMeans
    <3>5. /\ SpotOf(g, m) \in Spot /\ SpotOf(g, m)[1] \in BlocksOf(inode, g)
          /\ InBlock(m) \in 1 .. Len(inode[g].blk)
      BY <1>2, <3>4, SpotIn
    <3> QED BY <3>4, <3>5
  <2> HIDE DEF z, k
  <2>5. z = x \/ z = y
    <3> SUFFICES ASSUME z # y PROVE z = x
      OBVIOUS
    <3>1. At(data, z).name = n
      BY <2>2, <2>4
    <3>2. z \in Live(data)
      BY <1>1, <2>4, <3>1 DEF Live
    <3> QED BY <1>3, <2>4, <3>1, <3>2
  <2>6. left = Write(Write(data, y, At(data, x)), z, Null)
    BY <1>3 DEF dat1
  <2> HIDE DEF left
  <2>7. TreeOK(inode, left, ifree, bfree)
    BY <1>1, <1>3, <1>5, <2>1, <2>5, <2>6, Copied DEF TreeNow
  <2>8. TreeNext /\ OpenNext
    BY <1>1, <1>8, <1>9, <2>3, <2>4, <2>7, Removing
  <2>9. Moves({e.ino}, e, d)
    <3>1. \A c \in DirsOf(inode', ifree') :
            c \in DirsOf(inode, ifree) /\ BlocksOf(inode', c) \subseteq BlocksOf(inode, c)
      BY <1>1, <1>9, <2>3, <2>4, <2>7, ShrunkMeans DEF TreeOK
    <3>2. \A c \in DirsOf(inode', ifree') : y[1] \in BlocksOf(inode', c) => c = d
      BY <1>1, <1>2, <2>1, <3>1, OneHolder
    <3>3. z = y => \A c \in DirsOf(inode', ifree') : x[1] \in BlocksOf(inode', c) => c = d
      BY <1>1, <1>2, <1>3, <2>1, <2>4, <3>1, OneHolder
    <3> QED BY <1>3, <2>1, <2>3, <2>5, <2>6, <3>1, <3>2, <3>3, EntryMoved
  <2> QED BY <2>8, <2>9 DEF e, d
<1>10. CASE /\ ~Has(d, NoName) /\ ~Full(d) /\ bfree # {}
            /\ RemoveDentry([data EXCEPT ![b][1] = e], Grown(d, b), bfree \ {b}, g, n)
            /\ ifree' = ifree /\ UNCHANGED <<opened, stray>>
  <2> DEFINE y == <<b, 1>>
             in1 == Grown(d, b)
             bf1 == bfree \ {b}
             dat1 == Write(data, y, e)
             k == InBlock(FirstPlace(dat1, g, n))
             z == SpotOf(g, FirstPlace(dat1, g, n))
             left == Write(dat1, z, Null)
  <2>1. /\ TreeOK(in1, data, ifree, bf1) /\ d \in DirsOf(in1, ifree)
        /\ \A i \in Ino : i # d => in1[i] = inode[i]
        /\ \A w \in Live(data) : w[1] \in BlocksOf(in1, d) => w[1] \in BlocksOf(inode, d)
        /\ BlocksOf(in1, d) \subseteq BlocksOf(inode, d) \cup {b}
        /\ y \in Spot /\ y[1] \in BlocksOf(in1, d) /\ y[1] = b
        /\ At(data, y).name \notin Name
        /\ \A c \in DirsOf(in1, ifree) : HeadOf(in1, c) # y
    BY <1>1, <1>6, <1>10, Growing
  <2>2. /\ data' = left /\ inode' = Shrunk(in1, left, g, k) /\ bfree' = Returned(bf1, left, g, k)
    <3>1. [data EXCEPT ![b][1] = e] = dat1
      BY DEF Write
    <3>2. RemoveDentry(dat1, in1, bf1, g, n)
      BY <1>10, <3>1
    <3> HIDE DEF dat1, in1, bf1
    <3> QED BY <3>2, RemoveMeans
  <2> HIDE DEF y, in1, bf1
  <2>3. /\ dat1 \in [Blk -> [Index -> Ent]] /\ At(dat1, y) = e
        /\ \A w \in Spot : w # y => At(dat1, w) = At(data, w)
    BY <1>2, <1>3, <2>1, TypedFacts, Put
  <2> HIDE DEF dat1
  <2>4. \A c \in Ino \ ifree : b \notin BlocksOf(inode, c)
    BY <1>6, <1>10 DEF TreeNow, TreeOK, Owned, Taken
  <2>5. /\ k \in 1 .. Len(inode[g].blk) /\ z \in Spot /\ z[1] \in BlocksOf(inode, g)
        /\ At(dat1, z).name = n /\ z[1] = inode[g].blk[k]
    <3> DEFINE m == FirstPlace(dat1, g, n)
    <3>1. x # y
      BY <1>3, <2>1 DEF Live
    <3>2. At(dat1, x).name = n
      BY <1>3, <2>3, <3>1
    <3>3. \E l \in Places(g) : At(dat1, SpotOf(g, l)).name = n
      BY <1>3, <3>2 DEF x
    <3>4. m \in Places(g) /\ At(dat1, SpotOf(g, m)).name = n
      BY <1>2, <3>3, FirstPlaceMeans
    <3>5. /\ SpotOf(g, m) \in Spot /\ SpotOf(g, m)[1] \in BlocksOf(inode, g)
          /\ InBlock(m) \in 1 .. Len(inode[g].blk)
      BY <1>2, <3>4, SpotIn
    <3> QED BY <3>4, <3>5 DEF SpotOf
  <2> HIDE DEF z, k
  <2>6. z = x
    <3>1. z # y
      BY <1>2, <2>1, <2>4, <2>5
    <3>2. At(data, z).name = n
      BY <2>3, <2>5, <3>1
    <3>3. z \in Live(data)
      BY <1>1, <2>5, <3>2 DEF Live
    <3> QED BY <1>3, <2>5, <3>2, <3>3
  <2>7. left = Write(Write(data, y, At(data, x)), z, Null)
    BY <1>3 DEF dat1
  <2>8. \A w \in Live(data) : w # x /\ w[1] \in BlocksOf(in1, d) => At(data, w).name # At(data, x).name
    BY <1>5, <2>1
  <2>9. TreeOK(in1, left, ifree, bf1)
    <3> HIDE DEF left
    <3> QED BY <1>3, <2>1, <2>6, <2>7, <2>8, Copied
  <2>10. OpenIn(in1, ifree)
    <3>1. d \notin opened
      BY <1>1, <1>8, KindFacts DEF OpenIn, DirsOf
    <3> QED BY <1>8, <2>1, <3>1 DEF OpenIn
  <2>13. ASSUME \A c \in DirsOf(inode', ifree') :
                  c \in DirsOf(in1, ifree) /\ BlocksOf(inode', c) \subseteq BlocksOf(in1, c)
         PROVE  Moves({e.ino}, e, d)
    <3>1. ASSUME NEW c \in DirsOf(inode', ifree')
          PROVE  /\ c \in DirsOf(inode, ifree)
                 /\ BlocksOf(inode', c) \subseteq BlocksOf(inode, c) \cup {b}
                 /\ b \in BlocksOf(inode', c) => c = d
      <4>1. c \in DirsOf(in1, ifree) /\ BlocksOf(inode', c) \subseteq BlocksOf(in1, c)
        BY <2>13
      <4>2. CASE c = d
        BY <1>1, <2>1, <4>1, <4>2
      <4>3. CASE c # d
        <5>1. c \in Ino \ ifree /\ in1[c] = inode[c]
          BY <2>1, <4>1, <4>3 DEF DirsOf
        <5> QED BY <2>4, <4>1, <5>1 DEF DirsOf, BlocksOf
      <4> QED BY <4>2, <4>3
    <3>2. \A c \in DirsOf(inode', ifree') : y[1] \in BlocksOf(inode', c) => c = d
      BY <2>1, <3>1
    <3>3. z # y
      BY <1>3, <2>1, <2>6 DEF Live
    <3>4. \A c \in DirsOf(inode', ifree') :
            c \in DirsOf(inode, ifree) /\ BlocksOf(inode', c) \subseteq BlocksOf(inode, c) \cup bfree
      BY <1>6, <1>10, <3>1
    <3>5. data' = left
      BY <2>2
    <3> HIDE DEF left
    <3> QED BY <1>3, <2>1, <2>6, <2>7, <3>2, <3>3, <3>4, <3>5, EntryMoved
  <2>11. CASE g # d
    <3>1. in1[g] = inode[g] /\ g \in DirsOf(in1, ifree)
      BY <1>1, <2>1, <2>11 DEF DirsOf
    <3> HIDE DEF left
    <3>2. TreeNext /\ OpenNext
      BY <1>10, <2>2, <2>5, <2>9, <2>10, <3>1, Removing
    <3>3. \A c \in DirsOf(inode', ifree') :
            c \in DirsOf(in1, ifree) /\ BlocksOf(inode', c) \subseteq BlocksOf(in1, c)
      BY <1>10, <2>2, <2>5, <2>9, <3>1, ShrunkMeans DEF TreeOK
    <3> QED BY <2>13, <3>2, <3>3 DEF e, d
  <2>12. CASE g = d
    <3>1. ~HoldsNone(left, inode[g].blk[k])
      <4>1. x[2] \in Index /\ x = <<x[1], x[2]>> /\ x[1] \in Blk
        BY <1>3 DEF Spot
      <4>2. PICK j \in Index : j # x[2]
        <5>1. 1 \in Index /\ 2 \in Index
          BY SizeAssumption DEF Index
        <5> QED BY <5>1
      <4>3. <<x[1], j>> \in Spot /\ <<x[1], j>>[1] = x[1] /\ <<x[1], j>> # x /\ <<x[1], j>>[2] = j
        BY <4>1, <4>2 DEF Spot
      <4> DEFINE w == <<x[1], j>>
      <4>4. w # y
        BY <1>2, <1>3, <2>1, <2>4, <4>3
      <4>5. PICK l \in Places(d) : SpotOf(d, l) = w
        BY <1>2, <1>3, <2>12, <4>3, SpotFrom
      <4>6. At(data, w).name # NoName
        <5>1. \A m \in Places(d) : EntryAt(d, m).name # NoName
          BY <1>2, <1>10, FindMeans
        <5> QED BY <1>2, <4>5, <5>1, SpotIn
      <4> HIDE DEF w
      <4>7. At(left, w) = At(data, w)
        <5>1. \A v \in Spot : v # z => At(left, v) = At(dat1, v)
          BY <2>3, <2>5, NullIn, Put
        <5> QED BY <2>3, <2>6, <4>3, <4>4, <5>1 DEF w
      <4>8. left[inode[g].blk[k]][j].name # NoName
        BY <2>5, <2>6, <4>3, <4>6, <4>7 DEF At, w
      <4> QED BY <4>2, <4>8 DEF HoldsNone
    <3>2. inode' = in1 /\ bfree' = bf1
      BY <2>2, <3>1 DEF Shrunk, Returned
    <3>3. TreeNext /\ OpenNext
      BY <1>10, <2>2, <2>9, <2>10, <3>2 DEF TreeNext, OpenNext, OpenIn
    <3>4. ifree' = ifree /\ \A c : BlocksOf(inode', c) = BlocksOf(in1, c)
      BY <1>10, <3>2
    <3> QED BY <2>13, <3>2, <3>3, <3>4 DEF e, d
  <2> QED BY <2>11, <2>12
<1>11. CASE UNCHANGED <<inode, data, ifree, bfree, opened, stray>> /\ reply' = Reply("rename", q, FALSE)
  <2>1. ~reply'.ok
    BY <1>11, Zenon DEF Reply
  <2>2. TreeNext /\ OpenNext
    BY <1>11 DEF TreeNow, TreeNext, OpenNow, OpenNext
  <2> QED BY <2>1, <2>2
<1> QED BY <1>7, <1>9, <1>10, <1>11 DEF e, d

TreeInv == TreeNow /\ OpenNow

(* A disk that was formatted is a tree.                                    *)
LEMMA Starts ==
  ASSUME Init
  PROVE  TreeInv
<1> DEFINE b == FirstFree(Blk)
           s == <<b>>
           none == << >>
           dots == Dots(Empty, Root, Root)
<1>1. b \in Blk /\ Root \in Ino
  BY BlkAssumption, InoAssumption, FirstFreeIsFree DEF Root
<1>2. dots \in [Index -> Ent] /\ dots[1].name = Self /\ \A j \in Index : dots[j].name \notin Name
  BY <1>1, EmptyMeans, DotsMean
<1>3. /\ inode = [i \in Ino |-> IF i = Root THEN Inode(Dir, s) ELSE Inode(File, none)]
      /\ data = [c \in Blk |-> IF c = b THEN dots ELSE Empty]
      /\ ifree = Ino \ {Root} /\ bfree = Blk \ {b} /\ opened = {} /\ stray = {}
  BY DEF Init, Dir, File
<1>4. s \in Seq(Blk) /\ Len(s) = 1 /\ s[1] = b /\ none \in Seq(Blk) /\ Len(none) = 0
  BY <1>1
<1> HIDE DEF b, s, none, dots
<1>5. /\ Inode(Dir, s) \in Node /\ Inode(Dir, s).blk = s /\ Inode(Dir, s).type = Dir
      /\ Inode(File, none) \in Node /\ Inode(File, none).blk = none
  BY <1>4, KindFacts DEF Inode, Node
<1>6. /\ inode \in [Ino -> Node] /\ inode[Root].blk = s /\ inode[Root].type = Dir
      /\ \A i \in Ino : Len(inode[i].blk) <= NDirect
  <2> DEFINE nd == Inode(Dir, s)
             nf == Inode(File, none)
  <2>1. /\ nd \in Node /\ nd.blk = s /\ nd.type = Dir /\ nf \in Node /\ nf.blk = none
        /\ inode = [i \in Ino |-> IF i = Root THEN nd ELSE nf]
    BY <1>3, <1>5
  <2> HIDE DEF nd, nf
  <2>2. Len(nd.blk) <= NDirect /\ Len(nf.blk) <= NDirect
    <3>1. NDirect \in Nat /\ 1 <= NDirect
      BY SizeAssumption
    <3>2. Len(s) <= NDirect /\ Len(none) <= NDirect
      BY <1>4, <3>1
    <3>3. nd.blk = s /\ nf.blk = none
      BY <2>1
    <3> QED BY <3>2, <3>3
  <2>3. \A i \in Ino : inode[i] = IF i = Root THEN nd ELSE nf
    BY <2>1
  <2> QED BY <1>1, <2>1, <2>2, <2>3
<1>7. data \in [Blk -> [Index -> Ent]]
  BY <1>2, <1>3, EmptyMeans
<1>8. Typed(inode, data, ifree, bfree)
  BY <1>3, <1>6, <1>7 DEF Typed
<1>9. Ino \ ifree = {Root} /\ DirsOf(inode, ifree) = {Root} /\ BlocksOf(inode, Root) = {b}
  <2>1. Ino \ ifree = {Root}
    BY <1>1, <1>3
  <2>2. {s[k] : k \in 1 .. Len(s)} = {b}
    BY <1>4
  <2> QED BY <1>6, <2>1, <2>2 DEF DirsOf, BlocksOf
<1>10. Live(data) = {}
  BY <1>2, <1>3, EmptyMeans DEF Live, At, Spot
<1>11. Owned(inode, ifree, bfree)
  <2>1. Covered(inode, ifree, bfree) /\ Taken(inode, ifree, bfree)
    BY <1>1, <1>3, <1>9 DEF Covered, Taken
  <2>2. OnePlace(inode, ifree)
    BY <1>4, <1>6, <1>9 DEF OnePlace
  <2> QED BY <2>1, <2>2 DEF Owned
<1>12. Headed(inode, data, ifree)
  <2>1. HeadOf(inode, Root)[1] = b /\ HeadOf(inode, Root)[2] = 1 /\ Len(inode[Root].blk) = 1
    BY <1>4, <1>6 DEF HeadOf
  <2>2. At(data, HeadOf(inode, Root)).name = Self
    BY <1>1, <1>2, <1>3, <2>1 DEF At
  <2>3. Len(inode[Root].blk) > 0
    BY <2>1
  <2> QED BY <1>9, <2>2, <2>3 DEF Headed
<1>13. NamesOK(inode, data, ifree)
  BY <1>9, <1>10, <1>12 DEF NamesOK, Housed, Linked, LinkedOnce, AllLinked, Distinct
<1> QED BY <1>3, <1>8, <1>9, <1>11, <1>13 DEF TreeInv, TreeNow, TreeOK, Rooted, OpenNow

-----------------------------------------------------------------------------
(* A directory that grows stays an inode.                                  *)
LEMMA GrownIn ==
  ASSUME TreeNow, NEW d \in Ino, NEW b \in bfree
  PROVE  /\ Grown(d, b) \in [Ino -> Node]
         /\ \A i \in Ino : Grown(d, b)[i].type = inode[i].type
<1> DEFINE new == [inode[d] EXCEPT !.blk = Append(@, b)]
<1>1. /\ inode \in [Ino -> Node] /\ inode[d] \in Node /\ inode[d].blk \in Seq(Blk)
      /\ b \in Blk /\ inode[d].type \in Kind
  BY TypedFacts DEF TreeNow, TreeOK, Typed
<1>2. Append(inode[d].blk, b) \in Seq(Blk)
  BY <1>1
<1>3. new \in Node /\ new.type = inode[d].type
  BY <1>1, <1>2 DEF Node
<1>4. Grown(d, b) = [inode EXCEPT ![d] = new]
  BY DEF Grown
<1> HIDE DEF new
<1> QED BY <1>1, <1>3, <1>4

(* A file is opened, or its number is lost and not used.                   *)
Opens(t) == opened' \in {opened, opened \cup {t}} /\ stray' = stray

(* What create and mkdir leave of the files that are open.                 *)
LEMMA OpenStays ==
  ASSUME TreeNow, OpenNow, NEW t \in ifree, NEW in \in [Ino -> Node], NEW node,
         \A i \in Ino : in[i].type = inode[i].type,
         inode' = [in EXCEPT ![t] = node], ifree' = ifree \ {t},
         stray' = stray,
         opened' = opened \/ (opened' = opened \cup {t} /\ node.type = File)
  PROVE  OpenNext
BY DEF OpenNow, OpenNext, TreeNow, TreeOK, Typed

(* create keeps both.                                                      *)
LEMMA CreateStep ==
  ASSUME TreeInv, NEW p \in Path, NEW heard \in BOOLEAN, ~Crowds, ~Strays \/ heard, Create(p, heard)
  PROVE  TreeInv'
<1> DEFINE d == DirOf(p)
           t == FirstFree(ifree)
           b == FirstFree(bfree)
           node == Inode(File, << >>)
<1>1. TreeNow /\ OpenNow
  BY DEF TreeInv
<1>2. d \in DirsOf(inode, ifree) /\ Last(p) \in Name /\ ~Has(d, Last(p)) /\ ~Full(d)
  BY <1>1, PathMeans, WalkEnds DEF Create, IsNew, DirOf, TreeNow
<1>3. CASE ifree = {}
  BY <1>1, <1>3 DEF Create, NoInode, Astray, Refuse, TreeInv, TreeNow, OpenNow
<1>4. CASE ifree # {} /\ CreateFile(d, p, heard)
  <2>1. TreeNext
    BY <1>1, <1>2, <1>4, CreateKeeps
  <2>2. t \in ifree
    BY <1>1, <1>4, InoAssumption, FirstFreeIsFree DEF TreeNow, TreeOK, Typed
  <2>3. node.type = File
    BY DEF Inode
  <2>4. \/ /\ inode' = [inode EXCEPT ![t] = node] /\ ifree' = ifree \ {t}
           /\ Opens(t)
        \/ /\ inode' = [Grown(d, b) EXCEPT ![t] = node] /\ ifree' = ifree \ {t}
           /\ Opens(t) /\ bfree # {}
        \/ UNCHANGED <<inode, ifree, opened, stray>>
    BY <1>2, <1>4 DEF CreateFile, Handle, Astray, Opens, GoWild, File
  <2> HIDE DEF node, t, b, d
  <2>5. OpenNext
    <3>1. inode \in [Ino -> Node] /\ \A i \in Ino : inode[i].type = inode[i].type
      BY <1>1 DEF TreeNow, TreeOK, Typed
    <3>2. CASE inode' = [inode EXCEPT ![t] = node] /\ ifree' = ifree \ {t} /\ Opens(t)
      BY <1>1, <2>2, <2>3, <3>1, <3>2, OpenStays DEF Opens
    <3>3. CASE /\ inode' = [Grown(d, b) EXCEPT ![t] = node] /\ ifree' = ifree \ {t}
               /\ Opens(t) /\ bfree # {}
      <4>1. b \in bfree
        BY <1>1, <3>3, BlkAssumption, FirstFreeIsFree DEF TreeNow, TreeOK, Typed, b
      <4>2. Grown(d, b) \in [Ino -> Node] /\ \A i \in Ino : Grown(d, b)[i].type = inode[i].type
        <5>1. d \in Ino
          BY <1>2 DEF DirsOf
        <5> QED BY <1>1, <4>1, <5>1, GrownIn
      <4> DEFINE in1 == Grown(d, b)
      <4>3. in1 \in [Ino -> Node] /\ (\A i \in Ino : in1[i].type = inode[i].type) /\ inode' = [in1 EXCEPT ![t] = node]
        BY <3>3, <4>2
      <4> HIDE DEF in1
      <4> QED BY <1>1, <2>2, <2>3, <3>3, <4>3, OpenStays DEF Opens
    <3>4. CASE UNCHANGED <<inode, ifree, opened, stray>>
      BY <1>1, <3>4 DEF OpenNow, OpenNext
    <3> QED BY <2>4, <3>2, <3>3, <3>4
  <2> QED BY <2>1, <2>5 DEF TreeInv, TreeNow, TreeNext, OpenNow, OpenNext
<1> QED BY <1>3, <1>4 DEF Create

(* So does mkdir, of either version.                                       *)
LEMMA MkdirStep ==
  ASSUME TreeInv, NEW d \in DirsOf(inode, ifree), NEW p, Last(p) \in Name, ~Has(d, Last(p)),
         NEW heard \in BOOLEAN, MakeDirentry(d, p, heard)
  PROVE  TreeInv'
<1> DEFINE t == FirstFree(ifree)
           b == FirstFree(bfree)
           c == FirstFree(bfree \ {b})
<1>1. TreeNow /\ OpenNow /\ TreeNext /\ d \in Ino
  BY MkdirKeeps DEF TreeInv, DirsOf
<1>2. ifree # {} => t \in ifree
  BY <1>1, InoAssumption, FirstFreeIsFree DEF TreeNow, TreeOK, Typed
<1>3. (bfree # {} => b \in bfree) /\ (Cardinality(bfree) > 1 => bfree # {})
  <2>1. bfree # {} => b \in bfree
    BY <1>1, BlkAssumption, FirstFreeIsFree DEF TreeNow, TreeOK, Typed
  <2>2. Cardinality({}) = 0
    BY FS_EmptySet
  <2> QED BY <2>1, <2>2
<1>4. \/ /\ ifree # {} /\ inode' = [inode EXCEPT ![t] = Inode("dir", <<b>>)]
         /\ ifree' = ifree \ {t} /\ UNCHANGED <<opened, stray>>
      \/ /\ bfree # {} /\ inode' = Grown(d, b) /\ ifree' = ifree /\ UNCHANGED <<opened, stray>>
      \/ /\ ifree # {} /\ bfree # {} /\ inode' = [Grown(d, b) EXCEPT ![t] = Inode("dir", <<c>>)]
         /\ ifree' = ifree \ {t} /\ UNCHANGED <<opened, stray>>
      \/ UNCHANGED <<inode, ifree, opened, stray>>
  BY <1>3 DEF MakeDirentry, GoWild, Refuse
<1> DEFINE n1dir == Inode("dir", <<b>>)
           n2dir == Inode("dir", <<c>>)
           in1 == Grown(d, b)
<1>5. /\ inode \in [Ino -> Node] /\ \A i \in Ino : inode[i].type = inode[i].type
      /\ bfree # {} => in1 \in [Ino -> Node] /\ \A i \in Ino : in1[i].type = inode[i].type
  <2>1. bfree # {} => in1 \in [Ino -> Node] /\ \A i \in Ino : in1[i].type = inode[i].type
    BY <1>1, <1>3, GrownIn
  <2> QED BY <1>1, <2>1 DEF TreeNow, TreeOK, Typed
<1>6. \/ /\ ifree # {} /\ inode' = [inode EXCEPT ![t] = n1dir]
         /\ ifree' = ifree \ {t} /\ UNCHANGED <<opened, stray>>
      \/ /\ bfree # {} /\ inode' = in1 /\ ifree' = ifree /\ UNCHANGED <<opened, stray>>
      \/ /\ ifree # {} /\ bfree # {} /\ inode' = [in1 EXCEPT ![t] = n2dir]
         /\ ifree' = ifree \ {t} /\ UNCHANGED <<opened, stray>>
      \/ UNCHANGED <<inode, ifree, opened, stray>>
  BY <1>4
<1> HIDE DEF n1dir, n2dir, in1, t, b, c
<1>7. CASE /\ ifree # {} /\ inode' = [inode EXCEPT ![t] = n1dir]
           /\ ifree' = ifree \ {t} /\ UNCHANGED <<opened, stray>>
  <2>1. OpenNext
    BY <1>1, <1>2, <1>5, <1>7, OpenStays
  <2> QED BY <1>1, <2>1 DEF TreeInv, TreeNow, TreeNext, OpenNow, OpenNext
<1>8. CASE bfree # {} /\ inode' = in1 /\ ifree' = ifree /\ UNCHANGED <<opened, stray>>
  <2>1. OpenNext
    BY <1>1, <1>5, <1>8 DEF OpenNow, OpenNext
  <2> QED BY <1>1, <2>1 DEF TreeInv, TreeNow, TreeNext, OpenNow, OpenNext
<1>9. CASE /\ ifree # {} /\ bfree # {} /\ inode' = [in1 EXCEPT ![t] = n2dir]
           /\ ifree' = ifree \ {t} /\ UNCHANGED <<opened, stray>>
  <2>1. OpenNext
    BY <1>1, <1>2, <1>5, <1>9, OpenStays
  <2> QED BY <1>1, <2>1 DEF TreeInv, TreeNow, TreeNext, OpenNow, OpenNext
<1>10. CASE UNCHANGED <<inode, ifree, opened, stray>>
  BY <1>1, <1>10 DEF OpenNow, OpenNext, TreeInv, TreeNow, TreeNext
<1> QED BY <1>6, <1>7, <1>8, <1>9, <1>10

-----------------------------------------------------------------------------
(* So do the handlers that both versions have.                             *)
LEMMA OtherStep ==
  ASSUME TreeInv, NEW p \in Path, NEW i \in Ino, NEW heard \in BOOLEAN, ~Stale,
         \/ Unlink(p, heard) \/ Open(p) \/ Release(i) \/ Grow(i, heard)
         \/ Truncate(p, heard) \/ EarlierTruncate(p)
  PROVE  TreeInv'
<1>1. TreeNow /\ OpenNow
  BY DEF TreeInv
<1>2. CASE Unlink(p, heard)
  BY <1>1, <1>2, UnlinkKeeps DEF TreeInv, TreeNow, TreeNext, OpenNow, OpenNext
<1>3. CASE Open(p)
  <2>1. Target(p).ino \in Ino \ ifree /\ inode[Target(p).ino].type = File
    BY <1>1, <1>3, FileMeans DEF Open, File
  <2> QED BY <1>1, <1>3, <2>1 DEF Open, TreeInv, TreeNow, OpenNow
<1>4. CASE Release(i)
  BY <1>1, <1>4 DEF Release, TreeInv, TreeNow, OpenNow
<1>5. CASE Grow(i, heard)
  BY <1>1, <1>5, GrowKeeps DEF TreeInv, TreeNow, TreeNext, OpenNow, OpenNext
<1>6. CASE Truncate(p, heard) \/ EarlierTruncate(p)
  BY <1>1, <1>6, TruncateKeeps DEF TreeInv, TreeNow, TreeNext, OpenNow, OpenNext
<1> QED BY <1>2, <1>3, <1>4, <1>5, <1>6

(* So does a step that changes none of this.                               *)
LEMMA RefuseStep ==
  ASSUME TreeInv, UNCHANGED <<inode, data, ifree, bfree, opened, stray>>
  PROVE  TreeInv'
BY DEF TreeInv, TreeNow, OpenNow

(* Every step of net/ keeps it, of programs that make directories in the   *)
(* root only and fill none to its last block.                              *)
LEMMA TreeStep ==
  ASSUME TreeInv, ~Nested, ~Crowds, ~Stale, ~Strays, Next
  PROVE  TreeInv'
<1>1. TreeNow /\ OpenNow /\ Root \in Ino
  BY InoAssumption DEF TreeInv, Root
<1>2. CASE \E p \in Path, heard \in BOOLEAN : Create(p, heard)
  BY <1>2, CreateStep
<1>3. CASE \E p \in Path, heard \in BOOLEAN : Mkdir(p, heard)
  <2>1. PICK p \in Path, heard \in BOOLEAN : Mkdir(p, heard)
    BY <1>3
  <2> DEFINE f == Front(p)
  <2>2. Len(p) = 1 /\ Walk(f).ok /\ ~Has(Walk(f).dir, Last(p)) /\ MakeDirentry(Walk(f).up, p, heard)
    BY <2>1 DEF Mkdir, IsNew, DirOf
  <2>3. f \in Seq(Name) /\ Len(f) = 0 /\ Last(p) \in Name
    <3>1. f \in Seq(Name) /\ Last(p) \in Name /\ p \in Seq(Name)
      BY PathMeans
    <3>2. Len(SubSeq(p, 1, Len(p) - 1)) = 0
      BY <2>2, <3>1
    <3> QED BY <3>1, <3>2 DEF Front
  <2> HIDE DEF f
  <2>4. Walk(f).up = Root /\ Walk(f).dir = Root /\ Walk(f).up \in DirsOf(inode, ifree)
    <3>1. Walk(f) = WalkFrom /\ Walk(f).up \in DirsOf(inode, ifree)
      BY <1>1, <2>2, <2>3, WalkEnds DEF TreeNow
    <3>2. WalkFrom.up = Root /\ WalkFrom.dir = Root
      BY DEF WalkFrom
    <3> QED BY <3>1, <3>2
  <2> QED BY <2>2, <2>3, <2>4, MkdirStep
<1>4. CASE \E p \in Path : Rmdir(p)
  <2>1. PICK p \in Path : Rmdir(p)
    BY <1>4
  <2>2. Walk(Front(p)).up \in DirsOf(inode, ifree) /\ Last(p) \in Name
    BY <1>1, <2>1, PathMeans, WalkEnds DEF Rmdir, Resolves, TreeNow
  <2>3. RemoveDirentry(Walk(Front(p)).up, p)
    BY <2>1 DEF Rmdir
  <2> QED BY <1>1, <2>2, <2>3, RmdirKeeps DEF TreeInv, TreeNow, TreeNext, OpenNow, OpenNext
<1>5. CASE \E p \in Path, heard \in BOOLEAN : Unlink(p, heard) \/ Truncate(p, heard)
  BY <1>1, <1>5, OtherStep
<1>6. CASE \E p \in Path : Open(p)
  BY <1>1, <1>6, OtherStep
<1>7. CASE \E i \in Ino, heard \in BOOLEAN : Grow(i, heard) \/ WriteOver(i, heard)
  <2>1. PICK i \in Ino, heard \in BOOLEAN : Grow(i, heard) \/ WriteOver(i, heard)
    BY <1>7
  <2>2. CASE Grow(i, heard)
    BY <1>1, <2>2, GrowKeeps DEF TreeInv, TreeNow, TreeNext, OpenNow, OpenNext
  <2>3. CASE WriteOver(i, heard)
    BY <1>1, <2>3 DEF WriteOver, OpenNow
  <2> QED BY <2>1, <2>2, <2>3
<1>8. CASE \E i \in Ino : Release(i)
  BY <1>1, <1>8 DEF Release, TreeInv, TreeNow, OpenNow
<1>9. CASE Stopped
  BY <1>9, RefuseStep DEF Stopped, vars
<1> QED BY <1>2, <1>3, <1>4, <1>5, <1>6, <1>7, <1>8, <1>9 DEF Next

(* Every step of the earlier version keeps it, of programs that make       *)
(* directories anywhere and rename where that works.                       *)
LEMMA EarlierStep ==
  ASSUME TreeInv, ~Crowds, ~Stale, ~Careless, EarlierNext
  PROVE  TreeInv'
<1>1. TreeNow /\ OpenNow
  BY DEF TreeInv
<1>2. CASE \E p \in Path : Create(p, TRUE)
  BY <1>2, CreateStep
<1>3. CASE \E p \in Path : EarlierMkdir(p)
  <2>1. PICK p \in Path : EarlierMkdir(p)
    BY <1>3
  <2>2. DirOf(p) \in DirsOf(inode, ifree) /\ Last(p) \in Name /\ ~Has(DirOf(p), Last(p))
    BY <1>1, <2>1, PathMeans, WalkEnds DEF EarlierMkdir, IsNew, DirOf, TreeNow
  <2>3. CASE MakeDirentry(DirOf(p), p, TRUE)
    BY <2>2, <2>3, MkdirStep
  <2>4. CASE Refuse("mkdir", p)
    BY <2>4, RefuseStep DEF Refuse
  <2> QED BY <2>1, <2>3, <2>4 DEF EarlierMkdir
<1>4. CASE \E p \in Path : EarlierRmdir(p)
  <2>1. PICK p \in Path : EarlierRmdir(p)
    BY <1>4
  <2>2. DirOf(p) \in DirsOf(inode, ifree) /\ Last(p) \in Name
    BY <1>1, <2>1, PathMeans, WalkEnds DEF EarlierRmdir, Resolves, DirOf, TreeNow
  <2>3. CASE RemoveDirentry(DirOf(p), p)
    BY <1>1, <2>2, <2>3, RmdirKeeps DEF TreeInv, TreeNow, TreeNext, OpenNow, OpenNext
  <2>4. CASE Refuse("rmdir", p)
    BY <2>4, RefuseStep DEF Refuse
  <2> QED BY <2>1, <2>3, <2>4 DEF EarlierRmdir
<1>5. CASE \E p \in Path : Unlink(p, TRUE) \/ Open(p) \/ EarlierTruncate(p)
  <2>1. PICK i \in Ino : TRUE
    BY InoAssumption
  <2> QED BY <1>5, <2>1, OtherStep
<1>6. CASE \E p \in Path : \E q \in Path : Rename(p, q)
  <2>1. PICK p \in Path, q \in Path : Rename(p, q)
    BY <1>6
  <2>2. KernelSends(p, q) /\ Safe(p, q) /\ (Overwrite(p, q) \/ Add(p, q))
    BY <2>1 DEF Rename
  <2>3. TreeNext /\ OpenNext
    BY <1>1, <2>2, OverwriteKeeps, AddKeeps
  <2> QED BY <2>3 DEF TreeInv, TreeNow, TreeNext, OpenNow, OpenNext
<1>7. CASE \E i \in Ino : Release(i) \/ Grow(i, TRUE)
  <2>1. PICK i \in Ino : Release(i) \/ Grow(i, TRUE)
    BY <1>7
  <2>2. CASE Release(i)
    BY <1>1, <2>2 DEF Release, TreeInv, TreeNow, OpenNow
  <2>3. CASE Grow(i, TRUE)
    BY <1>1, <2>3, GrowKeeps DEF TreeInv, TreeNow, TreeNext, OpenNow, OpenNext
  <2> QED BY <2>1, <2>2, <2>3
<1>8. CASE Stopped
  BY <1>8, RefuseStep DEF Stopped, vars
<1> QED BY <1>2, <1>3, <1>4, <1>5, <1>6, <1>7, <1>8 DEF EarlierNext

(* The blocks of an inode and the directories are those of the invariant.  *)
LEMMA BlocksMean ==
  ASSUME TreeNow
  PROVE  /\ \A i \in Ino : Blocks(i) = BlocksOf(inode, i) /\ BlocksOf(inode, i) \subseteq Blk
         /\ Dirs = DirsOf(inode, ifree)
<1>1. Typed(inode, data, ifree, bfree)
  BY DEF TreeNow, TreeOK
<1>2. ASSUME NEW i \in Ino PROVE Blocks(i) = BlocksOf(inode, i) /\ BlocksOf(inode, i) \subseteq Blk
  BY <1>1, TypedFacts DEF Blocks, BlocksOf, Range
<1> QED BY <1>2 DEF Dirs, DirsOf, Dir

(* BlocksOwned follows from it.                                            *)
LEMMA BlocksAreOwned ==
  ASSUME TreeNow
  PROVE  BlocksOwned
<1>1. /\ Typed(inode, data, ifree, bfree) /\ Covered(inode, ifree, bfree)
      /\ Taken(inode, ifree, bfree) /\ OnePlace(inode, ifree)
  BY DEF TreeNow, TreeOK, Owned
<1>2. \A i \in Ino : Blocks(i) = BlocksOf(inode, i) /\ BlocksOf(inode, i) \subseteq Blk
  BY BlocksMean
<1>3. bfree \cup UNION {Blocks(i) : i \in Ino \ ifree} = Blk
  BY <1>1, <1>2 DEF Covered, Typed
<1>4. \A i \in Ino \ ifree : Blocks(i) \cap bfree = {}
  BY <1>1, <1>2 DEF Taken
<1>5. \A i \in Ino \ ifree : \A j, k \in 1 .. Len(inode[i].blk) :
        inode[i].blk[j] = inode[i].blk[k] => j = k
  BY <1>1 DEF OnePlace
<1>6. \A i, j \in Ino \ ifree : i # j => BlocksOf(inode, i) \cap BlocksOf(inode, j) = {}
  BY <1>1 DEF OnePlace, BlocksOf
<1>7. \A i, j \in Ino \ ifree : i # j => Blocks(i) \cap Blocks(j) = {}
  BY <1>2, <1>6
<1> QED BY <1>3, <1>4, <1>5, <1>7 DEF BlocksOwned

(* The links are the places of names.                                      *)
LEMMA LinksMean ==
  ASSUME TreeNow
  PROVE  /\ \A l \in Links : /\ l = <<l[1], l[2]>> /\ l[1] \in DirsOf(inode, ifree)
                             /\ l[2] \in Places(l[1]) /\ SpotOf(l[1], l[2]) \in Live(data)
                             /\ Entries(l[1])[l[2]] = At(data, SpotOf(l[1], l[2]))
         /\ \A x \in Live(data) : \E l \in Links : SpotOf(l[1], l[2]) = x
         /\ \A l, m \in Links : SpotOf(l[1], l[2]) = SpotOf(m[1], m[2]) => l = m
<1>1. /\ Typed(inode, data, ifree, bfree) /\ OnePlace(inode, ifree) /\ Housed(inode, data, ifree)
      /\ Dirs = DirsOf(inode, ifree)
  BY BlocksMean DEF TreeNow, TreeOK, Owned, NamesOK
<1>2. ASSUME NEW d \in Dirs, NEW k
      PROVE  k \in Named(d) <=> k \in Places(d) /\ SpotOf(d, k) \in Live(data)
  <2>1. d \in Ino
    BY DEF Dirs
  <2>2. 1 .. Len(Entries(d)) = Places(d) /\ \A m \in Places(d) : Entries(d)[m] = EntryAt(d, m)
    BY <1>1, <2>1, EntriesMean
  <2>3. \A m \in Places(d) : SpotOf(d, m) \in Spot /\ EntryAt(d, m) = At(data, SpotOf(d, m))
    BY <1>1, <2>1, SpotIn
  <2>4. \A x \in Spot : At(data, x).name \in Name <=> At(data, x).name \notin {"", ".", ".."}
    <3>1. ASSUME NEW x \in Spot PROVE At(data, x).name \in Name \cup {"", ".", ".."}
      BY <1>1, TypedFacts DEF Ent
    <3> QED BY <3>1, NameAssumption
  <2> QED BY <2>2, <2>3, <2>4 DEF Named, Live
<1>3. ASSUME NEW d \in Dirs, NEW k \in Places(d) PROVE k \in 1 .. NDirent * NDirect
  <2>1. Len(inode[d].blk) \in Nat /\ Len(inode[d].blk) <= NDirect /\ NDirect \in Nat /\ NDirent \in Nat
    BY <1>1, TypedFacts, SizeAssumption DEF Typed, Dirs
  <2>2. NDirent * Len(inode[d].blk) <= NDirent * NDirect
    BY <2>1
  <2> DEFINE a == NDirent * Len(inode[d].blk)
             c == NDirent * NDirect
  <2>3. a \in Nat /\ c \in Nat /\ a <= c /\ k \in 1 .. a
    BY <2>1, <2>2 DEF Places
  <2> HIDE DEF a, c
  <2>4. k \in 1 .. c
    BY <2>3
  <2> QED BY <2>4 DEF c
<1>4. \A l : l \in Links <=> \E d \in Dirs : \E k \in Named(d) : l = <<d, k>>
  <2>1. ASSUME NEW l \in Links PROVE \E d \in Dirs : \E k \in Named(d) : l = <<d, k>>
    BY DEF Links
  <2>2. ASSUME NEW d \in Dirs, NEW k \in Named(d) PROVE <<d, k>> \in Links
    BY <1>2, <1>3 DEF Links
  <2> QED BY <2>1, <2>2
<1>5. ASSUME NEW l \in Links
      PROVE  /\ l = <<l[1], l[2]>> /\ l[1] \in DirsOf(inode, ifree)
             /\ l[2] \in Places(l[1]) /\ SpotOf(l[1], l[2]) \in Live(data)
             /\ Entries(l[1])[l[2]] = At(data, SpotOf(l[1], l[2]))
  <2>1. l = <<l[1], l[2]>> /\ l[1] \in Dirs /\ l[2] \in Named(l[1])
    BY <1>4
  <2>2. l[1] \in Ino
    BY <2>1 DEF Dirs
  <2>3. l[2] \in Places(l[1]) /\ SpotOf(l[1], l[2]) \in Live(data)
    BY <1>2, <2>1
  <2> QED BY <1>1, <2>1, <2>2, <2>3, EntriesMean, SpotIn
<1>6. ASSUME NEW x \in Live(data) PROVE \E l \in Links : SpotOf(l[1], l[2]) = x
  <2>1. PICK d \in DirsOf(inode, ifree) : x[1] \in BlocksOf(inode, d)
    BY <1>1 DEF Housed
  <2>2. d \in Ino /\ d \in Dirs /\ x \in Spot
    BY <1>1, <2>1 DEF Dirs, Live
  <2>3. PICK k \in Places(d) : SpotOf(d, k) = x
    BY <1>1, <2>1, <2>2, SpotFrom
  <2>4. k \in Named(d)
    BY <1>2, <2>2, <2>3
  <2> DEFINE l == <<d, k>>
  <2>5. l \in Links /\ l[1] = d /\ l[2] = k
    BY <1>4, <2>2, <2>4
  <2> HIDE DEF l
  <2> QED BY <2>3, <2>5
<1>7. ASSUME NEW l \in Links, NEW m \in Links, SpotOf(l[1], l[2]) = SpotOf(m[1], m[2])
      PROVE  l = m
  <2>1. /\ l = <<l[1], l[2]>> /\ m = <<m[1], m[2]>>
        /\ l[1] \in Ino \ ifree /\ m[1] \in Ino \ ifree
        /\ l[2] \in Places(l[1]) /\ m[2] \in Places(m[1])
    BY <1>5 DEF DirsOf
  <2>2. l[1] = m[1]
    <3>1. /\ SpotOf(l[1], l[2])[1] \in BlocksOf(inode, l[1])
          /\ SpotOf(m[1], m[2])[1] \in BlocksOf(inode, m[1])
      BY <1>1, <2>1, SpotIn
    <3> QED BY <1>1, <1>7, <2>1, <3>1 DEF OnePlace, BlocksOf
  <2>3. l[2] = m[2]
    BY <1>1, <1>7, <2>1, <2>2, SpotOnce
  <2> QED BY <2>1, <2>2, <2>3
<1> QED BY <1>5, <1>6, <1>7

(* So does NamedOnce.                                                      *)
LEMMA NamedIsOnce ==
  ASSUME TreeNow
  PROVE  NamedOnce
<1>1. /\ Linked(inode, data, ifree) /\ LinkedOnce(data) /\ AllLinked(data, ifree)
  BY DEF TreeNow, TreeOK, NamesOK
<1> DEFINE E(l) == Entries(l[1])[l[2]]
           S(l) == SpotOf(l[1], l[2])
<1>2. /\ \A l \in Links : S(l) \in Live(data) /\ E(l) = At(data, S(l))
      /\ \A x \in Live(data) : \E l \in Links : S(l) = x
      /\ \A l, m \in Links : S(l) = S(m) => l = m
  BY LinksMean
<1> HIDE DEF S
<1>3. \A l \in Links : E(l).ino \notin ifree /\ inode[E(l).ino].type = E(l).type
  BY <1>1, <1>2 DEF Linked
<1>4. ASSUME NEW i \in Ino \ (ifree \cup {Root})
      PROVE  \E l \in Links : E(l).ino = i /\ \A m \in Links : E(m).ino = i => m = l
  <2>1. PICK x \in Live(data) : At(data, x).ino = i
    BY <1>1 DEF AllLinked
  <2>2. PICK l \in Links : S(l) = x
    BY <1>2
  <2>3. ASSUME NEW m \in Links, E(m).ino = i PROVE m = l
    <3>1. S(m) \in Live(data) /\ At(data, S(m)).ino = i
      BY <1>2, <2>3
    <3>2. S(m) = x
      BY <1>1, <2>1, <3>1 DEF LinkedOnce
    <3> QED BY <1>2, <2>2, <3>2
  <2>4. E(l).ino = i
    BY <1>2, <2>1, <2>2
  <2> QED BY <2>3, <2>4
<1> QED BY <1>3, <1>4 DEF NamedOnce

-----------------------------------------------------------------------------
TreeAlways == programs \in {"tree", "earlier"} => TreeInv

(* It is an invariant of both versions.                                    *)
LEMMA TreeHolds ==
  ASSUME ~Nested, ~Crowds, ~Stale, ~Strays, ~Careless
  PROVE  AnySpec => []TreeAlways
<1>1. AnyInit => TreeAlways
  BY Starts DEF AnyInit, TreeAlways
<1>2. TreeAlways /\ [AnyNext]_<<vars, programs>> => TreeAlways'
  <2> SUFFICES ASSUME TreeAlways, [AnyNext]_<<vars, programs>> PROVE TreeAlways'
    OBVIOUS
  <2>1. CASE UNCHANGED <<vars, programs>>
    BY <2>1 DEF vars, TreeAlways, TreeInv, TreeNow, OpenNow
  <2>2. CASE AnyNext
    <3>1. CASE programs = "tree" /\ Next /\ programs' = programs
      BY <3>1, TreeStep DEF TreeAlways
    <3>2. CASE programs = "earlier" /\ EarlierNext /\ programs' = programs
      BY <3>2, EarlierStep DEF TreeAlways
    <3>3. CASE programs \notin {"tree", "earlier"} /\ programs' = programs
      BY <3>3 DEF TreeAlways
    <3> QED BY <2>2, <3>1, <3>2, <3>3 DEF AnyNext
  <2> QED BY <2>1, <2>2
<1> QED BY <1>1, <1>2, PTL DEF AnySpec

(* No block and no inode is ever lost, free and in use, or in use twice, and*)
(* every inode in use has one name: of net/, for programs that make        *)
(* directories in the root only, and of the earlier version, for programs  *)
(* that make them anywhere and rename where that works; for every number of*)
(* inodes, blocks, names and open files, every size of a block and of      *)
(* i_block, and paths of every length, whether the reports to the monitor  *)
(* were taken or not.  Neither kind of programs fills a directory up to    *)
(* the last block, no block comes back with what looks like entries, and   *)
(* nobody writes to a file whose create had its reports refused and so     *)
(* lost the number of the inode (~Strays): then it is false.               *)
THEOREM OwnersAreRight ==
  ASSUME ~Nested, ~Crowds, ~Stale, ~Strays, ~Careless
  PROVE  AnySpec => []OneOwnerEach
<1>1. TreeAlways => OneOwnerEach
  BY BlocksAreOwned, NamedIsOnce DEF TreeAlways, TreeInv, OneOwnerEach
<1> QED BY <1>1, TreeHolds, PTL

-----------------------------------------------------------------------------
Up == ".."
None == "none"

(* Directory d has entry e.                                                *)
Holds(in, dat, fr, d, e) ==
  d \in DirsOf(in, fr) /\ \E x \in Live(dat) : x[1] \in BlocksOf(in, d) /\ At(dat, x) = e

(* The directories that were there are, and have their blocks.             *)
Grows(in, fr, in2, fr2) ==
  \A c \in DirsOf(in, fr) : /\ c \in DirsOf(in2, fr2) /\ BlocksOf(in, c) \subseteq BlocksOf(in2, c)
                            /\ in2[c].blk[1] = in[c].blk[1]

(* Directories are in the root, and a path down to what they hold is short *)
(* enough for programs.                                                    *)
FlatIn(in, dat, fr) ==
  \A d, e : Holds(in, dat, fr, d, e) => d = Root \/ (e.type = File /\ MaxDepth > 1)

(* "." and ".." are the first two entries of a directory, and nowhere else. *)
NeatIn(in, dat, fr) ==
  /\ \A x \in Spot : \/ At(dat, x).name \in Name \cup {NoName}
                     \/ \E d \in DirsOf(in, fr) : x[1] = in[d].blk[1] /\ x[2] \in {1, 2}
  /\ \A d \in DirsOf(in, fr) : At(dat, <<in[d].blk[1], 2>>).name = Up

FlatNow  == FlatIn(inode, data, ifree)
NeatNow  == NeatIn(inode, data, ifree)
FlatNext == FlatIn(inode', data', ifree')
NeatNext == NeatIn(inode', data', ifree')

(* ".." is no name either, and "none" is no kind of entry.                 *)
LEMMA UpFacts == Up \notin Name /\ Up # NoName /\ Up # Self /\ None \notin Kind
BY NameAssumption DEF Up, NoName, Self, None, Kind, File, Dir

(* Directories that only get blocks, and entries that stay, hold what they held.*)
LEMMA HoldsSame ==
  ASSUME NEW in, NEW dat, NEW fr, NEW bf, TreeOK(in, dat, fr, bf),
         NEW in2, NEW dat2, NEW fr2, NEW bf2, TreeOK(in2, dat2, fr2, bf2),
         Grows(in, fr, in2, fr2),
         Live(dat2) = Live(dat), \A x \in Live(dat) : At(dat2, x) = At(dat, x)
  PROVE  \A d, e : Holds(in2, dat2, fr2, d, e) <=> Holds(in, dat, fr, d, e)
<1>1. Housed(in, dat, fr) /\ OnePlace(in2, fr2)
  BY DEF TreeOK, NamesOK, Owned
<1>2. ASSUME NEW d, NEW e, Holds(in, dat, fr, d, e) PROVE Holds(in2, dat2, fr2, d, e)
  BY <1>2 DEF Holds, Grows
<1>3. ASSUME NEW d, NEW e, Holds(in2, dat2, fr2, d, e) PROVE Holds(in, dat, fr, d, e)
  <2>1. PICK x \in Live(dat2) : x[1] \in BlocksOf(in2, d) /\ At(dat2, x) = e
    BY <1>3 DEF Holds
  <2>2. PICK c \in DirsOf(in, fr) : x[1] \in BlocksOf(in, c)
    BY <1>1, <2>1 DEF Housed
  <2>3. c \in DirsOf(in2, fr2) /\ x[1] \in BlocksOf(in2, c) /\ d \in DirsOf(in2, fr2)
    BY <1>3, <2>2 DEF Grows, Holds
  <2>4. c = d
    BY <1>1, <2>1, <2>3, OneHolder
  <2> QED BY <2>1, <2>2, <2>4 DEF Holds
<1> QED BY <1>2, <1>3

(* A name more.                                                            *)
LEMMA HoldsMore ==
  ASSUME NEW in, NEW dat, NEW fr, NEW bf, TreeOK(in, dat, fr, bf),
         NEW in2, NEW dat2, NEW fr2, NEW bf2, TreeOK(in2, dat2, fr2, bf2),
         Grows(in, fr, in2, fr2), NEW y, y \notin Live(dat),
         Live(dat2) = Live(dat) \cup {y}, \A x \in Live(dat) : At(dat2, x) = At(dat, x),
         NEW d \in DirsOf(in2, fr2), y[1] \in BlocksOf(in2, d)
  PROVE  \A c, e : Holds(in2, dat2, fr2, c, e) <=> Holds(in, dat, fr, c, e) \/ (c = d /\ e = At(dat2, y))
<1>1. Housed(in, dat, fr) /\ OnePlace(in2, fr2)
  BY DEF TreeOK, NamesOK, Owned
<1>2. ASSUME NEW c, NEW e, Holds(in, dat, fr, c, e) \/ (c = d /\ e = At(dat2, y))
      PROVE  Holds(in2, dat2, fr2, c, e)
  BY <1>2 DEF Holds, Grows
<1>3. ASSUME NEW c, NEW e, Holds(in2, dat2, fr2, c, e)
      PROVE  Holds(in, dat, fr, c, e) \/ (c = d /\ e = At(dat2, y))
  <2>1. PICK x \in Live(dat2) : x[1] \in BlocksOf(in2, c) /\ At(dat2, x) = e
    BY <1>3 DEF Holds
  <2>0. c \in DirsOf(in2, fr2)
    BY <1>3 DEF Holds
  <2>2. CASE x = y
    BY <1>1, <2>0, <2>1, <2>2, OneHolder
  <2>3. CASE x \in Live(dat)
    <3>2. PICK b \in DirsOf(in, fr) : x[1] \in BlocksOf(in, b)
      BY <1>1, <2>3 DEF Housed
    <3>3. b \in DirsOf(in2, fr2) /\ x[1] \in BlocksOf(in2, b)
      BY <3>2 DEF Grows
    <3>4. b = c
      BY <1>1, <2>0, <2>1, <3>3, OneHolder
    <3> QED BY <2>1, <2>3, <3>2, <3>4 DEF Holds
  <2> QED BY <2>1, <2>2, <2>3
<1> QED BY <1>2, <1>3

(* A name less.                                                            *)
LEMMA HoldsLess ==
  ASSUME NEW in, NEW dat, NEW fr, NEW bf, TreeOK(in, dat, fr, bf),
         NEW in2, NEW dat2, NEW fr2, NEW bf2, TreeOK(in2, dat2, fr2, bf2),
         Grows(in2, fr2, in, fr), NEW x \in Live(dat),
         Live(dat2) = Live(dat) \ {x}, \A y \in Live(dat2) : At(dat2, y) = At(dat, y)
  PROVE  \A c, e : Holds(in2, dat2, fr2, c, e) <=> Holds(in, dat, fr, c, e) /\ e.ino # At(dat, x).ino
<1>1. Housed(in, dat, fr) /\ Housed(in2, dat2, fr2) /\ OnePlace(in, fr) /\ LinkedOnce(dat)
  BY DEF TreeOK, NamesOK, Owned
<1>2. ASSUME NEW c, NEW e, Holds(in2, dat2, fr2, c, e)
      PROVE  Holds(in, dat, fr, c, e) /\ e.ino # At(dat, x).ino
  <2>1. PICK y \in Live(dat2) : y[1] \in BlocksOf(in2, c) /\ At(dat2, y) = e
    BY <1>2 DEF Holds
  <2>2. y \in Live(dat) /\ y # x /\ At(dat, y) = e
    BY <2>1
  <2>3. c \in DirsOf(in, fr) /\ y[1] \in BlocksOf(in, c)
    BY <1>2, <2>1 DEF Grows, Holds
  <2> QED BY <1>1, <2>2, <2>3 DEF Holds, LinkedOnce
<1>3. ASSUME NEW c, NEW e, Holds(in, dat, fr, c, e), e.ino # At(dat, x).ino
      PROVE  Holds(in2, dat2, fr2, c, e)
  <2>1. PICK y \in Live(dat) : y[1] \in BlocksOf(in, c) /\ At(dat, y) = e
    BY <1>3 DEF Holds
  <2>2. y \in Live(dat2) /\ At(dat2, y) = e
    BY <1>3, <2>1
  <2>3. PICK b \in DirsOf(in2, fr2) : y[1] \in BlocksOf(in2, b)
    BY <1>1, <2>2 DEF Housed
  <2>4. b \in DirsOf(in, fr) /\ y[1] \in BlocksOf(in, b) /\ c \in DirsOf(in, fr)
    BY <1>3, <2>3 DEF Grows, Holds
  <2>5. b = c
    BY <1>1, <2>1, <2>4, OneHolder
  <2> QED BY <2>2, <2>3, <2>5 DEF Holds
<1> QED BY <1>2, <1>3

(* What a directory holds has an inode, of one holder and one name.        *)
LEMMA HeldOnce ==
  ASSUME NEW in, NEW dat, NEW fr, NEW bf, TreeOK(in, dat, fr, bf)
  PROVE  /\ \A d, e : Holds(in, dat, fr, d, e) =>
              /\ d \in Ino \ fr /\ d \in DirsOf(in, fr) /\ e \in Ent /\ e.name \in Name
              /\ e.type \in Kind /\ e.ino \in Ino \ fr
              /\ e.ino # Root /\ in[e.ino].type = e.type /\ (e.type = Dir => e.ino \in DirsOf(in, fr))
         /\ \A c, d, e, f : /\ Holds(in, dat, fr, c, e) /\ Holds(in, dat, fr, d, f)
                            /\ e.ino = f.ino
                            => c = d /\ e = f
         /\ \A d, e, f : /\ Holds(in, dat, fr, d, e) /\ Holds(in, dat, fr, d, f)
                         /\ e.name = f.name
                         => e = f
<1>1. /\ Typed(in, dat, fr, bf) /\ OnePlace(in, fr) /\ Linked(in, dat, fr) /\ LinkedOnce(dat)
      /\ Distinct(in, dat, fr)
  BY DEF TreeOK, NamesOK, Owned
<1>2. ASSUME NEW d, NEW e, Holds(in, dat, fr, d, e)
      PROVE  /\ d \in Ino \ fr /\ d \in DirsOf(in, fr) /\ e \in Ent /\ e.name \in Name
             /\ e.type \in Kind /\ e.ino \in Ino \ fr
             /\ e.ino # Root /\ in[e.ino].type = e.type /\ (e.type = Dir => e.ino \in DirsOf(in, fr))
  <2>1. PICK x \in Live(dat) : x[1] \in BlocksOf(in, d) /\ At(dat, x) = e
    BY <1>2 DEF Holds
  <2>2. e.name \in Name /\ e \in Ent
    BY <1>1, <2>1, TypedFacts DEF Live
  <2>4. e.type \in Kind
    BY <2>2 DEF Ent
  <2>3. e.ino \in Ino \ fr /\ e.ino # Root /\ in[e.ino].type = e.type
    BY <1>1, <2>1 DEF Linked
  <2> QED BY <1>2, <2>2, <2>3, <2>4 DEF Holds, DirsOf
<1>3. ASSUME NEW c, NEW d, NEW e, NEW f, Holds(in, dat, fr, c, e), Holds(in, dat, fr, d, f),
             e.ino = f.ino
      PROVE  c = d /\ e = f
  <2>1. PICK x \in Live(dat) : x[1] \in BlocksOf(in, c) /\ At(dat, x) = e
    BY <1>3 DEF Holds
  <2>2. PICK y \in Live(dat) : y[1] \in BlocksOf(in, d) /\ At(dat, y) = f
    BY <1>3 DEF Holds
  <2>3. x = y
    BY <1>1, <1>3, <2>1, <2>2 DEF LinkedOnce
  <2>4. c \in DirsOf(in, fr) /\ d \in DirsOf(in, fr)
    BY <1>3 DEF Holds
  <2> QED BY <1>1, <2>1, <2>2, <2>3, <2>4, OneHolder
<1>4. ASSUME NEW d, NEW e, NEW f, Holds(in, dat, fr, d, e), Holds(in, dat, fr, d, f), e.name = f.name
      PROVE  e = f
  BY <1>1, <1>4 DEF Holds, Distinct
<1> QED BY <1>2, <1>3, <1>4

(* A free block holds nothing.                                             *)
LEMMA FreeClean ==
  ASSUME NEW in, NEW dat, NEW fr, NEW bf, TreeOK(in, dat, fr, bf), NeatIn(in, dat, fr)
  PROVE  \A x \in Spot : x[1] \in bf => At(dat, x).name = NoName
<1>1. Typed(in, dat, fr, bf) /\ Taken(in, fr, bf) /\ Headed(in, dat, fr)
  BY DEF TreeOK, NamesOK, Owned
<1> SUFFICES ASSUME NEW x \in Spot, x[1] \in bf PROVE At(dat, x).name = NoName
  OBVIOUS
<1>2. At(dat, x).name \notin Name
  BY FreeDead DEF Live
<1>3. ASSUME NEW d \in DirsOf(in, fr), x[1] = in[d].blk[1] PROVE FALSE
  <2>1. d \in Ino \ fr /\ Len(in[d].blk) \in Nat /\ Len(in[d].blk) > 0
    BY <1>1, TypedFacts DEF Headed, DirsOf
  <2>2. x[1] \in BlocksOf(in, d)
    BY <1>3, <2>1 DEF BlocksOf
  <2> QED BY <1>1, <2>1, <2>2 DEF Taken
<1> QED BY <1>2, <1>3 DEF NeatIn

(* What Has and Get see of a directory.                                    *)
LEMMA HasMeans ==
  ASSUME TreeNow, NEW d \in DirsOf(inode, ifree), NEW n \in Name
  PROVE  /\ Has(d, n) <=> \E e : Holds(inode, data, ifree, d, e) /\ e.name = n
         /\ Has(d, n) => Holds(inode, data, ifree, d, Get(d, n)) /\ Get(d, n).name = n
<1>1. ASSUME Has(d, n) PROVE Holds(inode, data, ifree, d, Get(d, n)) /\ Get(d, n).name = n
  <2> DEFINE x == SpotOf(d, Find(d, n))
  <2>1. /\ x \in Live(data) /\ x[1] \in BlocksOf(inode, d)
        /\ Get(d, n) = At(data, x) /\ At(data, x).name = n
    BY <1>1, FoundMeans
  <2> HIDE DEF x
  <2> QED BY <2>1 DEF Holds
<1>2. ASSUME ~Has(d, n) PROVE ~\E e : Holds(inode, data, ifree, d, e) /\ e.name = n
  BY <1>2, NewName DEF Holds
<1> QED BY <1>1, <1>2

-----------------------------------------------------------------------------
(* Inodes that have kept their types and blocks, or got more.              *)
Extended(in) ==
  /\ in \in [Ino -> Node]
  /\ \A i \in Ino : /\ in[i].type = inode[i].type /\ BlocksOf(inode, i) \subseteq BlocksOf(in, i)
                    /\ Len(inode[i].blk) > 0 => in[i].blk[1] = inode[i].blk[1]

(* Inodes that stay have their types and blocks.                           *)
LEMMA InodeExtended ==
  ASSUME TreeNow
  PROVE  Extended(inode)
BY DEF Extended, TreeNow, TreeOK, Typed

(* So have they when a directory gets one block more.                      *)
LEMMA GrownExtended ==
  ASSUME TreeNow, NEW d \in Ino, NEW b \in bfree
  PROVE  Extended(Grown(d, b)) /\ b \in BlocksOf(Grown(d, b), d)
<1> DEFINE s == inode[d].blk
           new == [inode[d] EXCEPT !.blk = Append(@, b)]
<1>1. /\ inode \in [Ino -> Node] /\ inode[d] \in Node /\ s \in Seq(Blk) /\ Len(s) \in Nat
      /\ b \in Blk /\ Typed(inode, data, ifree, bfree)
  BY TypedFacts DEF TreeNow, TreeOK, Typed
<1>2. new.type = inode[d].type /\ new.blk = Append(s, b) /\ Grown(d, b) = [inode EXCEPT ![d] = new]
  BY <1>1 DEF Grown, Node
<1>3. /\ Grown(d, b) \in [Ino -> Node]
      /\ \A i \in Ino : Grown(d, b)[i].type = inode[i].type
  BY GrownIn
<1>4. Grown(d, b)[d].blk = Append(s, b) /\ \A i \in Ino : i # d => Grown(d, b)[i] = inode[i]
  <2> HIDE DEF new, s
  <2> QED BY <1>1, <1>2
<1> DEFINE in == Grown(d, b)
<1>a. BlocksOf(inode, d) = {s[k] : k \in 1 .. Len(s)}
  BY DEF BlocksOf
<1> HIDE DEF s, in
<1>5. /\ Len(Append(s, b)) = Len(s) + 1 /\ \A k \in 1 .. Len(s) : Append(s, b)[k] = s[k]
      /\ Append(s, b)[Len(s) + 1] = b
  BY <1>1
<1>6. in[d].blk = Append(s, b) /\ \A i \in Ino : i # d => in[i] = inode[i]
  BY <1>4 DEF in
<1>7. BlocksOf(in, d) = {Append(s, b)[k] : k \in 1 .. Len(s) + 1}
  BY <1>5, <1>6 DEF BlocksOf
<1>8. b \in BlocksOf(in, d) /\ BlocksOf(inode, d) \subseteq BlocksOf(in, d)
  BY <1>1, <1>5, <1>7, <1>a
<1>9. \A i \in Ino : BlocksOf(inode, i) \subseteq BlocksOf(in, i)
  <2>1. \A i \in Ino : i # d => BlocksOf(in, i) = BlocksOf(inode, i)
    BY <1>6 DEF BlocksOf
  <2> QED BY <1>8, <2>1
<1>10. \A i \in Ino : Len(inode[i].blk) > 0 => in[i].blk[1] = inode[i].blk[1]
  <2>1. Len(s) > 0 => Append(s, b)[1] = s[1]
    BY <1>1, <1>5
  <2> QED BY <2>1, <1>6 DEF s
<1>11. in \in [Ino -> Node] /\ \A i \in Ino : in[i].type = inode[i].type
  BY <1>3 DEF in
<1>12. Extended(in) /\ b \in BlocksOf(in, d)
  BY <1>8, <1>9, <1>10, <1>11 DEF Extended
<1> QED BY <1>12 DEF in

(* The directories after an inode has been taken.                          *)
TookInode(in, in2, fr2, t, node) ==
  /\ Grows(inode, ifree, in2, fr2)
  /\ node.type = Dir => DirsOf(in2, fr2) = DirsOf(inode, ifree) \cup {t}
  /\ node.type # Dir => DirsOf(in2, fr2) = DirsOf(inode, ifree)
  /\ in2[t] = node /\ \A i \in Ino : i # t => in2[i] = in[i]

(* An inode that is taken changes no directory that was there.             *)
LEMMA StillThere ==
  ASSUME TreeNow, NEW in, Extended(in), NEW t \in ifree, NEW node, NEW in2, in2 = SetNode(in, t, node),
         NEW fr2, fr2 = ifree \ {t}
  PROVE  TookInode(in, in2, fr2, t, node)
<1>1. Typed(inode, data, ifree, bfree) /\ Headed(inode, data, ifree) /\ t \in Ino /\ in \in [Ino -> Node]
  BY DEF TreeNow, TreeOK, NamesOK, Typed, Extended
<1>2. in2[t] = node /\ \A i \in Ino : i # t => in2[i] = in[i]
  BY <1>1 DEF SetNode
<1>3. \A i \in Ino : i # t => in2[i].type = inode[i].type
  BY <1>2 DEF Extended
<1>4. /\ node.type = Dir => DirsOf(in2, fr2) = DirsOf(inode, ifree) \cup {t}
      /\ node.type # Dir => DirsOf(in2, fr2) = DirsOf(inode, ifree)
  BY <1>1, <1>2, <1>3 DEF DirsOf
<1>5. ASSUME NEW c \in DirsOf(inode, ifree)
      PROVE  /\ c \in DirsOf(in2, fr2) /\ BlocksOf(inode, c) \subseteq BlocksOf(in2, c)
             /\ in2[c].blk[1] = inode[c].blk[1]
  <2>1. c \in Ino /\ c # t /\ Len(inode[c].blk) > 0
    BY <1>1 DEF DirsOf, Headed
  <2>2. in2[c] = in[c] /\ BlocksOf(inode, c) \subseteq BlocksOf(in, c) /\ in[c].blk[1] = inode[c].blk[1]
    BY <1>2, <2>1 DEF Extended
  <2> QED BY <1>4, <2>2 DEF BlocksOf
<1>6. Grows(inode, ifree, in2, fr2)
  BY <1>5 DEF Grows
<1> QED BY <1>2, <1>4, <1>6 DEF TookInode

(* Nor do blocks.                                                          *)
LEMMA OnlyMore ==
  ASSUME TreeNow, NEW in, Extended(in)
  PROVE  Grows(inode, ifree, in, ifree) /\ DirsOf(in, ifree) = DirsOf(inode, ifree)
<1>1. Typed(inode, data, ifree, bfree) /\ Headed(inode, data, ifree)
  BY DEF TreeNow, TreeOK, NamesOK
<1>2. DirsOf(in, ifree) = DirsOf(inode, ifree)
  BY DEF DirsOf, Extended
<1> QED BY <1>1, <1>2 DEF Grows, Extended, Headed, DirsOf

-----------------------------------------------------------------------------
(* What a handler that reports to the monitor answers, or its loss.        *)
Told(call, p, ok) == reply' \in {Reply(call, p, ok), Lost(call, p)}

LEMMA TellsTold ==
  ASSUME NEW call, NEW p, NEW ok, NEW heard \in BOOLEAN, Tells(call, p, ok, heard)
  PROVE  Told(call, p, ok)
BY Zenon DEF Tells, Told

(* Entry e is written where there was none, in directory d.                *)
Writes(dat, in2, dat2, d, y, e) ==
  /\ y \in Spot /\ At(dat, y).name = NoName /\ y[1] \in BlocksOf(in2, d) /\ At(dat2, y) = e

LEMMA HandleTold ==
  ASSUME NEW t, NEW p, NEW heard \in BOOLEAN, Handle(t, p, heard)
  PROVE  Told("create", p, TRUE)
BY Zenon DEF Handle, Astray, Told

(* create writes its entry where there was no name, or does nothing.       *)
LEMMA CreateDoes ==
  ASSUME TreeNow, NeatNow, NEW d \in DirsOf(inode, ifree), NEW p, Last(p) \in Name,
         ~Has(d, Last(p)), ifree # {}, ~Full(d), NEW heard \in BOOLEAN, CreateFile(d, p, heard)
  PROVE  \/ UNCHANGED <<inode, data, ifree, bfree, reply>>
         \/ /\ Told("create", p, TRUE)
            /\ \E y : /\ Writes(data, inode', data', d, y, Dirent(Last(p), FirstFree(ifree), File))
                      /\ \A x \in Spot : x # y => At(data', x) = At(data, x)
            /\ Grows(inode, ifree, inode', ifree') /\ DirsOf(inode', ifree') = DirsOf(inode, ifree)
<1> DEFINE n == Last(p)
           t == FirstFree(ifree)
           b == FirstFree(bfree)
           e == Dirent(n, t, File)
           node == Inode(File, << >>)
<1>1. Typed(inode, data, ifree, bfree) /\ d \in Ino /\ TreeOK(inode, data, ifree, bfree)
  BY DEF TreeNow, TreeOK, DirsOf
<1>2. t \in ifree /\ t \in Ino /\ (bfree # {} => b \in bfree)
  BY <1>1, InoAssumption, BlkAssumption, FirstFreeIsFree DEF Typed
<1>3. node.type = File /\ File # Dir /\ File \in Kind
  BY KindFacts DEF Inode
<1>4. e \in Ent
  BY <1>2, <1>3, DirentIn
<1>5. \/ /\ Has(d, NoName) /\ data' = WithEntry(d, Find(d, NoName), e)
         /\ inode' = SetNode(inode, t, node) /\ ifree' = ifree \ {t} /\ Told("create", p, TRUE)
      \/ /\ ~Has(d, NoName) /\ bfree # {} /\ inode' = SetNode(Grown(d, b), t, node)
         /\ data' = [data EXCEPT ![b][1] = e] /\ ifree' = ifree \ {t}
         /\ Told("create", p, TRUE)
      \/ UNCHANGED <<inode, data, ifree, bfree, reply>>
  BY HandleTold DEF CreateFile, GoWild, NoName, File, SetNode
<1> HIDE DEF node, n, t, b, e
<1>6. CASE /\ Has(d, NoName) /\ data' = WithEntry(d, Find(d, NoName), e)
           /\ inode' = SetNode(inode, t, node) /\ ifree' = ifree \ {t} /\ Told("create", p, TRUE)
  <2> DEFINE y == SpotOf(d, Find(d, NoName))
  <2>1. /\ y \in Spot /\ y[1] \in BlocksOf(inode, d) /\ At(data, y).name = NoName
        /\ data' = Write(data, y, e)
    BY <1>6, RoomMeans
  <2> HIDE DEF y
  <2>2. At(data', y) = e /\ \A x \in Spot : x # y => At(data', x) = At(data, x)
    BY <1>1, <1>4, <2>1, Put DEF Typed
  <2>3. Extended(inode)
    BY InodeExtended
  <2>4. Grows(inode, ifree, inode', ifree') /\ DirsOf(inode', ifree') = DirsOf(inode, ifree)
    <3>1. TookInode(inode, inode', ifree', t, node)
      BY <1>2, <1>6, <2>3, StillThere
    <3> QED BY <1>3, <3>1 DEF TookInode
  <2>5. y[1] \in BlocksOf(inode', d)
    BY <2>1, <2>4 DEF Grows
  <2> QED BY <1>6, <2>1, <2>2, <2>4, <2>5 DEF Writes, e, n, t
<1>7. CASE /\ ~Has(d, NoName) /\ bfree # {} /\ inode' = SetNode(Grown(d, b), t, node)
           /\ data' = [data EXCEPT ![b][1] = e] /\ ifree' = ifree \ {t}
           /\ Told("create", p, TRUE)
  <2> DEFINE y == <<b, 1>>
             in1 == Grown(d, b)
  <2>0. b \in bfree /\ b \in Blk /\ 1 \in Index
    BY <1>1, <1>2, <1>7, SizeAssumption DEF Typed, Index
  <2>1. y \in Spot /\ y[1] = b /\ data' = Write(data, y, e)
    BY <1>7, <2>0 DEF Write, Spot
  <2> HIDE DEF y, in1
  <2>2. At(data', y) = e /\ \A x \in Spot : x # y => At(data', x) = At(data, x)
    BY <1>1, <1>4, <2>1, Put DEF Typed
  <2>3. At(data, y).name = NoName
    BY <1>1, <2>0, <2>1, FreeClean DEF NeatNow
  <2>4. Extended(in1) /\ b \in BlocksOf(in1, d) /\ inode' = SetNode(in1, t, node)
    BY <1>1, <1>7, <2>0, GrownExtended DEF in1
  <2>5. /\ Grows(inode, ifree, inode', ifree') /\ DirsOf(inode', ifree') = DirsOf(inode, ifree)
        /\ \A i \in Ino : i # t => inode'[i] = in1[i]
    <3> DEFINE in2 == inode'
               fr2 == ifree'
    <3>1. Extended(in1) /\ t \in ifree /\ in2 = SetNode(in1, t, node) /\ fr2 = ifree \ {t}
      BY <1>2, <1>7, <2>4
    <3>2. node.type # Dir
      BY <1>3
    <3> HIDE DEF in2, fr2
    <3>3. TookInode(in1, in2, fr2, t, node)
      BY <3>1, StillThere
    <3>4. TookInode(in1, inode', ifree', t, node)
      BY <3>3 DEF in2, fr2
    <3> QED BY <3>2, <3>4 DEF TookInode
  <2>6. y[1] \in BlocksOf(inode', d)
    <3>1. d # t
      BY <1>2 DEF DirsOf
    <3> QED BY <1>1, <2>1, <2>4, <2>5, <3>1 DEF BlocksOf
  <2> QED BY <1>7, <2>1, <2>2, <2>3, <2>5, <2>6 DEF Writes, e, n, t
<1> QED BY <1>5, <1>6, <1>7

(* mkdir, where a directory is made.                                       *)
DotsAt(dat, x) ==
  \/ At(dat, x).name = NoName
  \/ x[2] = 1 /\ At(dat, x).name = Self
  \/ x[2] = 2 /\ At(dat, x).name = Up

MakesAt(d, p, t, y, c) ==
  /\ Writes(data, inode', data', d, y, Dirent(Last(p), t, Dir))
  /\ c \in bfree /\ y[1] # c
  /\ \A x \in Spot : x # y /\ x[1] # c => At(data', x) = At(data, x)
  /\ \A x \in Spot : x[1] = c => DotsAt(data', x)
  /\ At(data', <<c, 2>>).name = Up
  /\ Len(inode'[t].blk) = 1 /\ inode'[t].blk[1] = c
  /\ t \in ifree /\ ifree' = ifree \ {t}
  /\ Grows(inode, ifree, inode', ifree')
  /\ DirsOf(inode', ifree') = DirsOf(inode, ifree) \cup {t}

Makes(d, p, t) == \E y, c : MakesAt(d, p, t, y, c)

FillBlock(dat, b, ents) == [dat EXCEPT ![b] = ents]

(* A new block of a directory has two names at most.                       *)
LEMMA DotsAre ==
  ASSUME NEW ents \in [Index -> Ent], \A j \in Index : ents[j].name = NoName, NEW t, NEW d
  PROVE  /\ \A j \in Index : \/ Dots(ents, t, d)[j].name = NoName
                             \/ j = 1 /\ Dots(ents, t, d)[j].name = Self
                             \/ j = 2 /\ Dots(ents, t, d)[j].name = Up
         /\ Dots(ents, t, d)[2].name = Up
<1> DEFINE e1 == Dirent(Self, t, "dir")
           e2 == Dirent(Up, d, "dir")
           new == Dots(ents, t, d)
<1>1. e1.name = Self /\ e2.name = Up
  BY DEF Dirent
<1>2. new = [ents EXCEPT ![1] = e1, ![2] = e2]
  BY DEF Dots, Self, Up
<1>3. 1 \in Index /\ 2 \in Index
  BY SizeAssumption DEF Index
<1> HIDE DEF e1, e2, new
<1>4. new[2] = e2 /\ new[1] = e1 /\ \A j \in Index : j # 1 /\ j # 2 => new[j] = ents[j]
  BY <1>2, <1>3
<1>5. \A j \in Index : \/ new[j].name = NoName
                       \/ j = 1 /\ new[j].name = Self
                       \/ j = 2 /\ new[j].name = Up
  BY <1>1, <1>4
<1> QED BY <1>1, <1>4, <1>5 DEF new

(* mkdir writes its entry and a block of two names, or at most makes its directory*)
(* grow.                                                                   *)
LEMMA MkdirDoes ==
  ASSUME TreeNow, NeatNow, NEW d \in DirsOf(inode, ifree), NEW p, Last(p) \in Name,
         ~Has(d, Last(p)), ~Full(d), NEW heard \in BOOLEAN, MakeDirentry(d, p, heard)
  PROVE  \/ UNCHANGED <<inode, data, ifree, bfree, reply>>
         \/ /\ reply' = Reply("mkdir", p, FALSE) /\ data' = data /\ ifree' = ifree
            /\ Grows(inode, ifree, inode', ifree') /\ DirsOf(inode', ifree') = DirsOf(inode, ifree)
         \/ Told("mkdir", p, TRUE) /\ Makes(d, p, FirstFree(ifree))
<1> DEFINE n == Last(p)
           t == FirstFree(ifree)
           b == FirstFree(bfree)
           c == FirstFree(bfree \ {b})
           e == Dirent(n, t, Dir)
<1>1. Typed(inode, data, ifree, bfree) /\ d \in Ino /\ d \notin ifree /\ TreeOK(inode, data, ifree, bfree)
  BY DEF TreeNow, TreeOK, DirsOf
<1>2. (ifree # {} => t \in ifree /\ t \in Ino) /\ (bfree # {} => b \in bfree)
  BY <1>1, InoAssumption, BlkAssumption, FirstFreeIsFree DEF Typed
<1>3. Cardinality(bfree) > 1 => bfree # {} /\ c \in bfree \ {b}
  <2> SUFFICES ASSUME Cardinality(bfree) > 1 PROVE bfree # {} /\ bfree \ {b} # {}
    BY <1>1, BlkAssumption, FirstFreeIsFree DEF Typed
  <2>1. bfree # {}
    BY FS_EmptySet
  <2>2. bfree \ {b} = {} => bfree = {b}
    BY <1>2, <2>1
  <2>3. Cardinality({b}) = 1
    BY FS_Singleton
  <2> QED BY <2>1, <2>2, <2>3
<1>4. n \in Name /\ Dir \in Kind /\ (ifree # {} => e \in Ent)
  BY <1>2, KindFacts, DirentIn
<1>5. \A x \in bfree : x \in Blk /\ data[x] \in [Index -> Ent] /\ \A j \in Index : data[x][j].name = NoName
  <2>1. ASSUME NEW x \in bfree, NEW j \in Index PROVE data[x][j].name = NoName
    <3>1. <<x, j>> \in Spot /\ <<x, j>>[1] = x
      BY <1>1 DEF Typed, Spot
    <3>2. At(data, <<x, j>>).name = NoName
      BY <1>1, <3>1, FreeClean DEF NeatNow
    <3> QED BY <3>2 DEF At
  <2> QED BY <1>1, <2>1 DEF Typed
<1>a. 1 \in Index /\ 2 \in Index
  BY SizeAssumption DEF Index
<1>6. \/ /\ Has(d, NoName) /\ ifree # {} /\ bfree # {}
         /\ data' = [WithEntry(d, Find(d, NoName), e) EXCEPT ![b] = Dots(data[b], t, d)]
         /\ inode' = SetNode(inode, t, Inode(Dir, <<b>>))
         /\ ifree' = ifree \ {t} /\ Told("mkdir", p, TRUE)
      \/ /\ bfree # {} /\ inode' = Grown(d, b) /\ data' = data /\ ifree' = ifree
         /\ reply' = Reply("mkdir", p, FALSE)
      \/ /\ ~Has(d, NoName) /\ ifree # {} /\ Cardinality(bfree) > 1
         /\ data' = [data EXCEPT ![b][1] = e, ![c] = Dots(Empty, t, d)]
         /\ inode' = SetNode(Grown(d, b), t, Inode(Dir, <<c>>))
         /\ ifree' = ifree \ {t} /\ Told("mkdir", p, TRUE)
      \/ UNCHANGED <<inode, data, ifree, bfree>> /\ reply' = Reply("mkdir", p, FALSE)
      \/ UNCHANGED <<inode, data, ifree, bfree, reply>>
  BY TellsTold DEF MakeDirentry, GoWild, Refuse, NoName, Dir, SetNode
<1> HIDE DEF n, t, b, c, e
<1>7. CASE UNCHANGED <<inode, data, ifree, bfree>> /\ reply' = Reply("mkdir", p, FALSE)
  <2>1. Extended(inode)
    BY InodeExtended
  <2>2. Grows(inode, ifree, inode, ifree) /\ DirsOf(inode, ifree) = DirsOf(inode, ifree)
    BY <2>1, OnlyMore
  <2> QED BY <1>7, <2>2
<1>8. CASE /\ bfree # {} /\ inode' = Grown(d, b) /\ data' = data /\ ifree' = ifree
           /\ reply' = Reply("mkdir", p, FALSE)
  <2> DEFINE in1 == Grown(d, b)
  <2>1. Extended(in1)
    BY <1>1, <1>2, <1>8, GrownExtended
  <2> HIDE DEF in1
  <2>2. Grows(inode, ifree, in1, ifree) /\ DirsOf(in1, ifree) = DirsOf(inode, ifree)
    BY <2>1, OnlyMore
  <2> QED BY <1>8, <2>2 DEF in1
<1>9. ASSUME NEW y \in Spot, At(data, y).name = NoName, NEW in1, Extended(in1), y[1] \in BlocksOf(in1, d),
             NEW a \in bfree, y[1] # a, ifree # {}, NEW ents \in [Index -> Ent],
             \A j \in Index : ents[j].name = NoName, NEW node, Len(node.blk) = 1, node.blk[1] = a,
             node.type = Dir,
             data' = Write(FillBlock(data, a, Dots(ents, t, d)), y, e),
             inode' = SetNode(in1, t, node), ifree' = ifree \ {t}
      PROVE  Makes(d, p, t)
  <2> DEFINE new == Dots(ents, t, d)
             dat1 == [data EXCEPT ![a] = new]
  <2>1. a \in Blk /\ t \in ifree /\ t \in Ino /\ data \in [Blk -> [Index -> Ent]] /\ d # t /\ e \in Ent
    BY <1>1, <1>2, <1>4, <1>9 DEF Typed
  <2>2. /\ \A j \in Index : \/ new[j].name = NoName
                            \/ j = 1 /\ new[j].name = Self
                            \/ j = 2 /\ new[j].name = Up
        /\ new[2].name = Up
    BY <1>9, DotsAre
  <2>0. new \in [Index -> Ent]
    <3>1. \A j \in Index : ents[j].name \notin Name
      BY <1>9, NameFacts
    <3> QED BY <1>1, <2>1, <3>1, DotsMean
  <2> HIDE DEF new
  <2>3. /\ dat1 \in [Blk -> [Index -> Ent]] /\ dat1[a] = new
        /\ \A x \in Blk : x # a => dat1[x] = data[x]
    BY <2>0, <2>1
  <2>4. data' = Write(dat1, y, e)
    BY <1>9 DEF new, FillBlock
  <2> HIDE DEF dat1
  <2>5. /\ At(data', y) = e /\ \A x \in Spot : x # y => At(data', x) = At(dat1, x)
        /\ \A x \in Blk : x # y[1] => data'[x] = dat1[x]
    BY <2>1, <2>3, <2>4, Put
  <2>6. \A x \in Spot : x # y /\ x[1] # a => At(data', x) = At(data, x)
    BY <2>3, <2>5 DEF At, Spot
  <2>7. \A x \in Spot : x[1] = a => At(data', x) = new[x[2]]
    BY <1>9, <2>1, <2>3, <2>5 DEF At
  <2>8. /\ Grows(inode, ifree, inode', ifree')
        /\ DirsOf(inode', ifree') = DirsOf(inode, ifree) \cup {t}
        /\ inode'[t] = node /\ \A i \in Ino : i # t => inode'[i] = in1[i]
    <3> DEFINE in2 == inode'
               fr2 == ifree'
    <3>1. Extended(in1) /\ t \in ifree /\ in2 = SetNode(in1, t, node) /\ fr2 = ifree \ {t}
      BY <1>9, <2>1
    <3> HIDE DEF in2, fr2
    <3>2. TookInode(in1, in2, fr2, t, node)
      BY <3>1, StillThere
    <3>3. TookInode(in1, inode', ifree', t, node)
      BY <3>2 DEF in2, fr2
    <3> QED BY <1>9, <3>3 DEF TookInode
  <2>9. y[1] \in BlocksOf(inode', d)
    BY <1>1, <1>9, <2>1, <2>8 DEF BlocksOf
  <2>10. Writes(data, inode', data', d, y, Dirent(Last(p), t, Dir))
    BY <1>9, <2>5, <2>9 DEF Writes, e, n
  <2>11. \A x \in Spot : x[1] = a => DotsAt(data', x)
    <3> SUFFICES ASSUME NEW x \in Spot, x[1] = a PROVE DotsAt(data', x)
      OBVIOUS
    <3>1. x[2] \in Index /\ At(data', x) = new[x[2]]
      BY <2>7 DEF Spot
    <3>2. \/ At(data', x).name = NoName
          \/ x[2] = 1 /\ At(data', x).name = Self
          \/ x[2] = 2 /\ At(data', x).name = Up
      BY <2>2, <3>1
    <3> QED BY <3>2 DEF DotsAt
  <2>12. At(data', <<a, 2>>).name = Up
    <3>1. <<a, 2>> \in Spot /\ <<a, 2>>[1] = a /\ <<a, 2>>[2] = 2
      BY <1>a, <2>1 DEF Spot
    <3> QED BY <2>2, <2>7, <3>1
  <2>13. MakesAt(d, p, t, y, a)
    BY <1>9, <2>1, <2>6, <2>8, <2>10, <2>11, <2>12 DEF MakesAt
  <2> QED BY <2>13 DEF Makes
<1>10. CASE /\ Has(d, NoName) /\ ifree # {} /\ bfree # {}
            /\ data' = [WithEntry(d, Find(d, NoName), e) EXCEPT ![b] = Dots(data[b], t, d)]
            /\ inode' = SetNode(inode, t, Inode(Dir, <<b>>))
            /\ ifree' = ifree \ {t} /\ Told("mkdir", p, TRUE)
  <2> DEFINE y == SpotOf(d, Find(d, NoName))
             ents == data[b]
             new == Dots(ents, t, d)
             dat1 == [data EXCEPT ![b] = new]
             node == Inode(Dir, <<b>>)
  <2>1. /\ y \in Spot /\ y[1] \in BlocksOf(inode, d) /\ At(data, y).name = NoName
        /\ WithEntry(d, Find(d, NoName), e) = Write(data, y, e)
    BY <1>10, RoomMeans
  <2>2. Len(node.blk) = 1 /\ node.blk[1] = b /\ node.type = Dir
    BY DEF Inode
  <2> HIDE DEF y, new, node
  <2>3. b \in bfree /\ b \in Blk /\ y[1] \in Blk /\ y[2] \in Index
    BY <1>1, <1>2, <1>10, <2>1 DEF Typed, Spot
  <2>4. y[1] # b
    BY <1>1, <2>1, <2>3 DEF TreeNow, TreeOK, Owned, Taken, DirsOf
  <2>5. data' = Write(dat1, y, e)
    <3>1. data' = [Write(data, y, e) EXCEPT ![b] = new]
      BY <1>10, <2>1 DEF new
    <3>2. data \in [Blk -> [Index -> Ent]]
      BY <1>1 DEF Typed
    <3> QED BY <2>3, <2>4, <3>1, <3>2 DEF Write
  <2>6. ents \in [Index -> Ent] /\ \A j \in Index : ents[j].name = NoName
    BY <1>5, <2>3
  <2>7. Extended(inode)
    BY InodeExtended
  <2>8. data' = Write(FillBlock(data, b, Dots(ents, t, d)), y, e)
    BY <2>5 DEF new, FillBlock
  <2>9. inode' = SetNode(inode, t, node)
    BY <1>10 DEF node
  <2> HIDE DEF ents, dat1
  <2>10. Makes(d, p, t)
    BY <1>9, <1>10, <2>1, <2>2, <2>3, <2>4, <2>6, <2>7, <2>8, <2>9
  <2> QED BY <1>10, <2>10 DEF t
<1>11. CASE /\ ~Has(d, NoName) /\ ifree # {} /\ Cardinality(bfree) > 1
            /\ data' = [data EXCEPT ![b][1] = e, ![c] = Dots(Empty, t, d)]
            /\ inode' = SetNode(Grown(d, b), t, Inode(Dir, <<c>>))
            /\ ifree' = ifree \ {t} /\ Told("mkdir", p, TRUE)
  <2> DEFINE y == <<b, 1>>
             in1 == Grown(d, b)
             new == Dots(Empty, t, d)
             dat1 == [data EXCEPT ![c] = new]
             node == Inode(Dir, <<c>>)
  <2>1. b \in bfree /\ b \in Blk /\ c \in bfree /\ c \in Blk /\ b # c
    BY <1>1, <1>2, <1>3, <1>11 DEF Typed
  <2>2. Len(node.blk) = 1 /\ node.blk[1] = c /\ node.type = Dir
    BY DEF Inode
  <2>3. y \in Spot /\ y[1] = b /\ y[2] = 1
    BY <1>a, <2>1 DEF Spot
  <2>4. inode' = SetNode(in1, t, node)
    BY <1>11
  <2>5. Extended(in1) /\ b \in BlocksOf(in1, d)
    BY <1>1, <2>1, GrownExtended
  <2> HIDE DEF y, new, node, in1
  <2>6. data' = Write(dat1, y, e)
    <3>1. data' = [[data EXCEPT ![b][1] = e] EXCEPT ![c] = new]
      BY <1>11 DEF new
    <3>2. data \in [Blk -> [Index -> Ent]]
      BY <1>1 DEF Typed
    <3> QED BY <2>1, <2>3, <3>1, <3>2 DEF Write
  <2>7. At(data, y).name = NoName
    BY <1>1, <2>1, <2>3, FreeClean DEF NeatNow
  <2>8. data' = Write(FillBlock(data, c, Dots(Empty, t, d)), y, e)
    BY <2>6 DEF new, FillBlock
  <2>9. Empty \in [Index -> Ent] /\ \A j \in Index : Empty[j].name = NoName
    BY EmptyMeans, NullIn
  <2> HIDE DEF dat1
  <2>10. y[1] \in BlocksOf(in1, d) /\ y[1] # c
    BY <2>1, <2>3, <2>5
  <2>11. Makes(d, p, t)
    BY <1>9, <1>11, <2>1, <2>2, <2>3, <2>4, <2>5, <2>7, <2>8, <2>9, <2>10
  <2> QED BY <1>11, <2>11 DEF t
<1> QED BY <1>6, <1>7, <1>8, <1>10, <1>11

-----------------------------------------------------------------------------
HoldsNow(d, e)  == Holds(inode, data, ifree, d, e)
HoldsNext(d, e) == Holds(inode', data', ifree', d, e)

(* "." and ".." stay where they are.                                       *)
LEMMA NeatKeeps ==
  ASSUME NEW in, NEW dat, NEW fr, NeatIn(in, dat, fr), NEW in2, NEW dat2, NEW fr2,
         \A x \in Spot : \/ At(dat2, x).name \in Name \cup {NoName}
                         \/ /\ At(dat2, x) = At(dat, x)
                            /\ \A c \in DirsOf(in, fr) : x[1] = in[c].blk[1] => c \in DirsOf(in2, fr2)
                         \/ \E c \in DirsOf(in2, fr2) : x[1] = in2[c].blk[1] /\ x[2] \in {1, 2},
         \A c \in DirsOf(in2, fr2) : \/ At(dat2, <<in2[c].blk[1], 2>>).name = Up
                                     \/ /\ c \in DirsOf(in, fr)
                                        /\ At(dat2, <<in2[c].blk[1], 2>>) = At(dat, <<in[c].blk[1], 2>>),
         \A c \in DirsOf(in, fr) : c \in DirsOf(in2, fr2) => in2[c].blk[1] = in[c].blk[1]
  PROVE  NeatIn(in2, dat2, fr2)
<1>1. ASSUME NEW x \in Spot
      PROVE  \/ At(dat2, x).name \in Name \cup {NoName}
             \/ \E c \in DirsOf(in2, fr2) : x[1] = in2[c].blk[1] /\ x[2] \in {1, 2}
  <2>1. CASE /\ At(dat2, x) = At(dat, x)
             /\ \A c \in DirsOf(in, fr) : x[1] = in[c].blk[1] => c \in DirsOf(in2, fr2)
    <3>1. \/ At(dat, x).name \in Name \cup {NoName}
          \/ \E c \in DirsOf(in, fr) : x[1] = in[c].blk[1] /\ x[2] \in {1, 2}
      BY DEF NeatIn
    <3> QED BY <2>1, <3>1
  <2> QED BY <2>1
<1>2. \A c \in DirsOf(in2, fr2) : At(dat2, <<in2[c].blk[1], 2>>).name = Up
  BY DEF NeatIn
<1> QED BY <1>1, <1>2 DEF NeatIn

(* The block that a directory gives up is not its first one.               *)
LEMMA ShortDoes ==
  ASSUME NEW in, NEW dat, NEW fr, NEW bf, TreeOK(in, dat, fr, bf),
         NEW c \in DirsOf(in, fr), NEW k \in 1 .. Len(in[c].blk),
         \A j \in Index : dat[in[c].blk[k]][j].name = NoName,
         NEW in2, in2 = SetNode(in, c, ShortNode(in, c, k))
  PROVE  /\ in2[c].type = in[c].type /\ in2[c].blk[1] = in[c].blk[1]
         /\ BlocksOf(in2, c) \subseteq BlocksOf(in, c)
         /\ \A i \in Ino : i # c => in2[i] = in[i]
<1>p. /\ Typed(in, dat, fr, bf) /\ OnePlace(in, fr) /\ Headed(in, dat, fr)
  BY DEF TreeOK, Owned, NamesOK
<1> DEFINE s == in[c].blk
           w == Without(s, k)
           node == ShortNode(in, c, k)
<1>1. c \in Ino \ fr /\ c \in Ino /\ s \in Seq(Blk) /\ Len(s) \in Nat /\ in[c] \in Node /\ in \in [Ino -> Node]
  BY <1>p, TypedFacts DEF DirsOf, Typed
<1>2. \A i, j \in 1 .. Len(s) : s[i] = s[j] => i = j
  BY <1>1, <1>p DEF OnePlace
<1>3. k # 1
  <2>1. dat[s[1]][1].name = Self /\ 1 \in Index
    BY <1>p, SizeAssumption DEF Headed, HeadOf, At, Index
  <2> QED BY <2>1, NameFacts
<1>4. Len(s) > 1
  BY <1>1, <1>3
<1>a. k \in 1 .. Len(s)
  OBVIOUS
<1>5. /\ w \in Seq(Blk) /\ Len(w) = Len(s) - 1
      /\ \A m \in 1 .. Len(s) - 1 : w[m] = s[IF m = k THEN Len(s) ELSE m]
  <2> HIDE DEF s
  <2> QED BY <1>1, <1>2, <1>4, <1>a, WithoutMeans
<1>6. node.type = in[c].type /\ node.blk = w
  <2>1. node = [in[c] EXCEPT !.blk = w]
    BY DEF ShortNode
  <2> HIDE DEF w, node
  <2> QED BY <1>1, <1>5, <2>1 DEF Node
<1>7. in2[c] = node /\ \A i \in Ino : i # c => in2[i] = in[i]
  <2> HIDE DEF node
  <2>1. in2 = [in EXCEPT ![c] = node]
    BY DEF node, SetNode
  <2> QED BY <1>1, <2>1
<1>b. BlocksOf(in, c) = {s[m] : m \in 1 .. Len(s)} /\ BlocksOf(in2, c) = {w[m] : m \in 1 .. Len(w)}
  BY <1>6, <1>7 DEF BlocksOf
<1> HIDE DEF w, node
<1>8. BlocksOf(in2, c) \subseteq BlocksOf(in, c) /\ w[1] = s[1]
  <2> HIDE DEF s
  <2>1. ASSUME NEW m \in 1 .. Len(w) PROVE w[m] \in {s[l] : l \in 1 .. Len(s)}
    <3>1. (IF m = k THEN Len(s) ELSE m) \in 1 .. Len(s) /\ w[m] = s[IF m = k THEN Len(s) ELSE m]
      BY <1>1, <1>4, <1>5
    <3> QED BY <3>1
  <2>2. w[1] = s[1]
    BY <1>1, <1>3, <1>4, <1>5
  <2> QED BY <1>b, <2>1, <2>2
<1> QED BY <1>6, <1>7, <1>8

(* unlink takes its entry away, and the block if that was all of it.       *)
LEMMA UnlinkDoes ==
  ASSUME TreeNow, OpenNow, NeatNow, NEW p \in Path, NEW heard \in BOOLEAN, ~Stale,
         Unlink(p, heard), TreeNext
  PROVE  /\ Told("unlink", p, TRUE)
         /\ HoldsNow(DirOf(p), Target(p)) /\ Target(p).name = Last(p) /\ Target(p).type = File
         /\ \A c, f : HoldsNext(c, f) <=> HoldsNow(c, f) /\ f.ino # Target(p).ino
         /\ NeatNext
<1> DEFINE d == DirOf(p)
           n == Last(p)
           x == SpotOf(d, Find(d, n))
           k == InBlock(Find(d, n))
           t == At(data, x).ino
           dat2 == Write(data, x, Null)
<1>1. d \in DirsOf(inode, ifree) /\ n \in Name /\ Has(d, n)
  BY PathMeans, WalkEnds DEF Unlink, Resolves, DirOf, TreeNow
<1>2. Typed(inode, data, ifree, bfree) /\ d \in Ino /\ d \in Ino \ ifree /\ Headed(inode, data, ifree)
  BY <1>1 DEF TreeNow, TreeOK, NamesOK, DirsOf
<1>3. /\ x \in Live(data) /\ x \in Spot /\ x[1] \in BlocksOf(inode, d)
      /\ Get(d, n) = At(data, x) /\ At(data, x).name = n
      /\ t \in Ino \ ifree /\ t # Root /\ inode[t].type = At(data, x).type
      /\ Find(d, n) \in Places(d)
  BY <1>1, FoundMeans
<1>4. /\ [data EXCEPT ![x[1]] = Cleared(x[1], n)] = dat2
      /\ data[x[1]][SelectLastInSeq(data[x[1]], LAMBDA e : e.name = n)] = At(data, x)
      /\ \A j \in Index : Cleared(x[1], n)[j] = dat2[x[1]][j]
  BY <1>1, ClearedIs
<1>5. x[1] = inode[d].blk[k] /\ k \in 1 .. Len(inode[d].blk)
  BY <1>2, <1>3, SpotIn DEF SpotOf
<1>6. /\ inode[t].type = File /\ t \notin DirsOf(inode, ifree) /\ t # d
      /\ At(data, x).type = File /\ Target(p) = At(data, x)
  BY <1>1, <1>3, KindFacts DEF Unlink, Target, File, DirsOf
<1> DEFINE b == inode[d].blk[k]
           empty == \A j \in Index : Cleared(b, n)[j].name = NoName
<1>7. /\ ifree' = ifree \cup {t} /\ Told("unlink", p, TRUE)
      /\ \/ empty /\ inode' = [inode EXCEPT ![d].blk = Without(@, k)]
         \/ inode' = inode
      /\ data' = [data EXCEPT ![b] = Cleared(b, n)]
  <2>1. data[b][SelectLastInSeq(data[b], LAMBDA e : e.name = n)].ino = t
    BY <1>4, <1>5
  <2> QED BY <2>1, TellsTold DEF Unlink, NoName, Index
<1>8. HoldsNow(d, Target(p)) /\ Target(p).name = Last(p)
  BY <1>1, <1>3, <1>6 DEF Holds, HoldsNow
<1> HIDE DEF d, n, x, k, t, dat2, empty
<1>9. /\ dat2 \in [Blk -> [Index -> Ent]] /\ At(dat2, x) = Null
      /\ \A y \in Spot : y # x => At(dat2, y) = At(data, y)
  BY <1>2, <1>3, Put, NullIn DEF Typed, dat2
<1>10. data' = dat2
  BY <1>4, <1>5, <1>7
<1>11. Live(dat2) = Live(data) \ {x} /\ \A y \in Live(dat2) : At(dat2, y) = At(data, y)
  BY <1>3, <1>9, NullIn DEF Live
<1>12. /\ \A i \in Ino : inode'[i].type = inode[i].type
       /\ \A c \in DirsOf(inode, ifree) : /\ BlocksOf(inode', c) \subseteq BlocksOf(inode, c)
                                          /\ inode'[c].blk[1] = inode[c].blk[1]
  <2>1. CASE inode' = inode
    BY <2>1
  <2>2. CASE empty /\ inode' = [inode EXCEPT ![d].blk = Without(@, k)]
    <3> DEFINE in2 == SetNode(inode, d, ShortNode(inode, d, k))
               fr2 == ifree \cup {t}
               bf2 == bfree \cup BlocksOf(inode, t)
    <3>1. inode' = in2
      BY <2>2 DEF SetNode, ShortNode
    <3>2. d \in DirsOf(inode, fr2)
      BY <1>1, <1>6 DEF DirsOf
    <3>3. \A j \in Index : dat2[inode[d].blk[k]][j].name = NoName
      BY <1>4, <1>5, <2>2 DEF empty
    <3>4. TreeOK(inode, dat2, fr2, bf2)
      <4>1. Typed(inode, dat2, fr2, bf2)
        BY <1>2, <1>3, <1>9, TypedFacts DEF Typed
      <4>2. At(dat2, x).name \notin Name
        BY <1>9, NullIn
      <4>3. t = At(data, x).ino
        BY DEF t
      <4>4. TreeOK(inode, data, ifree, bfree)
        BY DEF TreeNow
      <4> QED BY <1>3, <1>6, <1>9, <4>1, <4>2, <4>3, <4>4, DropEntry
    <3> HIDE DEF in2, fr2, bf2
    <3>5. in2 = SetNode(inode, d, ShortNode(inode, d, k))
      BY DEF in2
    <3>6. /\ in2[d].type = inode[d].type /\ in2[d].blk[1] = inode[d].blk[1]
          /\ BlocksOf(in2, d) \subseteq BlocksOf(inode, d)
          /\ \A i \in Ino : i # d => in2[i] = inode[i]
      BY <1>5, <3>2, <3>3, <3>4, <3>5, ShortDoes
    <3>7. \A i \in Ino : in2[i].type = inode[i].type
      BY <3>6
    <3>8. ASSUME NEW c \in DirsOf(inode, ifree)
          PROVE  BlocksOf(in2, c) \subseteq BlocksOf(inode, c) /\ in2[c].blk[1] = inode[c].blk[1]
      <4>1. CASE c = d
        BY <3>6, <4>1
      <4>2. CASE c # d
        BY <3>6, <4>2 DEF DirsOf, BlocksOf
      <4> QED BY <4>1, <4>2
    <3> QED BY <3>1, <3>7, <3>8
  <2> QED BY <1>7, <2>1, <2>2
<1>13. DirsOf(inode', ifree') = DirsOf(inode, ifree)
  BY <1>6, <1>7, <1>12, KindFacts DEF DirsOf
<1>14. Grows(inode', ifree', inode, ifree)
  BY <1>12, <1>13 DEF Grows
<1>15. \A c, f : HoldsNext(c, f) <=> HoldsNow(c, f) /\ f.ino # Target(p).ino
  <2> DEFINE in2 == inode'
             da2 == data'
             fr2 == ifree'
             bf2 == bfree'
  <2>1. TreeOK(in2, da2, fr2, bf2) /\ Grows(in2, fr2, inode, ifree) /\ TreeOK(inode, data, ifree, bfree)
    BY <1>14 DEF TreeNext, TreeNow
  <2>2. Live(da2) = Live(data) \ {x} /\ (\A y \in Live(da2) : At(da2, y) = At(data, y)) /\ x \in Live(data)
    BY <1>3, <1>10, <1>11
  <2> HIDE DEF in2, da2, fr2, bf2
  <2>3. \A c, e : Holds(in2, da2, fr2, c, e) <=> Holds(inode, data, ifree, c, e) /\ e.ino # At(data, x).ino
    BY <2>1, <2>2, HoldsLess
  <2>4. \A c, e : Holds(inode', data', ifree', c, e) <=> Holds(inode, data, ifree, c, e) /\ e.ino # At(data, x).ino
    BY <2>3 DEF in2, da2, fr2
  <2> QED BY <1>6, <2>4 DEF HoldsNow, HoldsNext
<1>16. NeatNext
  <2> DEFINE in2 == inode'
             da2 == data'
             fr2 == ifree'
  <2>1. DirsOf(in2, fr2) = DirsOf(inode, ifree) /\ \A c \in DirsOf(inode, ifree) : in2[c].blk[1] = inode[c].blk[1]
    BY <1>12, <1>13
  <2>2. At(da2, x).name = NoName /\ \A y \in Spot : y # x => At(da2, y) = At(data, y)
    BY <1>9, <1>10, NullIn
  <2> HIDE DEF in2, da2, fr2
  <2>3. ASSUME NEW y \in Spot
        PROVE  \/ At(da2, y).name \in Name \cup {NoName}
               \/ /\ At(da2, y) = At(data, y)
                  /\ \A c \in DirsOf(inode, ifree) : y[1] = inode[c].blk[1] => c \in DirsOf(in2, fr2)
    BY <2>1, <2>2
  <2>4. ASSUME NEW c \in DirsOf(in2, fr2)
        PROVE  At(da2, <<in2[c].blk[1], 2>>) = At(data, <<inode[c].blk[1], 2>>) /\ c \in DirsOf(inode, ifree)
    <3> DEFINE y == <<inode[c].blk[1], 2>>
    <3>1. c \in DirsOf(inode, ifree) /\ in2[c].blk[1] = inode[c].blk[1]
      BY <2>1
    <3>2. At(data, y).name = Up
      BY <3>1 DEF NeatNow, NeatIn
    <3>3. y \in Spot
      <4>1. inode[c].blk[1] \in Blk /\ 2 \in Index
        BY <1>2, <3>1, TypedFacts, SizeAssumption DEF Headed, DirsOf, Index
      <4> QED BY <4>1 DEF Spot
    <3>4. y # x
      BY <1>1, <1>3, <3>2, UpFacts
    <3> QED BY <2>2, <3>1, <3>3, <3>4
  <2>5. NeatIn(inode, data, ifree)
    BY DEF NeatNow
  <2>6. NeatIn(in2, da2, fr2)
    BY <2>1, <2>3, <2>4, <2>5, NeatKeeps
  <2> QED BY <2>6 DEF NeatNext, in2, da2, fr2
<1>17. Target(p).type = File
  BY <1>6
<1> QED BY <1>7, <1>8, <1>15, <1>16, <1>17 DEF d

(* A directory is empty, for rmdir, if it holds no names.                  *)
LEMMA EmptyIff ==
  ASSUME TreeNow, NeatNow, NEW t \in DirsOf(inode, ifree)
  PROVE  DirIsEmpty(t) <=> \A f : ~HoldsNow(t, f)
<1>1. /\ Typed(inode, data, ifree, bfree) /\ OnePlace(inode, ifree) /\ Headed(inode, data, ifree)
      /\ NeatIn(inode, data, ifree) /\ t \in Ino \ ifree /\ inode[t].type = Dir
  BY DEF TreeNow, TreeOK, Owned, NamesOK, NeatNow, DirsOf
<1>2. ASSUME DirIsEmpty(t), NEW f, HoldsNow(t, f) PROVE FALSE
  <2>1. \A y \in Live(data) : y[1] \notin BlocksOf(inode, t)
    BY <1>1, <1>2, EmptyHoldsNone
  <2> QED BY <1>2, <2>1 DEF HoldsNow, Holds
<1>3. ASSUME \A f : ~HoldsNow(t, f) PROVE DirIsEmpty(t)
  <2>1. Len(inode[t].blk) \in Nat /\ Len(inode[t].blk) > 0 /\ inode[t].blk \in Seq(Blk)
    BY <1>1, TypedFacts DEF Headed
  <2> DEFINE V == {"", ".", ".."}
  <2>2. ASSUME NEW m \in 1 .. Len(inode[t].blk), NEW j \in Index
        PROVE  /\ data[inode[t].blk[m]][j].name \in V
               /\ m # 1 => data[inode[t].blk[m]][j].name = NoName
    <3> DEFINE x == <<inode[t].blk[m], j>>
    <3>1. x[1] = inode[t].blk[m] /\ x[2] = j /\ x \in Spot /\ x[1] \in BlocksOf(inode, t)
      BY <2>1 DEF Spot, BlocksOf
    <3>2. At(data, x) = data[inode[t].blk[m]][j]
      BY DEF At
    <3> HIDE DEF x
    <3>3. x \notin Live(data)
      BY <1>3, <3>1 DEF HoldsNow, Holds
    <3>4. At(data, x).name \notin Name /\ At(data, x) \in Ent
      BY <1>1, <3>1, <3>3, TypedFacts DEF Live
    <3>5. At(data, x).name \in {"", ".", ".."}
      BY <3>4 DEF Ent
    <3>6. ASSUME m # 1 PROVE At(data, x).name = NoName
      <4>1. ASSUME NEW c \in DirsOf(inode, ifree), x[1] = inode[c].blk[1] PROVE FALSE
        <5>1. c \in Ino \ ifree /\ 1 \in 1 .. Len(inode[c].blk)
          BY <1>1, TypedFacts DEF DirsOf, Headed
        <5> QED BY <1>1, <3>1, <3>6, <4>1, <5>1 DEF OnePlace
      <4> QED BY <1>1, <3>1, <3>4, <4>1 DEF NeatIn
    <3> QED BY <3>2, <3>5, <3>6
  <2>3. inode[t].type = "dir"
    BY <1>1 DEF Dir
  <2> HIDE DEF V
  <2>4. \A k \in Index : data[inode[t].blk[1]][k].name \in V
    <3>1. 1 \in 1 .. Len(inode[t].blk)
      BY <2>1
    <3> QED BY <2>2, <3>1
  <2>5. \A j \in 2 .. Len(inode[t].blk), k \in Index : data[inode[t].blk[j]][k].name = NoName
    <3>1. \A j \in 2 .. Len(inode[t].blk) : j \in 1 .. Len(inode[t].blk) /\ j # 1
      BY <2>1
    <3> QED BY <2>2, <3>1
  <2> QED BY <2>3, <2>4, <2>5 DEF DirIsEmpty, Index, NoName, V
<1> QED BY <1>2, <1>3

(* What is neither wanted nor empty stays.                                 *)
LEMMA RmdirDoes ==
  ASSUME TreeNow, NeatNow, NEW d \in DirsOf(inode, ifree), NEW p, Last(p) \in Name,
         RemoveDirentry(d, p), TreeNext
  PROVE  \/ /\ reply' = Reply("rmdir", p, FALSE) /\ UNCHANGED <<inode, data, ifree, bfree>>
            /\ \A e : HoldsNow(d, e) /\ e.name = Last(p) /\ e.type = Dir => ~DirIsEmpty(e.ino)
         \/ /\ reply' = Reply("rmdir", p, TRUE)
            /\ \E e : /\ HoldsNow(d, e) /\ e.name = Last(p) /\ e.type = Dir /\ DirIsEmpty(e.ino)
                      /\ \A c, f : HoldsNext(c, f) <=> HoldsNow(c, f) /\ f.ino # e.ino
            /\ NeatNext
<1> DEFINE n == Last(p)
           s == Entries(d)
           k == SelectInSeq(s, LAMBDA e : /\ e.name = n /\ e.type = "dir"
                                         /\ DirIsEmpty(e.ino))
           x == SpotOf(d, k)
           t == s[k].ino
           dat1 == Write(data, x, Null)
           node == Inode("file", << >>)
<1>1. /\ Typed(inode, data, ifree, bfree) /\ d \in Ino /\ d \in Ino \ ifree /\ Linked(inode, data, ifree)
      /\ OnePlace(inode, ifree) /\ Headed(inode, data, ifree)
  BY DEF TreeNow, TreeOK, DirsOf, NamesOK, Owned
<1>2. Len(s) \in Nat /\ 1 .. Len(s) = Places(d) /\ \A m \in Places(d) : s[m] = EntryAt(d, m)
  BY <1>1, EntriesMean
<1>3. /\ k # 0 => k \in 1 .. Len(s) /\ s[k].name = n /\ s[k].type = Dir /\ DirIsEmpty(s[k].ino)
      /\ k = 0 => \A m \in 1 .. Len(s) : ~(s[m].name = n /\ s[m].type = Dir /\ DirIsEmpty(s[m].ino))
  <2> DEFINE I == {m \in 1 .. Len(s) : s[m].name = n /\ s[m].type = "dir" /\ DirIsEmpty(s[m].ino)}
  <2>1. k = IF I # {} THEN Min(I) ELSE 0
    BY DEF SelectInSeq
  <2>2. I \in SUBSET Nat /\ 0 \notin I
    OBVIOUS
  <2>3. I # {} => Min(I) \in I
    BY <2>2, MinIsIn
  <2> QED BY <2>1, <2>2, <2>3 DEF Dir
<1>4. \/ /\ k = 0 /\ UNCHANGED <<inode, data, ifree, bfree>>
         /\ reply' = Reply("rmdir", p, FALSE)
      \/ /\ k # 0
         /\ data' = [b \in Blk |-> IF b \in Blocks(t) THEN Empty ELSE WithEntry(d, k, Null)[b]]
         /\ inode' = [inode EXCEPT ![t] = Inode("file", << >>)]
         /\ ifree' = ifree \cup {t}
         /\ reply' = Reply("rmdir", p, TRUE)
  BY DEF RemoveDirentry, Refuse
<1> HIDE DEF k, n
<1>5. CASE /\ k = 0 /\ UNCHANGED <<inode, data, ifree, bfree>>
           /\ reply' = Reply("rmdir", p, FALSE)
  <2>1. ASSUME NEW e, HoldsNow(d, e), e.name = Last(p), e.type = Dir, DirIsEmpty(e.ino) PROVE FALSE
    <3>1. PICK y \in Live(data) : y[1] \in BlocksOf(inode, d) /\ At(data, y) = e
      BY <2>1 DEF HoldsNow, Holds
    <3>2. PICK m \in Places(d) : SpotOf(d, m) = y /\ EntryAt(d, m) = At(data, y)
      <4>1. y \in Spot
        BY DEF Live
      <4>2. PICK m \in Places(d) : SpotOf(d, m) = y
        BY <1>1, <3>1, <4>1, SpotFrom
      <4>3. EntryAt(d, m) = At(data, SpotOf(d, m))
        BY <1>1, SpotIn
      <4> QED BY <4>2, <4>3
    <3> QED BY <1>2, <1>3, <1>5, <2>1, <3>1, <3>2 DEF n
  <2> QED BY <1>5, <2>1
<1>6. CASE /\ k # 0
           /\ data' = [b \in Blk |-> IF b \in Blocks(t) THEN Empty ELSE WithEntry(d, k, Null)[b]]
           /\ inode' = [inode EXCEPT ![t] = Inode("file", << >>)]
           /\ ifree' = ifree \cup {t}
           /\ reply' = Reply("rmdir", p, TRUE)
  <2>1. /\ k \in Places(d) /\ EntryAt(d, k).name = n /\ EntryAt(d, k) = s[k] /\ DirIsEmpty(t)
        /\ EntryAt(d, k).type = Dir
    BY <1>2, <1>3, <1>6
  <2>2. x \in Spot /\ x[1] \in BlocksOf(inode, d) /\ EntryAt(d, k) = At(data, x)
    BY <1>1, <2>1, SpotIn
  <2>3. x \in Live(data) /\ t = At(data, x).ino /\ At(data, x).name = n /\ At(data, x).type = Dir
    BY <2>1, <2>2 DEF Live, n
  <2>4. t \in Ino \ ifree /\ t # Root
    BY <1>1, <2>3 DEF Linked
  <2>5. t \in DirsOf(inode, ifree) /\ \A y \in Live(data) : y[1] \notin BlocksOf(inode, t)
    BY <2>1, <2>4, EmptyHoldsNone
  <2>6. WithEntry(d, k, Null) = dat1
    BY DEF WithEntry, SpotOf, Write
  <2>7. Blocks(t) = BlocksOf(inode, t) /\ BlocksOf(inode, t) \subseteq Blk
    BY <1>1, <2>4, TypedFacts DEF Blocks, BlocksOf, Range
  <2>8. data' = [b \in Blk |-> IF b \in BlocksOf(inode, t) THEN Empty ELSE dat1[b]]
    BY <1>6, <2>6, <2>7
  <2>9. inode' = SetNode(inode, t, node)
    BY <1>6 DEF SetNode
  <2>10. node.type = File
    BY DEF Inode, File
  <2> HIDE DEF dat1, x, t, node, s
  <2>11. /\ dat1 \in [Blk -> [Index -> Ent]] /\ At(dat1, x) = Null
         /\ \A y \in Spot : y # x => At(dat1, y) = At(data, y)
    BY <1>1, <2>2, Put, NullIn DEF Typed, dat1
  <2>12. inode'[t] = node /\ \A i \in Ino : i # t => inode'[i] = inode[i]
    BY <1>1, <2>4, <2>9 DEF SetNode, Typed
  <2>13. DirsOf(inode', ifree') = DirsOf(inode, ifree) \ {t}
    BY <1>6, <2>12 DEF DirsOf, t, s
  <2>14. Grows(inode', ifree', inode, ifree)
    BY <2>12, <2>13 DEF Grows, DirsOf, BlocksOf
  <2>15. \A y \in Spot : IF y[1] \in BlocksOf(inode, t) \/ y = x THEN At(data', y).name = NoName
                                                                ELSE At(data', y) = At(data, y)
    <3>1. Empty \in [Index -> Ent] /\ \A j \in Index : Empty[j].name = NoName
      BY NullIn DEF Empty, Index
    <3>2. ASSUME NEW y \in Spot
          PROVE  /\ y[1] \in BlocksOf(inode, t) => At(data', y) = Empty[y[2]]
                 /\ y[1] \notin BlocksOf(inode, t) => At(data', y) = At(dat1, y)
      BY <2>8 DEF At, Spot
    <3>3. \A y \in Spot : y[2] \in Index
      BY DEF Spot
    <3> QED BY <2>11, <3>1, <3>2, <3>3, NullIn
  <2>16. x[1] \notin BlocksOf(inode, t)
    BY <2>3, <2>5
  <2>17. Live(data') = Live(data) \ {x} /\ \A y \in Live(data') : At(data', y) = At(data, y)
    BY <2>2, <2>5, <2>15, NameFacts DEF Live
  <2>18. \A c, f : HoldsNext(c, f) <=> HoldsNow(c, f) /\ f.ino # t
    <3> DEFINE in2 == inode'
               da2 == data'
               fr2 == ifree'
               bf2 == bfree'
    <3>1. TreeOK(in2, da2, fr2, bf2) /\ Grows(in2, fr2, inode, ifree) /\ TreeOK(inode, data, ifree, bfree)
      BY <2>14 DEF TreeNext, TreeNow
    <3>2. Live(da2) = Live(data) \ {x} /\ (\A y \in Live(da2) : At(da2, y) = At(data, y)) /\ x \in Live(data)
      BY <2>3, <2>17
    <3> HIDE DEF in2, da2, fr2, bf2
    <3>3. \A c, e : Holds(in2, da2, fr2, c, e) <=> Holds(inode, data, ifree, c, e) /\ e.ino # At(data, x).ino
      BY <3>1, <3>2, HoldsLess
    <3>4. \A c, e : Holds(inode', data', ifree', c, e) <=> Holds(inode, data, ifree, c, e) /\ e.ino # At(data, x).ino
      BY <3>3 DEF in2, da2, fr2
    <3> QED BY <2>3, <3>4 DEF HoldsNow, HoldsNext
  <2>19. HoldsNow(d, At(data, x))
    BY <2>2, <2>3 DEF HoldsNow, Holds
  <2>20. NeatNext
    <3> DEFINE in2 == inode'
               da2 == data'
               fr2 == ifree'
    <3>1. DirsOf(in2, fr2) = DirsOf(inode, ifree) \ {t} /\ \A c \in DirsOf(in2, fr2) : in2[c].blk[1] = inode[c].blk[1]
      BY <2>12, <2>13 DEF DirsOf
    <3>2. /\ \A y \in Spot : y[1] \in BlocksOf(inode, t) => At(da2, y).name = NoName
          /\ At(da2, x).name = NoName
          /\ \A y \in Spot : y[1] \notin BlocksOf(inode, t) /\ y # x => At(da2, y) = At(data, y)
      BY <2>2, <2>15
    <3> HIDE DEF in2, da2, fr2
    <3>3. t \in Ino \ ifree /\ Len(inode[t].blk) \in Nat /\ Len(inode[t].blk) > 0
      BY <1>1, <2>4, <2>5, TypedFacts DEF Headed
    <3>4. inode[t].blk[1] \in BlocksOf(inode, t)
      BY <3>3 DEF BlocksOf
    <3>5. ASSUME NEW y \in Spot
          PROVE  \/ At(da2, y).name \in Name \cup {NoName}
                 \/ /\ At(da2, y) = At(data, y)
                    /\ \A c \in DirsOf(inode, ifree) : y[1] = inode[c].blk[1] => c \in DirsOf(in2, fr2)
      <4>1. CASE y[1] \in BlocksOf(inode, t) \/ y = x
        BY <3>2, <4>1
      <4>2. CASE y[1] \notin BlocksOf(inode, t) /\ y # x
        <5>1. At(da2, y) = At(data, y)
          BY <3>2, <4>2
        <5>2. \A c \in DirsOf(inode, ifree) : y[1] = inode[c].blk[1] => c \in DirsOf(in2, fr2)
          BY <3>1, <3>4, <4>2
        <5> QED BY <5>1, <5>2
      <4> QED BY <4>1, <4>2
    <3>6. ASSUME NEW c \in DirsOf(in2, fr2)
          PROVE  At(da2, <<in2[c].blk[1], 2>>) = At(data, <<inode[c].blk[1], 2>>) /\ c \in DirsOf(inode, ifree)
      <4> DEFINE y == <<inode[c].blk[1], 2>>
      <4>1. c \in DirsOf(inode, ifree) /\ c # t /\ in2[c].blk[1] = inode[c].blk[1]
        BY <3>1
      <4>2. At(data, y).name = Up
        BY <4>1 DEF NeatNow, NeatIn
      <4>0. Len(inode[c].blk) \in Nat /\ Len(inode[c].blk) > 0 /\ c \in Ino \ ifree
        BY <1>1, <4>1, TypedFacts DEF Headed, DirsOf
      <4>3. y \in Spot /\ y[1] = inode[c].blk[1]
        <5>1. inode[c].blk[1] \in Blk /\ 2 \in Index
          BY <1>1, <4>0, TypedFacts, SizeAssumption DEF Index
        <5> QED BY <5>1 DEF Spot
      <4>4. y # x
        BY <2>3, <4>2, UpFacts DEF n
      <4>5. y[1] \notin BlocksOf(inode, t)
        <5>1. y[1] \in BlocksOf(inode, c)
          BY <4>0, <4>3 DEF BlocksOf
        <5> QED BY <1>1, <2>5, <4>1, <5>1, OneHolder
      <4> QED BY <3>2, <4>1, <4>3, <4>4, <4>5
    <3>7. NeatIn(inode, data, ifree)
      BY DEF NeatNow
    <3>8. \A c \in DirsOf(inode, ifree) : c \in DirsOf(in2, fr2) => in2[c].blk[1] = inode[c].blk[1]
      BY <3>1
    <3>9. NeatIn(in2, da2, fr2)
      BY <3>5, <3>6, <3>7, <3>8, NeatKeeps
    <3> QED BY <3>9 DEF NeatNext, in2, da2, fr2
  <2>21. DirIsEmpty(At(data, x).ino)
    BY <2>1, <2>3 
  <2> QED BY <1>6, <2>3, <2>18, <2>19, <2>20, <2>21 DEF n
<1> QED BY <1>4, <1>5, <1>6

-----------------------------------------------------------------------------
(* What a step does to the names in directories.                           *)
Same        == \A c, f : HoldsNext(c, f) <=> HoldsNow(c, f)
Gains(d, e) == \A c, f : HoldsNext(c, f) <=> HoldsNow(c, f) \/ (c = d /\ f = e)
Loses(e)    == \A c, f : HoldsNext(c, f) <=> HoldsNow(c, f) /\ f.ino # e.ino

(* The heads of directories stay.                                          *)
LEMMA HeadsStay ==
  ASSUME TreeNow, NeatNow, NEW c \in DirsOf(inode, ifree)
  PROVE  /\ <<inode[c].blk[1], 2>> \in Spot /\ At(data, <<inode[c].blk[1], 2>>).name = Up
         /\ inode[c].blk[1] \in BlocksOf(inode, c) /\ inode[c].blk[1] \notin bfree
<1>1. Typed(inode, data, ifree, bfree) /\ Headed(inode, data, ifree) /\ Taken(inode, ifree, bfree)
  BY DEF TreeNow, TreeOK, NamesOK, Owned
<1>2. c \in Ino \ ifree /\ Len(inode[c].blk) \in Nat /\ Len(inode[c].blk) > 0 /\ 2 \in Index
  BY <1>1, TypedFacts, SizeAssumption DEF DirsOf, Headed, Index
<1>3. inode[c].blk[1] \in Blk /\ inode[c].blk[1] \in BlocksOf(inode, c)
  BY <1>1, <1>2, TypedFacts DEF BlocksOf
<1>4. inode[c].blk[1] \notin bfree
  BY <1>1, <1>2, <1>3 DEF Taken
<1> QED BY <1>2, <1>3, <1>4 DEF NeatNow, NeatIn, Spot

(* A step that changes no directory and no entry, or clears free blocks.   *)
LEMMA NothingDone ==
  ASSUME TreeNow, NeatNow, TreeNext,
         Grows(inode, ifree, inode', ifree'), DirsOf(inode', ifree') = DirsOf(inode, ifree),
         \A x \in Spot : \/ At(data', x) = At(data, x)
                         \/ x[1] \in bfree /\ At(data', x).name = NoName
  PROVE  Same /\ NeatNext
<1> DEFINE in2 == inode'
           da2 == data'
           fr2 == ifree'
           bf2 == bfree'
<1>1. /\ TreeOK(inode, data, ifree, bfree) /\ TreeOK(in2, da2, fr2, bf2)
      /\ Grows(inode, ifree, in2, fr2) /\ DirsOf(in2, fr2) = DirsOf(inode, ifree)
      /\ \A x \in Spot : \/ At(da2, x) = At(data, x)
                         \/ x[1] \in bfree /\ At(da2, x).name = NoName
  BY DEF TreeNow, TreeNext
<1> HIDE DEF in2, da2, fr2, bf2
<1>2. \A x \in Live(data) : x[1] \notin bfree /\ x \in Spot
  BY <1>1, FreeDead DEF Live
<1>3. Live(da2) = Live(data)
  BY <1>1, <1>2, NameFacts DEF Live
<1>4. \A x \in Live(data) : At(da2, x) = At(data, x)
  BY <1>1, <1>2
<1>5. \A d, e : Holds(in2, da2, fr2, d, e) <=> Holds(inode, data, ifree, d, e)
  BY <1>1, <1>3, <1>4, HoldsSame
<1>6. \A x \in Spot : \/ At(da2, x).name \in Name \cup {NoName}
                      \/ /\ At(da2, x) = At(data, x)
                         /\ \A c \in DirsOf(inode, ifree) : x[1] = inode[c].blk[1] => c \in DirsOf(in2, fr2)
  BY <1>1
<1>7. \A c \in DirsOf(inode, ifree) : c \in DirsOf(in2, fr2) => in2[c].blk[1] = inode[c].blk[1]
  BY <1>1 DEF Grows
<1>8. ASSUME NEW c \in DirsOf(in2, fr2)
      PROVE  /\ c \in DirsOf(inode, ifree)
             /\ At(da2, <<in2[c].blk[1], 2>>) = At(data, <<inode[c].blk[1], 2>>)
  <2> DEFINE x == <<inode[c].blk[1], 2>>
  <2>1. c \in DirsOf(inode, ifree) /\ in2[c].blk[1] = inode[c].blk[1]
    BY <1>1, <1>7
  <2>2. x \in Spot /\ x[1] \notin bfree
    BY <2>1, HeadsStay
  <2> QED BY <1>1, <2>1, <2>2
<1>9. NeatIn(in2, da2, fr2)
  BY <1>6, <1>7, <1>8, NeatKeeps DEF NeatNow
<1> QED BY <1>5, <1>9 DEF Same, HoldsNow, HoldsNext, NeatNext, in2, da2, fr2

(* A write gives a file a block and clears it: a free block held nothing.  *)
LEMMA GrowDoes ==
  ASSUME TreeNow, OpenNow, NeatNow, NEW i \in Ino, NEW heard \in BOOLEAN, ~Stale,
         Grow(i, heard), TreeNext
  PROVE  Same /\ NeatNext
<1> DEFINE b == FirstFree(bfree)
<1>1. /\ Typed(inode, data, ifree, bfree) /\ i \in Ino \ ifree /\ inode[i].type = File
      /\ inode \in [Ino -> Node]
  BY DEF TreeNow, TreeOK, Grow, OpenNow, Typed
<1>2. bfree # {} => b \in bfree
  BY <1>1, BlkAssumption, FirstFreeIsFree DEF Typed
<1>3. /\ ifree' = ifree
      /\ \/ UNCHANGED <<inode, data>>
         \/ /\ bfree # {} /\ inode' = Grown(i, b) /\ data' = [data EXCEPT ![b] = Empty]
  BY DEF Grow, Grown, Payload
<1> HIDE DEF b
<1>4. CASE UNCHANGED <<inode, data>>
  <2>1. Grows(inode, ifree, inode', ifree') /\ DirsOf(inode', ifree') = DirsOf(inode, ifree)
    BY <1>3, <1>4 DEF Grows
  <2> QED BY <1>4, <2>1, NothingDone
<1>5. CASE bfree # {} /\ inode' = Grown(i, b) /\ data' = [data EXCEPT ![b] = Empty]
  <2>1. Extended(Grown(i, b))
    BY <1>2, <1>5, GrownExtended
  <2>2. Grows(inode, ifree, inode', ifree') /\ DirsOf(inode', ifree') = DirsOf(inode, ifree)
    <3> DEFINE in1 == Grown(i, b)
    <3>1. Extended(in1) /\ inode' = in1
      BY <1>5, <2>1
    <3> HIDE DEF in1
    <3>2. Grows(inode, ifree, in1, ifree) /\ DirsOf(in1, ifree) = DirsOf(inode, ifree)
      BY <3>1, OnlyMore
    <3> QED BY <1>3, <3>1, <3>2
  <2>3. Empty \in [Index -> Ent] /\ \A j \in Index : Empty[j].name = NoName
    BY NullIn DEF Empty, Index
  <2>4. b \in bfree /\ data \in [Blk -> [Index -> Ent]] /\ b \in Blk
    BY <1>1, <1>2, <1>5 DEF Typed
  <2>5. \A x \in Spot : \/ At(data', x) = At(data, x)
                        \/ x[1] \in bfree /\ At(data', x).name = NoName
    BY <1>5, <2>3, <2>4 DEF At, Spot
  <2> QED BY <2>2, <2>5, NothingDone
<1> QED BY <1>3, <1>4, <1>5

(* truncate takes blocks from a file only.                                 *)
LEMMA TruncateDoes ==
  ASSUME TreeNow, NeatNow, NEW p \in Path, NEW heard \in BOOLEAN, Truncate(p, heard), TreeNext
  PROVE  Same /\ NeatNext
<1> DEFINE i == Target(p).ino
           s == SubSeq(inode[i].blk, 1, 1)
<1>1. i \in Ino \ ifree /\ inode[i].type = File /\ inode \in [Ino -> Node]
  BY FileMeans DEF Truncate, File, TreeNow, TreeOK, Typed
<1>2. inode' = [inode EXCEPT ![i].blk = s] /\ data' = data /\ ifree' = ifree
  BY DEF Truncate
<1> HIDE DEF s, i
<1>3. (\A c \in Ino : c # i => inode'[c] = inode[c]) /\ inode'[i].type = inode[i].type
  BY <1>1, <1>2 DEF Node
<1>4. DirsOf(inode', ifree') = DirsOf(inode, ifree) /\ i \notin DirsOf(inode, ifree)
  BY <1>1, <1>2, <1>3, KindFacts DEF DirsOf
<1>5. Grows(inode, ifree, inode', ifree')
  BY <1>3, <1>4 DEF Grows, DirsOf, BlocksOf
<1> QED BY <1>2, <1>4, <1>5, NothingDone

(* create adds its file to what the directory holds, or changes nothing.   *)
LEMMA CreateHas ==
  ASSUME TreeNow, NeatNow, NEW d \in DirsOf(inode, ifree), NEW p, Last(p) \in Name,
         ~Has(d, Last(p)), ifree # {}, ~Full(d),
         NEW heard \in BOOLEAN, CreateFile(d, p, heard), TreeNext
  PROVE  /\ NeatNext
         /\ \/ Same /\ reply' = reply
            \/ /\ Told("create", p, TRUE)
               /\ Gains(d, Dirent(Last(p), FirstFree(ifree), File))
<1> DEFINE e == Dirent(Last(p), FirstFree(ifree), File)
<1>1. \/ UNCHANGED <<inode, data, ifree, bfree, reply>>
      \/ /\ Told("create", p, TRUE)
         /\ \E y : /\ Writes(data, inode', data', d, y, e)
                   /\ \A x \in Spot : x # y => At(data', x) = At(data, x)
         /\ Grows(inode, ifree, inode', ifree') /\ DirsOf(inode', ifree') = DirsOf(inode, ifree)
  BY CreateDoes
<1>2. e.name = Last(p)
  BY DEF Dirent
<1> HIDE DEF e
<1>3. CASE UNCHANGED <<inode, data, ifree, bfree, reply>>
  BY <1>3 DEF Same, HoldsNow, HoldsNext, NeatNow, NeatNext
<1>4. CASE /\ Told("create", p, TRUE)
           /\ \E y : /\ Writes(data, inode', data', d, y, e)
                     /\ \A x \in Spot : x # y => At(data', x) = At(data, x)
           /\ Grows(inode, ifree, inode', ifree') /\ DirsOf(inode', ifree') = DirsOf(inode, ifree)
  <2>1. PICK y : /\ Writes(data, inode', data', d, y, e)
                 /\ \A x \in Spot : x # y => At(data', x) = At(data, x)
    BY <1>4
  <2> DEFINE in2 == inode'
             da2 == data'
             fr2 == ifree'
             bf2 == bfree'
  <2>2. /\ TreeOK(inode, data, ifree, bfree) /\ TreeOK(in2, da2, fr2, bf2)
        /\ Grows(inode, ifree, in2, fr2) /\ DirsOf(in2, fr2) = DirsOf(inode, ifree)
        /\ \A x \in Spot : x # y => At(da2, x) = At(data, x)
        /\ y \in Spot /\ At(data, y).name = NoName /\ y[1] \in BlocksOf(in2, d) /\ At(da2, y) = e
        /\ d \in DirsOf(in2, fr2)
    BY <1>4, <2>1 DEF TreeNow, TreeNext, Writes
  <2> HIDE DEF in2, da2, fr2, bf2
  <2>3. /\ y \notin Live(data) /\ Live(da2) = Live(data) \cup {y}
        /\ \A x \in Live(data) : At(da2, x) = At(data, x)
    BY <1>2, <2>2, NameFacts DEF Live
  <2>4. \A c, f : Holds(in2, da2, fr2, c, f) <=> Holds(inode, data, ifree, c, f) \/ (c = d /\ f = At(da2, y))
    BY <2>2, <2>3, HoldsMore
  <2>5. \A x \in Spot : \/ At(da2, x).name \in Name \cup {NoName}
                        \/ /\ At(da2, x) = At(data, x)
                           /\ \A c \in DirsOf(inode, ifree) : x[1] = inode[c].blk[1] => c \in DirsOf(in2, fr2)
    BY <1>2, <2>2
  <2>6. \A c \in DirsOf(inode, ifree) : c \in DirsOf(in2, fr2) => in2[c].blk[1] = inode[c].blk[1]
    BY <2>2 DEF Grows
  <2>7. ASSUME NEW c \in DirsOf(in2, fr2)
        PROVE  /\ c \in DirsOf(inode, ifree)
               /\ At(da2, <<in2[c].blk[1], 2>>) = At(data, <<inode[c].blk[1], 2>>)
    <3> DEFINE x == <<inode[c].blk[1], 2>>
    <3>1. c \in DirsOf(inode, ifree) /\ in2[c].blk[1] = inode[c].blk[1]
      BY <2>2, <2>6
    <3>2. x \in Spot /\ At(data, x).name = Up
      BY <3>1, HeadsStay
    <3>3. x # y
      BY <2>2, <3>2, UpFacts
    <3> QED BY <2>2, <3>1, <3>2, <3>3
  <2>8. NeatIn(in2, da2, fr2)
    BY <2>5, <2>6, <2>7, NeatKeeps DEF NeatNow
  <2>9. Gains(d, e)
    BY <2>2, <2>4 DEF Gains, HoldsNow, HoldsNext, in2, da2, fr2
  <2>10. NeatNext
    BY <2>8 DEF NeatNext, in2, da2, fr2
  <2> QED BY <1>4, <2>9, <2>10 DEF e
<1> QED BY <1>1, <1>3, <1>4

(* mkdir adds its directory to what that one holds, or changes nothing.    *)
LEMMA MkdirHas ==
  ASSUME TreeNow, NeatNow, NEW d \in DirsOf(inode, ifree), NEW p, Last(p) \in Name,
         ~Has(d, Last(p)), ~Full(d),
         NEW heard \in BOOLEAN, MakeDirentry(d, p, heard), TreeNext
  PROVE  /\ NeatNext
         /\ \/ Same /\ reply' = reply
            \/ Same /\ reply' = Reply("mkdir", p, FALSE)
            \/ /\ Told("mkdir", p, TRUE) /\ FirstFree(ifree) \in ifree
               /\ Gains(d, Dirent(Last(p), FirstFree(ifree), Dir))
<1> DEFINE t == FirstFree(ifree)
           e == Dirent(Last(p), t, Dir)
<1>1. \/ UNCHANGED <<inode, data, ifree, bfree, reply>>
      \/ /\ reply' = Reply("mkdir", p, FALSE) /\ data' = data /\ ifree' = ifree
         /\ Grows(inode, ifree, inode', ifree') /\ DirsOf(inode', ifree') = DirsOf(inode, ifree)
      \/ Told("mkdir", p, TRUE) /\ Makes(d, p, t)
  BY MkdirDoes
<1>2. e.name = Last(p)
  BY DEF Dirent
<1> HIDE DEF e, t
<1>3. CASE UNCHANGED <<inode, data, ifree, bfree, reply>>
  BY <1>3 DEF Same, HoldsNow, HoldsNext, NeatNow, NeatNext
<1>4. CASE /\ reply' = Reply("mkdir", p, FALSE) /\ data' = data /\ ifree' = ifree
           /\ Grows(inode, ifree, inode', ifree') /\ DirsOf(inode', ifree') = DirsOf(inode, ifree)
  BY <1>4, NothingDone
<1>5. CASE Told("mkdir", p, TRUE) /\ Makes(d, p, t)
  <2>1. PICK y, b : MakesAt(d, p, t, y, b)
    BY <1>5 DEF Makes
  <2> DEFINE in2 == inode'
             da2 == data'
             fr2 == ifree'
             bf2 == bfree'
  <2>2. /\ TreeOK(inode, data, ifree, bfree) /\ TreeOK(in2, da2, fr2, bf2)
        /\ Grows(inode, ifree, in2, fr2) /\ DirsOf(in2, fr2) = DirsOf(inode, ifree) \cup {t}
        /\ \A x \in Spot : x # y /\ x[1] # b => At(da2, x) = At(data, x)
        /\ y \in Spot /\ At(data, y).name = NoName /\ y[1] \in BlocksOf(in2, d) /\ At(da2, y) = e
        /\ d \in DirsOf(in2, fr2) /\ t \in ifree /\ b \in bfree /\ y[1] # b
        /\ \A x \in Spot : x[1] = b => DotsAt(da2, x)
        /\ in2[t].blk[1] = b /\ At(da2, <<b, 2>>).name = Up
    BY <2>1 DEF TreeNow, TreeNext, Writes, MakesAt, e
  <2> HIDE DEF in2, da2, fr2, bf2
  <2>3. \A x \in Live(data) : x \in Spot /\ x[1] # b /\ x # y
    BY <2>2, NameFacts, FreeDead DEF Live
  <2>4. \A x \in Spot : x[1] = b => At(da2, x).name \notin Name
    BY <2>2, NameFacts, UpFacts DEF DotsAt
  <2>5. /\ y \notin Live(data) /\ Live(da2) = Live(data) \cup {y}
        /\ \A x \in Live(data) : At(da2, x) = At(data, x)
    BY <1>2, <2>2, <2>3, <2>4 DEF Live
  <2>6. \A c, f : Holds(in2, da2, fr2, c, f) <=> Holds(inode, data, ifree, c, f) \/ (c = d /\ f = At(da2, y))
    BY <2>2, <2>5, HoldsMore
  <2>7. ASSUME NEW x \in Spot
        PROVE  \/ At(da2, x).name \in Name \cup {NoName}
               \/ /\ At(da2, x) = At(data, x)
                  /\ \A c \in DirsOf(inode, ifree) : x[1] = inode[c].blk[1] => c \in DirsOf(in2, fr2)
               \/ \E c \in DirsOf(in2, fr2) : x[1] = in2[c].blk[1] /\ x[2] \in {1, 2}
    <3>1. CASE x = y
      BY <1>2, <2>2, <3>1
    <3>2. CASE x[1] = b
      <4>1. t \in DirsOf(in2, fr2)
        BY <2>2
      <4> QED BY <2>2, <3>2, <4>1 DEF DotsAt
    <3>3. CASE x # y /\ x[1] # b
      BY <2>2, <3>3
    <3> QED BY <3>1, <3>2, <3>3
  <2>8. \A c \in DirsOf(inode, ifree) : c \in DirsOf(in2, fr2) => in2[c].blk[1] = inode[c].blk[1]
    BY <2>2 DEF Grows
  <2>9. ASSUME NEW c \in DirsOf(in2, fr2)
        PROVE  \/ At(da2, <<in2[c].blk[1], 2>>).name = Up
               \/ /\ c \in DirsOf(inode, ifree)
                  /\ At(da2, <<in2[c].blk[1], 2>>) = At(data, <<inode[c].blk[1], 2>>)
    <3>1. CASE c = t
      BY <2>2, <3>1
    <3>2. CASE c \in DirsOf(inode, ifree)
      <4> DEFINE x == <<inode[c].blk[1], 2>>
      <4>1. in2[c].blk[1] = inode[c].blk[1]
        BY <2>8, <3>2
      <4>2. x \in Spot /\ At(data, x).name = Up /\ inode[c].blk[1] \notin bfree
        BY <3>2, HeadsStay
      <4>3. x # y /\ x[1] # b
        BY <2>2, <4>2, UpFacts
      <4> QED BY <2>2, <3>2, <4>1, <4>2, <4>3
    <3> QED BY <2>2, <3>1, <3>2
  <2>10. NeatIn(in2, da2, fr2)
    BY <2>7, <2>8, <2>9, NeatKeeps DEF NeatNow
  <2>11. Gains(d, e) /\ t \in ifree
    BY <2>2, <2>6 DEF Gains, HoldsNow, HoldsNext, in2, da2, fr2
  <2>12. NeatNext
    BY <2>10 DEF NeatNext, in2, da2, fr2
  <2> QED BY <1>5, <2>11, <2>12 DEF e, t
<1> QED BY <1>1, <1>3, <1>4, <1>5

-----------------------------------------------------------------------------
FlatInv == TreeInv /\ NeatNow /\ FlatNow

(* The directory that path p names something in, when all are in the root.  *)
LeadsTo(p, d) ==
  \/ Len(p) = 1 /\ d = Root
  \/ Len(p) = 2 /\ \E f : HoldsNow(Root, f) /\ f.name = p[1] /\ f.type = Dir /\ f.ino = d

(* Entry e is at path p.                                                    *)
AtPath(p, e) == \E d : LeadsTo(p, d) /\ HoldsNow(d, e) /\ e.name = Last(p)

(* The first step of a walk.                                                *)
LEMMA FirstStep ==
  ASSUME TreeNow, NEW n \in Name
  PROVE  /\ \A f : HoldsNow(Root, f) /\ f.name = n /\ f.type = Dir => Step(WalkFrom, n).ok
         /\ Step(WalkFrom, n).ok =>
              /\ Step(WalkFrom, n).up = Root /\ Step(WalkFrom, n).dir \in DirsOf(inode, ifree)
              /\ \E f : /\ HoldsNow(Root, f) /\ f.name = n /\ f.type = Dir
                        /\ f.ino = Step(WalkFrom, n).dir
<1>1. Root \in DirsOf(inode, ifree) /\ TreeOK(inode, data, ifree, bfree)
  BY DEF TreeNow, TreeOK, Rooted
<1>2. WalkFrom.ok /\ WalkFrom.dir = Root
  BY DEF WalkFrom
<1>3. ASSUME NEW f, HoldsNow(Root, f), f.name = n, f.type = Dir PROVE Step(WalkFrom, n).ok
  <2>1. Has(Root, n)
    BY <1>1, <1>3, HasMeans DEF HoldsNow
  <2>2. Holds(inode, data, ifree, Root, Get(Root, n)) /\ Get(Root, n).name = n
    BY <1>1, <2>1, HasMeans
  <2>3. Get(Root, n) = f
    BY <1>1, <1>3, <2>2, HeldOnce DEF HoldsNow
  <2>4. Get(Root, n).type # File
    BY <1>3, <2>3, KindFacts
  <2>5. Step(WalkFrom, n) = [ok |-> TRUE, dir |-> Get(Root, n).ino, up |-> Root]
    BY <1>2, <2>1, <2>4 DEF Step, File
  <2> QED BY <2>5
<1>4. ASSUME Step(WalkFrom, n).ok
      PROVE  /\ Step(WalkFrom, n).up = Root /\ Step(WalkFrom, n).dir \in DirsOf(inode, ifree)
             /\ \E f : /\ HoldsNow(Root, f) /\ f.name = n /\ f.type = Dir
                       /\ f.ino = Step(WalkFrom, n).dir
  <2>1. /\ Step(WalkFrom, n).dir \in DirsOf(inode, ifree) /\ Step(WalkFrom, n).up = Root
        /\ Has(Root, n) /\ Step(WalkFrom, n).dir = Get(Root, n).ino
    BY <1>1, <1>2, <1>4, StepStays
  <2> DEFINE f == Get(Root, n)
  <2>2. HoldsNow(Root, f) /\ f.name = n
    BY <1>1, <2>1, HasMeans DEF HoldsNow
  <2> HIDE DEF f
  <2>3. inode[f.ino].type = f.type /\ f.ino = Step(WalkFrom, n).dir
    <3>1. inode[f.ino].type = f.type
      BY <1>1, <2>2, HeldOnce DEF HoldsNow
    <3> QED BY <2>1, <3>1 DEF f
  <2>4. f.type = Dir
    BY <2>1, <2>3 DEF DirsOf
  <2> QED BY <2>1, <2>2, <2>3, <2>4
<1> QED BY <1>3, <1>4

(* No walk goes further than to a directory in the root.                    *)
LEMMA WalkFlat ==
  ASSUME FlatInv, NEW p \in Path
  PROVE  /\ Walk(Front(p)).ok <=> \E d : LeadsTo(p, d)
         /\ Walk(Front(p)).ok => LeadsTo(p, Walk(Front(p)).dir) /\ Walk(Front(p)).up = Root
<1> DEFINE q == Front(p)
           D == DirsOf(inode, ifree)
<1>1. TreeNow /\ FlatNow /\ TreeOK(inode, data, ifree, bfree) /\ Root \in D
  BY DEF FlatInv, TreeInv, TreeNow, TreeOK, Rooted
<1>2. /\ q \in Seq(Name) /\ Len(p) \in Nat \ {0} /\ p \in Seq(Name)
  BY PathMeans
<1>3. /\ Len(q) = Len(p) - 1 /\ Len(q) \in Nat /\ (Len(q) > 0 => q[1] = p[1])
      /\ \A k \in 1 .. Len(q) : q[k] \in Name
  <2>1. q = SubSeq(p, 1, Len(p) - 1)
    BY DEF Front
  <2> DEFINE z == Len(p) - 1
             r == SubSeq(p, 1, z)
  <2>2. z \in Nat /\ z <= Len(p)
    BY <1>2
  <2> HIDE DEF z
  <2>3. Len(r) = z /\ \A k \in 1 .. z : r[k] = p[k]
    BY <1>2, <2>2
  <2> HIDE DEF r
  <2>4. Len(q) = z /\ (z > 0 => q[1] = p[1])
    BY <2>1, <2>2, <2>3 DEF z, r
  <2>5. \A k \in 1 .. Len(q) : q[k] \in Name
    BY <1>2
  <2> QED BY <1>2, <2>2, <2>4, <2>5 DEF z
<1> HIDE DEF q
<1>4. PICK w : WalksTo(w, q, Len(q)) /\ Walk(q) = w[Len(q)]
  BY <1>3, WalkIs
<1>5. \A k \in 0 .. Len(q) : w[k] = IF k = 0 THEN WalkFrom ELSE Step(w[k - 1], q[k])
  BY <1>4 DEF WalksTo
<1>6. CASE Len(q) = 0
  <2>1. Walk(q) = WalkFrom
    BY <1>4, <1>5, <1>6
  <2>2. Walk(q).ok /\ Walk(q).dir = Root /\ Walk(q).up = Root
    BY <2>1 DEF WalkFrom
  <2>3. Len(p) = 1
    BY <1>2, <1>3, <1>6
  <2> QED BY <2>2, <2>3 DEF LeadsTo, q
<1>7. CASE Len(q) = 1
  <2>1. Walk(q) = Step(WalkFrom, p[1]) /\ p[1] \in Name
    <3>1. Walk(q) = w[1] /\ 1 \in 0 .. Len(q) /\ 0 \in 0 .. Len(q) /\ 1 \in 1 .. Len(q)
      BY <1>4, <1>7
    <3>2. w[1] = Step(w[0], q[1]) /\ w[0] = WalkFrom
      BY <1>5, <3>1
    <3>3. q[1] = p[1] /\ q[1] \in Name
      BY <1>3, <1>7, <3>1
    <3> QED BY <3>1, <3>2, <3>3
  <2>2. Len(p) = 2 /\ Len(p) # 1
    <3> DEFINE z == Len(p)
    <3>1. z \in Nat /\ z - 1 = 1
      BY <1>2, <1>3, <1>7
    <3> HIDE DEF z
    <3>2. z = 2 /\ z # 1
      BY <3>1
    <3> QED BY <3>2 DEF z
  <2>3. /\ \A f : HoldsNow(Root, f) /\ f.name = p[1] /\ f.type = Dir => Walk(q).ok
        /\ Walk(q).ok =>
             /\ Walk(q).up = Root
             /\ \E f : HoldsNow(Root, f) /\ f.name = p[1] /\ f.type = Dir /\ f.ino = Walk(q).dir
    BY <1>1, <2>1, FirstStep
  <2> QED BY <2>2, <2>3 DEF LeadsTo, q
<1>8. CASE Len(q) > 1
  <2>1. ~w[2].ok
    <3> SUFFICES ASSUME w[2].ok PROVE FALSE
      OBVIOUS
    <3>1. /\ w[1] = Step(WalkFrom, q[1]) /\ w[2] = Step(w[1], q[2])
          /\ q[1] \in Name /\ q[2] \in Name
      BY <1>3, <1>5, <1>8
    <3>2. w[1].ok => /\ w[1].dir \in D
                     /\ \E f : HoldsNow(Root, f) /\ f.ino = w[1].dir
      BY <1>1, <3>1, FirstStep
    <3>3. /\ w[1].ok /\ w[2].dir \in D /\ Has(w[1].dir, q[2])
          /\ w[2].dir = Get(w[1].dir, q[2]).ino
      BY <1>1, <3>1, <3>2, StepStays
    <3> DEFINE g == Get(w[1].dir, q[2])
    <3>4. Holds(inode, data, ifree, w[1].dir, g)
      BY <1>1, <3>1, <3>2, <3>3, HasMeans
    <3> HIDE DEF g
    <3>5. w[1].dir # Root
      BY <1>1, <3>2, <3>3, HeldOnce DEF HoldsNow
    <3>6. g.type = File
      BY <1>1, <3>4, <3>5 DEF FlatNow, FlatIn
    <3>7. inode[g.ino].type = File
      BY <1>1, <3>4, <3>6, HeldOnce
    <3>8. inode[g.ino].type = Dir
      BY <3>3 DEF DirsOf, g
    <3> QED BY <3>7, <3>8, KindFacts
  <2> DEFINE T == {k \in 2 .. Len(q) : ~w[k].ok}
  <2>2. 2 \in T
    BY <1>3, <1>8, <2>1
  <2>3. ASSUME NEW k \in 2 .. Len(q) - 1, k \in T PROVE k + 1 \in T
    <3>1. w[k + 1] = Step(w[k], q[k + 1]) /\ q[k + 1] \in Name /\ k + 1 \in 2 .. Len(q)
      BY <1>3, <1>5, <2>3
    <3>2. ~w[k].ok
      BY <2>3
    <3>3. ~Step(w[k], q[k + 1]).ok
      BY <1>1, <3>1, <3>2, StepStays
    <3> QED BY <3>1, <3>3
  <2>4. Len(q) \in T
    <3> HIDE DEF T
    <3>1. \A k \in 2 .. Len(q) : k \in T
      <4>1. \A k \in 2 .. Len(q) - 1 : k \in T => k + 1 \in T
        BY <2>3
      <4> QED BY <1>3, <2>2, <4>1, Climb
    <3> QED BY <1>3, <1>8, <3>1
  <2>5. ~Walk(q).ok
    BY <1>4, <2>4
  <2>6. Len(p) # 1 /\ Len(p) # 2
    BY <1>2, <1>3, <1>8
  <2> QED BY <2>5, <2>6 DEF LeadsTo, q
<1> QED BY <1>3, <1>6, <1>7, <1>8

(* What is looked up at a path is what is there.                            *)
KindsRight ==
  \A p \in Path : /\ \A e : AtPath(p, e) => KindAt(p) = e.type
                  /\ (\A e : ~AtPath(p, e)) => KindAt(p) = None

(* A path leads to one directory, and has one entry.                        *)
LEMMA LeadsOnce ==
  ASSUME FlatInv
  PROVE  /\ \A p, d : LeadsTo(p, d) => d \in DirsOf(inode, ifree)
         /\ \A p, c, d : LeadsTo(p, c) /\ LeadsTo(p, d) => c = d
         /\ \A p, d : LeadsTo(p, d) => (d = Root <=> Len(p) = 1)
<1>1. TreeOK(inode, data, ifree, bfree) /\ Root \in DirsOf(inode, ifree)
  BY DEF FlatInv, TreeInv, TreeNow, TreeOK, Rooted
<1>2. /\ \A f : HoldsNow(Root, f) /\ f.type = Dir => f.ino \in DirsOf(inode, ifree) /\ f.ino # Root
      /\ \A f, g : HoldsNow(Root, f) /\ HoldsNow(Root, g) /\ f.name = g.name => f = g
  BY <1>1, HeldOnce DEF HoldsNow
<1> QED BY <1>1, <1>2 DEF LeadsTo

(* So it is, in every tree whose directories are in the root.              *)
LEMMA LookUp ==
  ASSUME FlatInv
  PROVE  KindsRight
<1> SUFFICES ASSUME NEW p \in Path
             PROVE  /\ \A e : AtPath(p, e) => KindAt(p) = e.type
                    /\ (\A e : ~AtPath(p, e)) => KindAt(p) = None
  BY DEF KindsRight
<1> DEFINE w == Walk(Front(p))
           n == Last(p)
<1>1. TreeNow /\ TreeOK(inode, data, ifree, bfree) /\ n \in Name
  BY PathMeans DEF FlatInv, TreeInv, TreeNow
<1>2. /\ w.ok <=> \E d : LeadsTo(p, d)
      /\ w.ok => LeadsTo(p, w.dir)
  BY WalkFlat
<1>3. w.ok => w.dir \in DirsOf(inode, ifree) /\ \A d : LeadsTo(p, d) => d = w.dir
  <2> HIDE DEF w
  <2> QED BY <1>2, LeadsOnce
<1>4. KindAt(p) = IF w.ok /\ Has(w.dir, n) THEN Get(w.dir, n).type ELSE None
  BY DEF KindAt, None
<1> HIDE DEF w, n
<1>5. ASSUME NEW e, AtPath(p, e) PROVE KindAt(p) = e.type
  <2>1. w.ok /\ HoldsNow(w.dir, e) /\ e.name = n
    BY <1>2, <1>3, <1>5 DEF AtPath, n
  <2>2. Has(w.dir, n) /\ HoldsNow(w.dir, Get(w.dir, n)) /\ Get(w.dir, n).name = n
    BY <1>1, <1>3, <2>1, HasMeans DEF HoldsNow
  <2>3. Get(w.dir, n) = e
    BY <1>1, <2>1, <2>2, HeldOnce DEF HoldsNow
  <2> QED BY <1>4, <2>1, <2>2, <2>3
<1>6. ASSUME \A e : ~AtPath(p, e) PROVE KindAt(p) = None
  <2>1. ASSUME w.ok, Has(w.dir, n) PROVE FALSE
    <3>1. HoldsNow(w.dir, Get(w.dir, n)) /\ Get(w.dir, n).name = n
      BY <1>1, <1>3, <2>1, HasMeans DEF HoldsNow
    <3>2. AtPath(p, Get(w.dir, n))
      BY <1>2, <2>1, <3>1 DEF AtPath, n
    <3> QED BY <1>6, <3>2
  <2> QED BY <1>4, <2>1
<1> QED BY <1>5, <1>6

-----------------------------------------------------------------------------
(* What a step of net/ does to what directories hold.                       *)
Idle == Same /\ (reply' = reply \/ \E ok \in BOOLEAN : Told("other", << >>, ok))

MadeNone(p) == Same /\ (Told("create", p, FALSE) \/ reply' = Reply("mkdir", p, FALSE))

MadeFile(p) ==
  /\ Told("create", p, TRUE) /\ \A e : ~AtPath(p, e)
  /\ \E d, t : LeadsTo(p, d) /\ t \in ifree /\ Gains(d, Dirent(Last(p), t, File))

MadeDir(p) ==
  /\ Told("mkdir", p, TRUE) /\ (\A e : ~AtPath(p, e)) /\ Len(p) = 1
  /\ \E t \in ifree : Gains(Root, Dirent(Last(p), t, Dir))

LostFile(p) ==
  /\ Told("unlink", p, TRUE)
  /\ \E e : AtPath(p, e) /\ e.type = File /\ Loses(e)

LostDir(p) ==
  /\ reply' = Reply("rmdir", p, TRUE) /\ Len(p) = 1
  /\ \E e : AtPath(p, e) /\ e.type = Dir /\ (\A f : ~HoldsNow(e.ino, f)) /\ Loses(e)

KeptDir(p) ==
  /\ reply' = Reply("rmdir", p, FALSE) /\ Len(p) = 1 /\ Same
  /\ \E e : AtPath(p, e) /\ e.type = Dir /\ \E f : HoldsNow(e.ino, f)

Does(p) == MadeNone(p) \/ MadeFile(p) \/ MadeDir(p) \/ LostFile(p) \/ LostDir(p) \/ KeptDir(p)

(* What is not touched stays.                                              *)
LEMMA Still ==
  ASSUME NeatNow, UNCHANGED <<inode, data, ifree>>
  PROVE  Same /\ NeatNext
BY DEF Same, HoldsNow, HoldsNext, NeatNow, NeatNext

(* What is not there, of a new path.                                        *)
LEMMA NewMeans ==
  ASSUME FlatInv, NEW p \in Path, IsNew(p)
  PROVE  /\ LeadsTo(p, DirOf(p)) /\ (\A e : ~AtPath(p, e)) /\ Walk(Front(p)).up = Root
         /\ DirOf(p) \in DirsOf(inode, ifree) /\ Last(p) \in Name /\ ~Has(DirOf(p), Last(p))
<1> DEFINE w == Walk(Front(p))
           d == DirOf(p)
<1>1. w.ok /\ ~Has(d, Last(p)) /\ d = w.dir /\ Last(p) \in Name /\ TreeNow
  BY PathMeans DEF IsNew, DirOf, FlatInv, TreeInv
<1>2. LeadsTo(p, d) /\ w.up = Root
  BY <1>1, WalkFlat
<1> HIDE DEF w, d
<1>3. d \in DirsOf(inode, ifree) /\ \A c : LeadsTo(p, c) => c = d
  BY <1>2, LeadsOnce
<1>4. \A e : ~AtPath(p, e)
  BY <1>1, <1>3, HasMeans DEF AtPath, HoldsNow
<1> QED BY <1>1, <1>2, <1>3, <1>4 DEF w, d

(* What is there, of a path that resolves.                                  *)
LEMMA OldMeans ==
  ASSUME FlatInv, NEW p \in Path, Resolves(p)
  PROVE  /\ LeadsTo(p, DirOf(p)) /\ AtPath(p, Target(p)) /\ HoldsNow(DirOf(p), Target(p))
         /\ Walk(Front(p)).up = Root /\ Last(p) \in Name /\ DirOf(p) \in DirsOf(inode, ifree)
         /\ Target(p).name = Last(p)
<1> DEFINE w == Walk(Front(p))
           d == DirOf(p)
           g == Target(p)
<1>1. w.ok /\ Has(d, Last(p)) /\ d = w.dir /\ Last(p) \in Name /\ TreeNow /\ g = Get(d, Last(p))
  BY PathMeans DEF Resolves, DirOf, Target, FlatInv, TreeInv
<1>2. LeadsTo(p, d) /\ w.up = Root
  BY <1>1, WalkFlat
<1> HIDE DEF w, d, g
<1>3. d \in DirsOf(inode, ifree)
  BY <1>2, LeadsOnce
<1>4. HoldsNow(d, g) /\ g.name = Last(p)
  BY <1>1, <1>3, HasMeans DEF HoldsNow
<1>5. AtPath(p, g)
  BY <1>2, <1>4 DEF AtPath
<1> QED BY <1>1, <1>2, <1>3, <1>4, <1>5 DEF w, d, g

(* create makes a file where nothing was, or changes nothing.              *)
LEMMA CreateTells ==
  ASSUME FlatInv, NEW p \in Path, NEW heard \in BOOLEAN, ~Crowds, ~Strays, Create(p, heard), TreeNext
  PROVE  NeatNext /\ (Idle \/ MadeNone(p) \/ MadeFile(p))
<1> DEFINE d == DirOf(p)
           t == FirstFree(ifree)
<1>1. /\ IsNew(p) /\ ~Full(d) /\ (ifree = {} => NoInode(p, heard))
      /\ (ifree # {} => CreateFile(d, p, heard))
  BY DEF Create
<1>2. /\ LeadsTo(p, d) /\ (\A e : ~AtPath(p, e))
      /\ d \in DirsOf(inode, ifree) /\ Last(p) \in Name /\ ~Has(d, Last(p))
  BY <1>1, NewMeans
<1>3. TreeNow /\ NeatNow
  BY DEF FlatInv, TreeInv
<1>4. CASE ifree = {}
  <2>1. UNCHANGED <<inode, data, ifree>> /\ Told("create", p, FALSE)
    BY <1>1, <1>4, Zenon DEF NoInode, Astray, Refuse, Told
  <2>2. Same /\ NeatNext
    BY <1>3, <2>1, Still
  <2> QED BY <2>1, <2>2 DEF MadeNone
<1>5. CASE ifree # {}
  <2>1. t \in ifree
    BY <1>3, <1>5, InoAssumption, FirstFreeIsFree DEF TreeNow, TreeOK, Typed
  <2>2. CreateFile(d, p, heard)
    BY <1>1, <1>5
  <2> HIDE DEF d, t
  <2>3. /\ NeatNext
        /\ \/ Same /\ reply' = reply
           \/ Told("create", p, TRUE) /\ Gains(d, Dirent(Last(p), t, File))
    BY <1>1, <1>2, <1>3, <1>5, <2>2, CreateHas DEF t
  <2> QED BY <1>2, <2>1, <2>3 DEF Idle, MadeFile
<1> QED BY <1>4, <1>5

(* mkdir makes a directory in the root, or changes nothing.                *)
LEMMA MkdirTells ==
  ASSUME FlatInv, NEW p \in Path, NEW heard \in BOOLEAN, ~Crowds, ~Nested, Mkdir(p, heard), TreeNext
  PROVE  NeatNext /\ (Idle \/ MadeNone(p) \/ MadeDir(p))
<1> DEFINE t == FirstFree(ifree)
<1>1. /\ IsNew(p) /\ Len(p) = 1 /\ ~Full(Walk(Front(p)).up)
      /\ MakeDirentry(Walk(Front(p)).up, p, heard)
  BY DEF Mkdir
<1>2. /\ LeadsTo(p, DirOf(p)) /\ (\A e : ~AtPath(p, e)) /\ Walk(Front(p)).up = Root
      /\ DirOf(p) \in DirsOf(inode, ifree) /\ Last(p) \in Name /\ ~Has(DirOf(p), Last(p))
  BY <1>1, NewMeans
<1>3. DirOf(p) = Root
  BY <1>1, <1>2, LeadsOnce
<1>4. /\ Root \in DirsOf(inode, ifree) /\ ~Has(Root, Last(p)) /\ ~Full(Root)
      /\ MakeDirentry(Root, p, heard)
  BY <1>1, <1>2, <1>3
<1>5. TreeNow /\ NeatNow
  BY DEF FlatInv, TreeInv
<1>6. /\ NeatNext
      /\ \/ Same /\ reply' = reply
         \/ Same /\ reply' = Reply("mkdir", p, FALSE)
         \/ /\ Told("mkdir", p, TRUE) /\ t \in ifree
            /\ Gains(Root, Dirent(Last(p), t, Dir))
  BY <1>2, <1>4, <1>5, MkdirHas
<1> HIDE DEF t
<1> QED BY <1>1, <1>2, <1>6 DEF Idle, MadeNone, MadeDir

(* unlink takes a file away, and succeeds.                                 *)
LEMMA UnlinkTells ==
  ASSUME FlatInv, NEW p \in Path, NEW heard \in BOOLEAN, ~Stale, Unlink(p, heard), TreeNext
  PROVE  NeatNext /\ LostFile(p)
<1> DEFINE e == Target(p)
<1>1. Resolves(p)
  BY DEF Unlink
<1>2. AtPath(p, e)
  BY <1>1, OldMeans
<1>3. /\ Told("unlink", p, TRUE) /\ e.type = File
      /\ \A c, f : HoldsNext(c, f) <=> HoldsNow(c, f) /\ f.ino # e.ino
      /\ NeatNext
  BY UnlinkDoes DEF FlatInv, TreeInv
<1> HIDE DEF e
<1> QED BY <1>2, <1>3 DEF LostFile, Loses

(* rmdir takes an empty directory away, and refuses one that is not empty. *)
LEMMA RmdirTells ==
  ASSUME FlatInv, NEW p \in Path, Rmdir(p), TreeNext
  PROVE  NeatNext /\ (LostDir(p) \/ KeptDir(p))
<1> DEFINE g == Target(p)
<1>1. Resolves(p) /\ g.type = Dir /\ RemoveDirentry(Walk(Front(p)).up, p)
  BY DEF Rmdir, Dir
<1>2. /\ LeadsTo(p, DirOf(p)) /\ AtPath(p, g) /\ HoldsNow(DirOf(p), g)
      /\ Walk(Front(p)).up = Root /\ Last(p) \in Name /\ g.name = Last(p)
  BY <1>1, OldMeans
<1>0. TreeNow /\ NeatNow /\ Root \in DirsOf(inode, ifree) /\ TreeOK(inode, data, ifree, bfree)
  BY DEF FlatInv, TreeInv, TreeNow, TreeOK, Rooted
<1> HIDE DEF g
<1>3. DirOf(p) = Root
  BY <1>1, <1>2, KindFacts DEF FlatInv, FlatNow, FlatIn, HoldsNow
<1>4. Len(p) = 1 /\ HoldsNow(Root, g)
  BY <1>2, <1>3, LeadsOnce
<1>5. \A e : HoldsNow(Root, e) /\ e.name = Last(p) => AtPath(p, e) /\ (e.type = Dir => e.ino \in DirsOf(inode, ifree))
  BY <1>0, <1>2, <1>3, HeldOnce DEF AtPath, HoldsNow
<1>6. \/ /\ reply' = Reply("rmdir", p, FALSE) /\ UNCHANGED <<inode, data, ifree, bfree>>
         /\ \A e : HoldsNow(Root, e) /\ e.name = Last(p) /\ e.type = Dir => ~DirIsEmpty(e.ino)
      \/ /\ reply' = Reply("rmdir", p, TRUE)
         /\ \E e : /\ HoldsNow(Root, e) /\ e.name = Last(p) /\ e.type = Dir /\ DirIsEmpty(e.ino)
                   /\ \A c, f : HoldsNext(c, f) <=> HoldsNow(c, f) /\ f.ino # e.ino
         /\ NeatNext
  BY <1>0, <1>1, <1>2, RmdirDoes
<1>7. CASE /\ reply' = Reply("rmdir", p, FALSE) /\ UNCHANGED <<inode, data, ifree, bfree>>
           /\ \A e : HoldsNow(Root, e) /\ e.name = Last(p) /\ e.type = Dir => ~DirIsEmpty(e.ino)
  <2>1. ~DirIsEmpty(g.ino) /\ g.ino \in DirsOf(inode, ifree)
    BY <1>1, <1>2, <1>4, <1>5, <1>7
  <2>2. \E f : HoldsNow(g.ino, f)
    BY <1>0, <2>1, EmptyIff
  <2>3. Same /\ NeatNext
    BY <1>0, <1>7, Still
  <2> QED BY <1>1, <1>2, <1>4, <1>7, <2>2, <2>3 DEF KeptDir
<1>8. CASE /\ reply' = Reply("rmdir", p, TRUE)
           /\ \E e : /\ HoldsNow(Root, e) /\ e.name = Last(p) /\ e.type = Dir /\ DirIsEmpty(e.ino)
                     /\ \A c, f : HoldsNext(c, f) <=> HoldsNow(c, f) /\ f.ino # e.ino
           /\ NeatNext
  <2>1. PICK e : /\ HoldsNow(Root, e) /\ e.name = Last(p) /\ e.type = Dir /\ DirIsEmpty(e.ino)
                 /\ \A c, f : HoldsNext(c, f) <=> HoldsNow(c, f) /\ f.ino # e.ino
    BY <1>8
  <2>2. AtPath(p, e) /\ e.ino \in DirsOf(inode, ifree)
    BY <1>5, <2>1
  <2>3. \A f : ~HoldsNow(e.ino, f)
    BY <1>0, <2>1, <2>2, EmptyIff
  <2> QED BY <1>4, <1>8, <2>1, <2>2, <2>3 DEF LostDir, Loses
<1> QED BY <1>6, <1>7, <1>8

(* Every step does one of these.                                            *)
LEMMA StepTells ==
  ASSUME FlatInv, ~Nested, ~Crowds, ~Stale, ~Strays, Next, TreeNext
  PROVE  NeatNext /\ (Idle \/ \E p \in Path : Does(p))
<1>1. TreeNow /\ NeatNow /\ OpenNow
  BY DEF FlatInv, TreeInv
<1>2. CASE \E p \in Path, heard \in BOOLEAN : Create(p, heard)
  BY <1>2, CreateTells DEF Does
<1>3. CASE \E p \in Path, heard \in BOOLEAN : Mkdir(p, heard)
  BY <1>3, MkdirTells DEF Does
<1>4. CASE \E p \in Path, heard \in BOOLEAN : Unlink(p, heard)
  BY <1>4, UnlinkTells DEF Does
<1>5. CASE \E p \in Path : Rmdir(p)
  BY <1>5, RmdirTells DEF Does
<1>6. CASE \E p \in Path : Open(p)
  <2>1. UNCHANGED <<inode, data, ifree>> /\ Told("other", << >>, TRUE)
    BY <1>6, TellsTold DEF Open, Others
  <2> QED BY <1>1, <2>1, Still DEF Idle
<1>7. CASE \E p \in Path, heard \in BOOLEAN : Truncate(p, heard)
  <2>1. PICK p \in Path, heard \in BOOLEAN : Truncate(p, heard)
    BY <1>7
  <2>2. Told("other", << >>, TRUE)
    BY <2>1, TellsTold DEF Truncate, Others
  <2> QED BY <1>1, <2>1, <2>2, TruncateDoes DEF Idle
<1>8. CASE \E i \in Ino : Release(i)
  <2>1. UNCHANGED <<inode, data, ifree>> /\ Told("other", << >>, TRUE)
    BY <1>8, TellsTold DEF Release, Others
  <2> QED BY <1>1, <2>1, Still DEF Idle
<1>9. CASE \E i \in Ino, heard \in BOOLEAN : Grow(i, heard)
  <2>1. PICK i \in Ino, heard \in BOOLEAN : Grow(i, heard)
    BY <1>9
  <2>2. Told("other", << >>, TRUE) \/ Told("other", << >>, FALSE)
    BY <2>1, TellsTold DEF Grow, Others
  <2> QED BY <1>1, <2>1, <2>2, GrowDoes DEF Idle
<1>a. CASE \E i \in Ino, heard \in BOOLEAN : WriteOver(i, heard)
  BY <1>1, <1>a DEF WriteOver, OpenNow
<1>10. CASE Stopped
  <2>1. UNCHANGED <<inode, data, ifree>> /\ reply' = reply
    BY <1>10 DEF Stopped, vars
  <2> QED BY <1>1, <2>1, Still DEF Idle
<1> QED BY <1>2, <1>3, <1>4, <1>5, <1>6, <1>7, <1>8, <1>9, <1>a, <1>10 DEF Next

(* Directories stay in the root.                                            *)
LEMMA FlatStays ==
  ASSUME FlatInv, Idle \/ \E p \in Path : Does(p)
  PROVE  FlatNext
<1> DEFINE OK(d, e) == d = Root \/ (e.type = File /\ MaxDepth > 1)
<1>1. \A d, e : HoldsNow(d, e) => OK(d, e)
  BY DEF FlatInv, FlatNow, FlatIn, HoldsNow
<1>2. SUFFICES \A d, e : HoldsNext(d, e) => OK(d, e)
  BY DEF FlatNext, FlatIn, HoldsNext
<1> HIDE DEF OK
<1>3. CASE Same
  BY <1>1, <1>3 DEF Same
<1>4. CASE \E e : Loses(e)
  BY <1>1, <1>4 DEF Loses
<1>5. CASE \E p \in Path : MadeFile(p)
  <2>1. PICK p \in Path : MadeFile(p)
    BY <1>5
  <2>2. PICK d, t : LeadsTo(p, d) /\ Gains(d, Dirent(Last(p), t, File))
    BY <2>1 DEF MadeFile
  <2> DEFINE g == Dirent(Last(p), t, File)
  <2>3. g.type = File
    BY DEF Dirent
  <2>4. d = Root \/ MaxDepth > 1
    <3>1. Len(p) \in 1 .. MaxDepth
      <4>1. PICK n \in 1 .. MaxDepth : p \in [1 .. n -> Name]
        BY DEF Path
      <4>2. n \in Nat
        BY <4>1
      <4>3. Len(p) = n
        BY <4>1, <4>2
      <4> QED BY <4>3
    <3>2. CASE Len(p) = 2
      BY <3>1, <3>2, SizeAssumption
    <3>3. Len(p) = 2 \/ d = Root
      BY <2>2 DEF LeadsTo
    <3> QED BY <3>2, <3>3
  <2>5. OK(d, g)
    BY <2>3, <2>4 DEF OK
  <2> HIDE DEF g
  <2>6. \A c, f : HoldsNext(c, f) <=> HoldsNow(c, f) \/ (c = d /\ f = g)
    BY <2>2 DEF Gains, g
  <2> QED BY <1>1, <2>5, <2>6
<1>6. CASE \E p \in Path : MadeDir(p)
  <2>1. PICK g : Gains(Root, g)
    BY <1>6 DEF MadeDir
  <2> QED BY <1>1, <2>1 DEF Gains, OK
<1>7. Same \/ (\E e : Loses(e)) \/ (\E p \in Path : MadeFile(p)) \/ \E p \in Path : MadeDir(p)
  BY DEF Idle, Does, MadeNone, LostFile, LostDir, KeptDir
<1> QED BY <1>3, <1>4, <1>5, <1>6, <1>7

(* Every step keeps all three parts of the invariant and does one of these.*)
LEMMA FlatStep ==
  ASSUME FlatInv, ~Nested, ~Crowds, ~Stale, ~Strays, Next
  PROVE  FlatInv' /\ (Idle \/ \E p \in Path : Does(p))
<1>1. TreeInv' /\ TreeNext
  BY TreeStep DEF FlatInv, TreeInv, TreeNow, TreeNext
<1>2. NeatNext /\ (Idle \/ \E p \in Path : Does(p))
  BY <1>1, StepTells
<1>3. FlatNext
  BY <1>2, FlatStays
<1> QED BY <1>1, <1>2, <1>3 DEF FlatInv, NeatNow, NeatNext, FlatNow, FlatNext

-----------------------------------------------------------------------------
(* A path in figures.                                                       *)
LEMMA PathIs ==
  ASSUME NEW p \in Path
  PROVE  /\ Len(p) \in 1 .. MaxDepth /\ Len(p) \in Nat /\ p \in [1 .. Len(p) -> Name]
         /\ Last(p) = p[Len(p)]
<1>1. PICK n \in 1 .. MaxDepth : p \in [1 .. n -> Name]
  BY DEF Path
<1>2. n \in Nat
  BY <1>1
<1>3. Len(p) = n
  BY <1>1, <1>2
<1> QED BY <1>1, <1>2, <1>3 DEF Last

(* What is known of the entries that directories hold.                     *)
LEMMA FlatFacts ==
  ASSUME FlatInv
  PROVE  /\ \A d, e : HoldsNow(d, e) =>
              /\ d \in Ino \ ifree /\ e.ino \in Ino \ ifree /\ e.ino # Root /\ e.type \in Kind
              /\ e.name \in Name
              /\ (d = Root \/ (e.type = File /\ MaxDepth > 1))
         /\ \A c, d, e, f : HoldsNow(c, e) /\ HoldsNow(d, f) /\ e.ino = f.ino => c = d /\ e = f
         /\ \A d, e, f : HoldsNow(d, e) /\ HoldsNow(d, f) /\ e.name = f.name => e = f
<1>1. TreeOK(inode, data, ifree, bfree)
  BY DEF FlatInv, TreeInv, TreeNow
<1> QED BY <1>1, HeldOnce DEF FlatInv, FlatNow, FlatIn, HoldsNow

(* An entry is at one path, and a path has one entry.                       *)
LEMMA OnePath ==
  ASSUME FlatInv, NEW p \in Path, NEW q \in Path, NEW d,
         LeadsTo(p, d), LeadsTo(q, d), Last(p) = Last(q)
  PROVE  p = q
<1>1. (d = Root <=> Len(p) = 1) /\ (d = Root <=> Len(q) = 1)
  BY LeadsOnce
<1>2. /\ Len(p) \in Nat /\ p \in [1 .. Len(p) -> Name] /\ Last(p) = p[Len(p)]
      /\ Len(q) \in Nat /\ q \in [1 .. Len(q) -> Name] /\ Last(q) = q[Len(q)]
  BY PathIs
<1>3. CASE d = Root
  <2>1. Len(p) = 1 /\ Len(q) = 1 /\ p[1] = q[1]
    BY <1>1, <1>2, <1>3
  <2>2. p \in [1 .. 1 -> Name] /\ q \in [1 .. 1 -> Name] /\ \A i \in 1 .. 1 : p[i] = q[i]
    BY <1>2, <2>1
  <2> QED BY <2>2
<1>4. CASE d # Root
  <2>1. /\ Len(p) = 2 /\ Len(q) = 2
        /\ \E f : HoldsNow(Root, f) /\ f.name = p[1] /\ f.ino = d
        /\ \E f : HoldsNow(Root, f) /\ f.name = q[1] /\ f.ino = d
    BY <1>1, <1>4 DEF LeadsTo
  <2>2. p[1] = q[1]
    BY <2>1, FlatFacts
  <2>3. p[2] = q[2]
    BY <1>2, <2>1
  <2>4. p \in [1 .. 2 -> Name] /\ q \in [1 .. 2 -> Name] /\ \A i \in 1 .. 2 : p[i] = q[i]
    BY <1>2, <2>1, <2>2, <2>3
  <2> QED BY <2>4
<1> QED BY <1>3, <1>4

(* Nothing else is at the path of an entry, nor the entry at another path. *)
LEMMA AtOnce ==
  ASSUME FlatInv, NEW p \in Path, NEW e, AtPath(p, e)
  PROVE  /\ \A f : AtPath(p, f) => f = e
         /\ \A q \in Path : AtPath(q, e) => q = p
<1>1. PICK d : LeadsTo(p, d) /\ HoldsNow(d, e) /\ e.name = Last(p)
  BY DEF AtPath
<1>2. ASSUME NEW f, AtPath(p, f) PROVE f = e
  BY <1>1, <1>2, LeadsOnce, FlatFacts DEF AtPath
<1>3. ASSUME NEW q \in Path, AtPath(q, e) PROVE q = p
  <2>1. PICK c : LeadsTo(q, c) /\ HoldsNow(c, e) /\ e.name = Last(q)
    BY <1>3 DEF AtPath
  <2>2. c = d
    BY <1>1, <2>1, FlatFacts
  <2> QED BY <1>1, <2>1, <2>2, OnePath
<1> QED BY <1>2, <1>3

(* What is at a path after a step, and of what kind it is.                  *)
AtNext(p, e) == AtPath(p, e)'
KindNext(p)  == KindAt(p)'

LeadsNext(p, d) ==
  \/ Len(p) = 1 /\ d = Root
  \/ Len(p) = 2 /\ \E f : HoldsNext(Root, f) /\ f.name = p[1] /\ f.type = Dir /\ f.ino = d

(* What AtNext and the kinds after a step are, in terms of HoldsNext.      *)
LEMMA NextMeans ==
  /\ \A p, e : AtNext(p, e) <=> \E d : LeadsNext(p, d) /\ HoldsNext(d, e) /\ e.name = Last(p)
  /\ KindsRight' => \A p \in Path : /\ \A e : AtNext(p, e) => KindNext(p) = e.type
                                    /\ (\A e : ~AtNext(p, e)) => KindNext(p) = None
<1>1. ASSUME NEW p, NEW e
      PROVE  AtNext(p, e) <=> \E d : LeadsNext(p, d) /\ HoldsNext(d, e) /\ e.name = Last(p)
  BY DEF AtNext, AtPath, LeadsTo, LeadsNext, HoldsNow, HoldsNext
<1>2. ASSUME KindsRight', NEW p \in Path
      PROVE  /\ \A e : AtNext(p, e) => KindNext(p) = e.type
             /\ (\A e : ~AtNext(p, e)) => KindNext(p) = None
  BY <1>2 DEF KindsRight, AtNext, KindNext
<1> QED BY <1>1, <1>2

Gained(p, g) == \A q \in Path : \A e : AtNext(q, e) <=> AtPath(q, e) \/ (q = p /\ e = g)
LostOne(g)   == \A q \in Path : \A e : AtNext(q, e) <=> AtPath(q, e) /\ e # g

(* If directories hold the same, every path is of the same kind.           *)
LEMMA SameKinds ==
  ASSUME KindsRight, KindsRight', Same
  PROVE  \A q \in Path : KindNext(q) = KindAt(q)
<1>1. \A q, e : AtNext(q, e) <=> AtPath(q, e)
  BY NextMeans DEF AtPath, LeadsTo, LeadsNext, Same
<1> QED BY <1>1, NextMeans DEF KindsRight

(* One entry more changes the kind of one path, where nothing was.         *)
LEMMA GainKinds ==
  ASSUME KindsRight, KindsRight', NEW p \in Path, NEW g, Gained(p, g), \A e : ~AtPath(p, e)
  PROVE  KindAt(p) = None /\ \A q \in Path : KindNext(q) = IF q = p THEN g.type ELSE KindAt(q)
<1>1. KindAt(p) = None /\ KindNext(p) = g.type
  BY NextMeans DEF KindsRight, Gained
<1>2. ASSUME NEW q \in Path, q # p PROVE KindNext(q) = KindAt(q)
  <2>1. \A e : AtNext(q, e) <=> AtPath(q, e)
    BY <1>2 DEF Gained
  <2> QED BY <2>1, NextMeans DEF KindsRight
<1> QED BY <1>1, <1>2

(* One entry less leaves nothing at one path.                              *)
LEMMA LoseKinds ==
  ASSUME FlatInv, KindsRight, KindsRight', NEW p \in Path, NEW g, LostOne(g), AtPath(p, g)
  PROVE  KindAt(p) = g.type /\ \A q \in Path : KindNext(q) = IF q = p THEN None ELSE KindAt(q)
<1>1. \A e : ~AtNext(p, e)
  BY AtOnce DEF LostOne
<1>2. KindAt(p) = g.type /\ KindNext(p) = None
  BY <1>1, NextMeans DEF KindsRight
<1>3. ASSUME NEW q \in Path, q # p PROVE KindNext(q) = KindAt(q)
  <2>1. \A e : AtNext(q, e) <=> AtPath(q, e)
    BY <1>3, AtOnce DEF LostOne
  <2> QED BY <2>1, NextMeans DEF KindsRight
<1> QED BY <1>2, <1>3

(* What directories gain is at one path more, what they lose at one less.   *)
LEMMA GainsOne ==
  ASSUME FlatInv, NEW p \in Path, NEW d, LeadsTo(p, d), NEW g, Gains(d, g), g.name = Last(p),
         g.type = File \/ (d = Root /\ g.ino \in ifree)
  PROVE  Gained(p, g)
<1>1. \A c, f : HoldsNext(c, f) <=> HoldsNow(c, f) \/ (c = d /\ f = g)
  BY DEF Gains
<1>2. \A q, c : LeadsTo(q, c) => LeadsNext(q, c)
  BY <1>1 DEF LeadsTo, LeadsNext
<1>3. ASSUME NEW q \in Path, NEW e, AtNext(q, e) PROVE AtPath(q, e) \/ (q = p /\ e = g)
  <2>1. PICK c : LeadsNext(q, c) /\ HoldsNext(c, e) /\ e.name = Last(q)
    BY <1>3, NextMeans
  <2>2. LeadsTo(q, c) \/ (g.type = Dir /\ c = g.ino)
    BY <1>1, <2>1 DEF LeadsTo, LeadsNext
  <2>3. CASE g.type = Dir /\ c = g.ino
    <3>1. g.ino \in ifree /\ d = Root
      BY <2>3, KindFacts
    <3>2. ~HoldsNow(c, e)
      BY <2>3, <3>1, FlatFacts
    <3>3. c = Root
      BY <1>1, <2>1, <3>1, <3>2
    <3>4. Root \notin ifree
      BY DEF FlatInv, TreeInv, TreeNow, TreeOK, Rooted, DirsOf
    <3> QED BY <2>3, <3>1, <3>3, <3>4
  <2>4. CASE LeadsTo(q, c)
    <3>1. CASE HoldsNow(c, e)
      BY <2>1, <2>4, <3>1 DEF AtPath
    <3>2. CASE c = d /\ e = g
      BY <2>1, <2>4, <3>2, OnePath
    <3> QED BY <1>1, <2>1, <3>1, <3>2
  <2> QED BY <2>2, <2>3, <2>4
<1>4. ASSUME NEW q \in Path, NEW e, AtPath(q, e) \/ (q = p /\ e = g) PROVE AtNext(q, e)
  BY <1>1, <1>2, <1>4, NextMeans DEF AtPath
<1> QED BY <1>3, <1>4 DEF Gained

(* An entry that nothing is below takes no other path with it.             *)
LEMMA LosesOne ==
  ASSUME FlatInv, NEW p \in Path, NEW g, AtPath(p, g), Loses(g),
         g.type = File \/ \A f : ~HoldsNow(g.ino, f)
  PROVE  LostOne(g)
<1>1. \A c, f : HoldsNext(c, f) <=> HoldsNow(c, f) /\ f.ino # g.ino
  BY DEF Loses
<1>2. PICK d : HoldsNow(d, g)
  BY DEF AtPath
<1>3. \A q, c : LeadsNext(q, c) => LeadsTo(q, c)
  BY <1>1 DEF LeadsTo, LeadsNext
<1>4. ASSUME NEW q \in Path, NEW e, AtNext(q, e) PROVE AtPath(q, e) /\ e # g
  BY <1>1, <1>3, <1>4, NextMeans DEF AtPath
<1>5. ASSUME NEW q \in Path, NEW e, AtPath(q, e), e # g PROVE AtNext(q, e)
  <2>1. PICK c : LeadsTo(q, c) /\ HoldsNow(c, e) /\ e.name = Last(q)
    BY <1>5 DEF AtPath
  <2>2. HoldsNext(c, e)
    BY <1>1, <1>2, <1>5, <2>1, FlatFacts
  <2>3. CASE Len(q) = 1 /\ c = Root
    BY <2>1, <2>2, <2>3, NextMeans DEF LeadsNext
  <2>4. CASE Len(q) = 2 /\ \E f : HoldsNow(Root, f) /\ f.name = q[1] /\ f.type = Dir /\ f.ino = c
    <3>1. PICK f : HoldsNow(Root, f) /\ f.name = q[1] /\ f.type = Dir /\ f.ino = c
      BY <2>4
    <3>2. f.ino # g.ino
      <4>1. f.ino = g.ino => f = g
        BY <1>2, <3>1, FlatFacts
      <4> QED BY <2>1, <3>1, <4>1, KindFacts
    <3>3. LeadsNext(q, c)
      BY <1>1, <2>4, <3>1, <3>2 DEF LeadsNext
    <3> QED BY <2>1, <2>2, <3>3, NextMeans
  <2> QED BY <2>1, <2>3, <2>4 DEF LeadsTo
<1> QED BY <1>4, <1>5 DEF LostOne

-----------------------------------------------------------------------------
(* The directory of a path of two names is at the path of the first one.    *)
LEMMA ParentMeans ==
  ASSUME NEW p \in Path, NEW q \in Path
  PROVE  Tree!Parent(q) = p <=> Len(q) = Len(p) + 1 /\ \A i \in 1 .. Len(p) : q[i] = p[i]
<1>1. /\ Len(p) \in Nat /\ Len(q) \in Nat /\ Len(q) > 0
      /\ p \in [1 .. Len(p) -> Name] /\ q \in [1 .. Len(q) -> Name]
  BY PathIs
<1> DEFINE z == Len(q) - 1
           r == SubSeq(q, 1, z)
<1>2. z \in Nat /\ z + 1 = Len(q) /\ z <= Len(q) /\ q \in Seq(Name) /\ p \in Seq(Name)
  BY <1>1, PathMeans
<1>3. Tree!Parent(q) = r
  BY DEF Tree!Parent
<1> HIDE DEF z
<1>a. Len(r) = z /\ \A k \in 1 .. z : r[k] = q[k]
  BY <1>2
<1>b. r \in Seq(Name)
  BY <1>2
<1> HIDE DEF r
<1>4. r \in [1 .. z -> Name] /\ Len(r) = z /\ \A k \in 1 .. z : r[k] = q[k]
  BY <1>a, <1>b
<1>5. ASSUME r = p PROVE Len(q) = Len(p) + 1 /\ \A i \in 1 .. Len(p) : q[i] = p[i]
  BY <1>1, <1>2, <1>4, <1>5
<1>6. ASSUME Len(q) = Len(p) + 1, \A i \in 1 .. Len(p) : q[i] = p[i] PROVE r = p
  <2>1. z = Len(p)
    <3> DEFINE m == Len(p)
               l == Len(q)
    <3>1. m \in Nat /\ l = m + 1 /\ z + 1 = l /\ z \in Nat
      BY <1>1, <1>2, <1>6
    <3> HIDE DEF m, l
    <3> QED BY <3>1 DEF m
  <2> QED BY <1>1, <1>4, <1>6, <2>1
<1> QED BY <1>3, <1>5, <1>6

(* If a path leads to a directory, its parent is one.                      *)
LEMMA ParentIsThere ==
  ASSUME FlatInv, KindsRight, NEW p \in Path, NEW d, LeadsTo(p, d), Len(p) # 1
  PROVE  \E r \in Path : Tree!Parent(p) = r /\ KindAt(r) = Dir
<1>1. Len(p) = 2 /\ \E f : HoldsNow(Root, f) /\ f.name = p[1] /\ f.type = Dir /\ f.ino = d
  BY DEF LeadsTo
<1>2. PICK f : HoldsNow(Root, f) /\ f.name = p[1] /\ f.type = Dir
  BY <1>1
<1> DEFINE r == [i \in 1 .. 1 |-> p[1]]
<1>3. r \in [1 .. 1 -> Name] /\ r[1] = p[1]
  <2>1. p[1] \in Name
    BY <1>1, PathIs
  <2> QED BY <2>1
<1> HIDE DEF r
<1>4. r \in Path
  BY <1>3, SizeAssumption DEF Path
<1>5. Len(r) = 1
  BY <1>3
<1>6. Last(r) = r[1]
  BY <1>4, <1>5, PathIs
<1>7. AtPath(r, f)
  BY <1>2, <1>3, <1>5, <1>6 DEF AtPath, LeadsTo
<1>8. KindAt(r) = Dir
  BY <1>2, <1>4, <1>7 DEF KindsRight
<1>9. Tree!Parent(p) = r
  <2>1. Len(p) = Len(r) + 1 /\ \A i \in 1 .. Len(r) : p[i] = r[i]
    BY <1>1, <1>3, <1>5
  <2> QED BY <1>4, <2>1, ParentMeans
<1> QED BY <1>4, <1>8, <1>9

(* A directory is empty if nothing is at the paths below its own.           *)
LEMMA NothingBelow ==
  ASSUME FlatInv, KindsRight, NEW p \in Path, Len(p) = 1, NEW e, AtPath(p, e), e.type = Dir
  PROVE  (\A f : ~HoldsNow(e.ino, f)) <=> \A q \in Path : Tree!Parent(q) = p => KindAt(q) = None
<1>1. HoldsNow(Root, e) /\ e.name = p[1] /\ e.ino # Root
  BY PathIs, FlatFacts DEF AtPath, LeadsTo
<1>2. ASSUME \A f : ~HoldsNow(e.ino, f), NEW q \in Path, Tree!Parent(q) = p
      PROVE  KindAt(q) = None
  <2>1. Len(q) = 2 /\ q[1] = p[1]
    <3>1. Len(q) = Len(p) + 1 /\ \A i \in 1 .. Len(p) : q[i] = p[i]
      BY <1>2, ParentMeans
    <3>2. Len(q) = 1 + 1 /\ 1 \in 1 .. Len(p)
      BY <3>1
    <3> QED BY <3>1, <3>2
  <2>2. ASSUME NEW f, AtPath(q, f) PROVE FALSE
    <3>1. PICK g, d : /\ HoldsNow(Root, g) /\ g.name = q[1] /\ g.ino = d
                      /\ HoldsNow(d, f)
      BY <2>1, <2>2 DEF AtPath, LeadsTo
    <3>2. g = e
      BY <1>1, <2>1, <3>1, FlatFacts
    <3> QED BY <1>2, <3>1, <3>2
  <2> QED BY <2>2 DEF KindsRight
<1>3. ASSUME NEW f, HoldsNow(e.ino, f)
      PROVE  \E q \in Path : Tree!Parent(q) = p /\ KindAt(q) # None
  <2>1. MaxDepth > 1 /\ f.name \in Name /\ f.type \in Kind
    BY <1>1, <1>3, FlatFacts
  <2> DEFINE q == [i \in 1 .. 2 |-> IF i = 1 THEN p[1] ELSE f.name]
  <2>2. q \in [1 .. 2 -> Name] /\ q[1] = p[1] /\ q[2] = f.name
    BY <2>1, PathIs
  <2> HIDE DEF q
  <2>3. q \in Path
    BY <2>1, <2>2, SizeAssumption DEF Path
  <2>4. Len(q) = 2
    BY <2>2
  <2>5. Last(q) = q[2]
    BY <2>3, <2>4, PathIs
  <2>6. AtPath(q, f)
    BY <1>1, <1>3, <2>2, <2>4, <2>5 DEF AtPath, LeadsTo
  <2>7. KindAt(q) # None
    BY <2>1, <2>3, <2>6, UpFacts DEF KindsRight
  <2>8. Tree!Parent(q) = p
    <3>1. Len(q) = Len(p) + 1 /\ \A i \in 1 .. Len(p) : q[i] = p[i]
      BY <2>2, <2>4
    <3> QED BY <2>3, <3>1, ParentMeans
  <2> QED BY <2>3, <2>7, <2>8
<1> QED BY <1>2, <1>3

(* The tree that is seen, and what becomes of it.                           *)
Seen     == [p \in Path |-> KindAt(p)]
SeenNext == [p \in Path |-> KindNext(p)]

SeesMade(p, k) ==
  /\ Seen[p] = None /\ (Len(p) = 1 \/ Seen[Tree!Parent(p)] = Dir)
  /\ SeenNext = [Seen EXCEPT ![p] = k]

SeesLost(p, k) == Seen[p] = k /\ SeenNext = [Seen EXCEPT ![p] = None]

SeesNone(p) == \A q \in Path : Tree!Parent(q) = p => Seen[q] = None

(* The tree after a change at one path.                                    *)
LEMMA SeenIs ==
  ASSUME NEW p \in Path, NEW k, \A q \in Path : KindNext(q) = IF q = p THEN k ELSE KindAt(q)
  PROVE  SeenNext = [Seen EXCEPT ![p] = k]
BY DEF Seen, SeenNext

(* A step that changes no directory is not seen.                           *)
LEMMA SeesSame ==
  ASSUME KindsRight, KindsRight', Same
  PROVE  SeenNext = Seen
BY SameKinds DEF Seen, SeenNext

(* A step that adds an entry makes something where nothing was.            *)
LEMMA SeesMore ==
  ASSUME FlatInv, KindsRight, KindsRight', NEW p \in Path, NEW d, LeadsTo(p, d), \A e : ~AtPath(p, e),
         NEW g, Gains(d, g), g.name = Last(p), g.type = File \/ (d = Root /\ g.ino \in ifree)
  PROVE  SeesMade(p, g.type)
<1>1. Gained(p, g)
  BY GainsOne
<1>2. KindAt(p) = None /\ \A q \in Path : KindNext(q) = IF q = p THEN g.type ELSE KindAt(q)
  BY <1>1, GainKinds
<1>3. SeenNext = [Seen EXCEPT ![p] = g.type]
  BY <1>2, SeenIs
<1>4. Len(p) # 1 => Seen[Tree!Parent(p)] = Dir
  BY ParentIsThere DEF Seen
<1> QED BY <1>2, <1>3, <1>4 DEF SeesMade, Seen

(* A step that takes an entry away leaves nothing where it was.            *)
LEMMA SeesLess ==
  ASSUME FlatInv, KindsRight, KindsRight', NEW p \in Path, NEW g, AtPath(p, g), Loses(g),
         g.type = File \/ \A f : ~HoldsNow(g.ino, f)
  PROVE  SeesLost(p, g.type)
<1>1. LostOne(g)
  BY LosesOne
<1>2. KindAt(p) = g.type /\ \A q \in Path : KindNext(q) = IF q = p THEN None ELSE KindAt(q)
  BY <1>1, LoseKinds
<1>3. SeenNext = [Seen EXCEPT ![p] = None]
  BY <1>2, SeenIs
<1> QED BY <1>2, <1>3 DEF SeesLost, Seen

(* What a program sees of a step.                                           *)
Sees(p) ==
  \/ SeenNext = Seen /\ (Told("create", p, FALSE) \/ reply' = Reply("mkdir", p, FALSE))
  \/ SeesMade(p, File) /\ Told("create", p, TRUE)
  \/ SeesMade(p, Dir) /\ Told("mkdir", p, TRUE)
  \/ SeesLost(p, File) /\ Told("unlink", p, TRUE)
  \/ SeesLost(p, Dir) /\ SeesNone(p) /\ reply' = Reply("rmdir", p, TRUE)
  \/ SeenNext = Seen /\ Seen[p] = Dir /\ ~SeesNone(p) /\ reply' = Reply("rmdir", p, FALSE)

(* Whatever a step does to directories is seen as one of these.            *)
LEMMA DoesShow ==
  ASSUME FlatInv, KindsRight, KindsRight', NEW p \in Path, Does(p)
  PROVE  Sees(p)
<1>1. CASE MadeNone(p)
  BY <1>1, SeesSame DEF MadeNone, Sees
<1>2. CASE MadeFile(p)
  <2>1. PICK d, t : LeadsTo(p, d) /\ Gains(d, Dirent(Last(p), t, File))
    BY <1>2 DEF MadeFile
  <2> DEFINE g == Dirent(Last(p), t, File)
  <2>2. Gains(d, g) /\ g.name = Last(p) /\ g.type = File /\ \A e : ~AtPath(p, e)
    BY <1>2, <2>1 DEF Dirent, MadeFile
  <2> HIDE DEF g
  <2>3. SeesMade(p, File)
    BY <2>1, <2>2, SeesMore
  <2> QED BY <1>2, <2>3 DEF MadeFile, Sees
<1>3. CASE MadeDir(p)
  <2>1. PICK t \in ifree : Gains(Root, Dirent(Last(p), t, Dir))
    BY <1>3 DEF MadeDir
  <2> DEFINE g == Dirent(Last(p), t, Dir)
  <2>2. Gains(Root, g) /\ g.name = Last(p) /\ g.type = Dir /\ g.ino \in ifree
    BY <2>1 DEF Dirent
  <2>4. LeadsTo(p, Root) /\ \A e : ~AtPath(p, e)
    BY <1>3 DEF MadeDir, LeadsTo
  <2> HIDE DEF g
  <2>3. SeesMade(p, Dir)
    BY <2>2, <2>4, SeesMore
  <2> QED BY <1>3, <2>3 DEF MadeDir, Sees
<1>4. CASE LostFile(p)
  <2>1. SeesLost(p, File)
    BY <1>4, SeesLess DEF LostFile
  <2> QED BY <1>4, <2>1 DEF LostFile, Sees
<1>5. CASE LostDir(p)
  <2>1. PICK e : AtPath(p, e) /\ e.type = Dir /\ (\A f : ~HoldsNow(e.ino, f)) /\ Loses(e)
    BY <1>5 DEF LostDir
  <2>2. SeesLost(p, Dir)
    BY <2>1, SeesLess
  <2>3. SeesNone(p)
    BY <1>5, <2>1, NothingBelow DEF LostDir, SeesNone, Seen
  <2> QED BY <1>5, <2>2, <2>3 DEF LostDir, Sees
<1>6. CASE KeptDir(p)
  <2>1. PICK e : AtPath(p, e) /\ e.type = Dir /\ \E f : HoldsNow(e.ino, f)
    BY <1>6 DEF KeptDir
  <2>2. ~SeesNone(p)
    BY <1>6, <2>1, NothingBelow DEF KeptDir, SeesNone, Seen
  <2>3. Seen[p] = Dir
    BY <2>1 DEF KindsRight, Seen
  <2>4. SeenNext = Seen
    BY <1>6, SeesSame DEF KeptDir
  <2> QED BY <1>6, <2>2, <2>3, <2>4 DEF KeptDir, Sees
<1> QED BY <1>1, <1>2, <1>3, <1>4, <1>5, <1>6 DEF Does

-----------------------------------------------------------------------------
(* A disk that was formatted has no names, and its root begins as it should. *)
LEMMA StartsFlat ==
  ASSUME Init
  PROVE  FlatInv /\ \A d, e : ~HoldsNow(d, e)
<1> DEFINE b == FirstFree(Blk)
           s == <<b>>
           none == << >>
           dots == Dots(Empty, Root, Root)
<1>1. b \in Blk /\ Root \in Ino /\ 2 \in Index
  BY BlkAssumption, InoAssumption, SizeAssumption, FirstFreeIsFree DEF Root, Index
<1>2. /\ \A j \in Index : \/ dots[j].name = NoName
                          \/ j = 1 /\ dots[j].name = Self
                          \/ j = 2 /\ dots[j].name = Up
      /\ dots[2].name = Up
  <2>1. Empty \in [Index -> Ent] /\ \A j \in Index : Empty[j].name = NoName
    BY EmptyMeans, NullIn
  <2> QED BY <2>1, DotsAre
<1>3. /\ inode = [i \in Ino |-> IF i = Root THEN Inode(Dir, s) ELSE Inode(File, none)]
      /\ data = [c \in Blk |-> IF c = b THEN dots ELSE Empty]
      /\ ifree = Ino \ {Root}
  BY DEF Init, Dir, File
<1>4. s[1] = b
  OBVIOUS
<1>5. Inode(Dir, s).type = Dir /\ Inode(Dir, s).blk = s
  BY DEF Inode
<1> DEFINE nd == Inode(Dir, s)
           nf == Inode(File, none)
<1> HIDE DEF s, b, none, dots, nd, nf
<1>6. inode[Root] = nd /\ nd.type = Dir /\ nd.blk[1] = b
  BY <1>1, <1>3, <1>4, <1>5 DEF nd
<1>7. DirsOf(inode, ifree) = {Root} /\ inode[Root].blk[1] = b
  BY <1>1, <1>3, <1>6 DEF DirsOf
<1>8. \A x \in Spot : x[1] \in Blk /\ x[2] \in Index /\ At(data, x) = IF x[1] = b THEN dots[x[2]] ELSE Empty[x[2]]
  BY <1>3 DEF At, Spot
<1>9. ASSUME NEW x \in Spot
      PROVE  \/ At(data, x).name = NoName
             \/ x[1] = b /\ x[2] \in {1, 2} /\ At(data, x).name \in {Self, Up}
  <2>1. \A j \in Index : Empty[j].name = NoName
    BY EmptyMeans, NullIn
  <2>2. CASE x[1] = b
    BY <1>2, <1>8, <2>2
  <2>3. CASE x[1] # b
    BY <1>8, <2>1, <2>3
  <2> QED BY <2>2, <2>3
<1>10. At(data, <<b, 2>>).name = Up
  <2> DEFINE x == <<b, 2>>
  <2>1. x \in Spot /\ x[1] = b /\ x[2] = 2
    BY <1>1 DEF Spot
  <2> HIDE DEF x
  <2>2. At(data, x).name = Up
    BY <1>2, <1>8, <2>1
  <2> QED BY <2>2 DEF x
<1>11. NeatNow
  BY <1>7, <1>9, <1>10 DEF NeatNow, NeatIn
<1>12. Live(data) = {}
  BY <1>9, NameFacts, UpFacts DEF Live
<1>13. \A d, e : ~HoldsNow(d, e)
  BY <1>12 DEF HoldsNow, Holds
<1> QED BY <1>11, <1>13, Starts DEF FlatInv, FlatNow, FlatIn, HoldsNow

-----------------------------------------------------------------------------
FlatAlways  == programs = "tree" => FlatInv
KindsAlways == programs = "tree" => KindsRight

(* The invariant, of programs that use one level of directories.           *)
LEMMA FlatHolds ==
  ASSUME ~Nested, ~Crowds, ~Stale, ~Strays
  PROVE  AnySpec => [](FlatAlways /\ KindsAlways)
<1>1. AnyInit => FlatAlways
  BY StartsFlat DEF AnyInit, FlatAlways
<1>2. FlatAlways /\ [AnyNext]_<<vars, programs>> => FlatAlways'
  <2> SUFFICES ASSUME FlatAlways, [AnyNext]_<<vars, programs>> PROVE FlatAlways'
    OBVIOUS
  <2>1. CASE UNCHANGED <<vars, programs>>
    BY <2>1 DEF vars, FlatAlways, FlatInv, TreeInv, TreeNow, OpenNow, NeatNow, FlatNow
  <2>2. CASE AnyNext
    <3>1. CASE programs = "tree" /\ Next /\ programs' = programs
      BY <3>1, FlatStep DEF FlatAlways
    <3>2. CASE programs # "tree" /\ programs' = programs
      BY <3>2 DEF FlatAlways
    <3> QED BY <2>2, <3>1, <3>2 DEF AnyNext
  <2> QED BY <2>1, <2>2
<1>3. FlatAlways => KindsAlways
  BY LookUp DEF FlatAlways, KindsAlways
<1> QED BY <1>1, <1>2, <1>3, PTL DEF AnySpec

-----------------------------------------------------------------------------
(* What the tree of the specification is, for programs that use it.         *)
Shown == programs = "tree" /\ programs' = programs

(* What the specification of the tree speaks of is what is seen.           *)
LEMMA KindIs ==
  ASSUME Shown
  PROVE  /\ [q \in Path |-> IF programs = "tree" THEN KindAt(q) ELSE "none"] = Seen
         /\ [q \in Path |-> IF programs = "tree" THEN KindAt(q) ELSE "none"]' = SeenNext
         /\ (IF programs = "tree" THEN reply ELSE Reply("none", << >>, TRUE))' = reply'
BY DEF Shown, Seen, SeenNext, KindNext

(* A change at one path is one of the tree.                                *)
LEMMA BecomesIs ==
  ASSUME Shown, NEW p, NEW k, SeenNext = [Seen EXCEPT ![p] = k]
  PROVE  Tree!Becomes(p, k)
BY KindIs DEF Tree!Becomes

(* A refusal that changes nothing is one of the tree.                      *)
LEMMA RefuseIs ==
  ASSUME Shown, NEW p, NEW c, SeenNext = Seen, reply' = Reply(c, p, FALSE)
  PROVE  Tree!Refuse(c, p)
BY KindIs DEF Tree!Refuse, Tree!Reply, Reply

(* What is told of a call, or its loss, is so in the tree.                 *)
LEMMA ToldIs ==
  ASSUME Shown, NEW c, NEW p, NEW ok, Told(c, p, ok)
  PROVE  Tree!Tells(c, p, ok)
<1>1. Tree!Reply(c, p, ok) = Reply(c, p, ok) /\ Tree!Lost(c, p) = Lost(c, p)
  BY Zenon DEF Tree!Reply, Tree!Lost, Reply, Lost
<1> QED BY <1>1, KindIs DEF Tree!Tells, Told

(* What is made could be made in the tree.                                 *)
LEMMA MakesIs ==
  ASSUME Shown, NEW p \in Path, NEW k, SeesMade(p, k)
  PROVE  Tree!CanMake(p) /\ Tree!Becomes(p, k)
BY KindIs DEF SeesMade, Tree!CanMake, Tree!Becomes, None, Dir

(* A step that is seen is a step of the tree.                               *)
LEMMA ShownSteps ==
  ASSUME Shown, NEW p \in Path, Sees(p)
  PROVE  Tree!Next
<1>1. CASE SeenNext = Seen /\ (Told("create", p, FALSE) \/ reply' = Reply("mkdir", p, FALSE))
  <2>1. Tree!Tells("create", p, FALSE) \/ Tree!Refuse("mkdir", p)
    BY <1>1, RefuseIs, ToldIs
  <2> QED BY <1>1, <2>1, KindIs DEF Tree!Next, Tree!Create, Tree!Mkdir
<1>2. CASE SeesMade(p, File) /\ Told("create", p, TRUE)
  <2>1. Tree!CanMake(p) /\ Tree!Becomes(p, "file")
    BY <1>2, MakesIs DEF File
  <2>2. Tree!Create(p)
    BY <1>2, <2>1, ToldIs DEF Tree!Create
  <2> QED BY <2>2 DEF Tree!Next
<1>3. CASE SeesMade(p, Dir) /\ Told("mkdir", p, TRUE)
  <2>1. Tree!CanMake(p) /\ Tree!Becomes(p, "dir")
    BY <1>3, MakesIs DEF Dir
  <2>2. Tree!Mkdir(p)
    BY <1>3, <2>1, ToldIs DEF Tree!Mkdir
  <2> QED BY <2>2 DEF Tree!Next
<1>4. CASE SeesLost(p, File) /\ Told("unlink", p, TRUE)
  <2>1. Tree!Becomes(p, "none")
    BY <1>4, BecomesIs DEF SeesLost, None
  <2>2. Tree!Unlink(p)
    BY <1>4, <2>1, ToldIs, KindIs DEF Tree!Unlink, SeesLost, File
  <2> QED BY <2>2 DEF Tree!Next
<1>5. CASE SeesLost(p, Dir) /\ SeesNone(p) /\ reply' = Reply("rmdir", p, TRUE)
  <2>1. Tree!Becomes(p, "none") /\ Tree!HasNone(p)
    BY <1>5, BecomesIs, KindIs DEF SeesLost, SeesNone, Tree!HasNone, None
  <2>2. Tree!Rmdir(p)
    BY <1>5, <2>1, KindIs DEF Tree!Rmdir, Tree!Reply, Reply, SeesLost, Dir
  <2> QED BY <2>2 DEF Tree!Next
<1>6. CASE SeenNext = Seen /\ Seen[p] = Dir /\ ~SeesNone(p) /\ reply' = Reply("rmdir", p, FALSE)
  <2>1. Tree!Refuse("rmdir", p) /\ ~Tree!HasNone(p)
    BY <1>6, RefuseIs, KindIs DEF SeesNone, Tree!HasNone, None
  <2>2. Tree!Rmdir(p)
    BY <1>6, <2>1, KindIs DEF Tree!Rmdir, Dir
  <2> QED BY <2>2 DEF Tree!Next
<1> QED BY <1>1, <1>2, <1>3, <1>4, <1>5, <1>6 DEF Sees

(* A step that is not seen is a stutter of the tree, or its Other.         *)
LEMMA ShownNothing ==
  ASSUME Shown, KindsRight, KindsRight', Idle
  PROVE  [Tree!Next]_(Tree!vars)
<1>1. SeenNext = Seen
  BY SeesSame DEF Idle
<1>2. CASE reply' = reply
  BY <1>1, <1>2, KindIs DEF Tree!vars, Shown
<1>3. CASE \E ok \in BOOLEAN : Told("other", << >>, ok)
  BY <1>1, <1>3, ToldIs, KindIs DEF Tree!Next, Tree!Other
<1> QED BY <1>2, <1>3 DEF Idle

(* What net/ shows of its names is a tree of files and directories: a call  *)
(* is done in full or changes nothing, rmdir fails only for a directory     *)
(* that has something in it, and the answer is right or, if the monitor's   *)
(* queue was missing or refused a report, lost; it is never lost by rmdir   *)
(* nor by a mkdir that fails.  Programs do not write to a file whose create *)
(* lost its answer, and with it the number of the inode (~Strays).          *)
THEOREM NamesAreATree ==
  ASSUME ~Nested, ~Crowds, ~Stale, ~Strays
  PROVE  AnySpec => TreeImplementsFileTree
<1>1. AnyInit => Tree!Init
  <2> SUFFICES ASSUME AnyInit PROVE Tree!Init
    OBVIOUS
  <2>1. CASE programs # "tree"
    BY <2>1 DEF Tree!Init, Tree!Reply, Reply
  <2>2. CASE programs = "tree"
    <3>1. Init
      BY <2>2 DEF AnyInit
    <3>2. KindsRight /\ \A d, e : ~HoldsNow(d, e)
      BY <3>1, StartsFlat, LookUp
    <3>3. \A p \in Path : KindAt(p) = "none"
      BY <3>2 DEF KindsRight, AtPath, None
    <3>4. reply = Reply("none", << >>, TRUE)
      BY <3>1 DEF Init
    <3> QED BY <2>2, <3>3, <3>4 DEF Tree!Init, Tree!Reply, Reply
  <2> QED BY <2>1, <2>2
<1>2. FlatAlways /\ KindsAlways /\ KindsAlways' /\ [AnyNext]_<<vars, programs>>
      => [Tree!Next]_(Tree!vars)
  <2> SUFFICES ASSUME FlatAlways, KindsAlways, KindsAlways', [AnyNext]_<<vars, programs>>
               PROVE  [Tree!Next]_(Tree!vars)
    OBVIOUS
  <2>1. CASE programs = "tree" /\ Next /\ programs' = programs
    <3>1. Shown /\ FlatInv /\ KindsRight /\ KindsRight'
      BY <2>1 DEF Shown, FlatAlways, KindsAlways
    <3>2. CASE Idle
      BY <3>1, <3>2, ShownNothing
    <3>3. CASE \E p \in Path : Does(p)
      BY <3>1, <3>3, DoesShow, ShownSteps
    <3> QED BY <2>1, <3>1, <3>2, <3>3, FlatStep
  <2>2. CASE programs # "tree" /\ programs' = programs
    BY <2>2 DEF Tree!vars
  <2>3. CASE UNCHANGED <<vars, programs>>
    <3>1. CASE programs = "tree"
      <4>1. Shown /\ KindsRight /\ KindsRight' /\ reply' = reply
        BY <2>3, <3>1 DEF vars, Shown, KindsAlways
      <4>2. Same
        BY <2>3 DEF vars, Same, HoldsNow, HoldsNext
      <4> QED BY <4>1, <4>2, ShownNothing DEF Idle
    <3> QED BY <2>2, <2>3, <3>1
  <2> QED BY <2>1, <2>2, <2>3 DEF AnyNext
<1> QED BY <1>1, <1>2, FlatHolds, PTL DEF AnySpec, TreeImplementsFileTree, Tree!Spec

-----------------------------------------------------------------------------
(* A directory has every name in one place.                                 *)
LEMMA NameOnce ==
  ASSUME TreeNow, NEW d \in DirsOf(inode, ifree), NEW j \in Places(d), NEW k \in Places(d),
         EntryAt(d, j).name = EntryAt(d, k).name, EntryAt(d, j).name \in Name
  PROVE  j = k
<1>1. /\ Typed(inode, data, ifree, bfree) /\ OnePlace(inode, ifree) /\ Distinct(inode, data, ifree)
      /\ d \in Ino \ ifree
  BY DEF TreeNow, TreeOK, NamesOK, Owned, DirsOf
<1> DEFINE x == SpotOf(d, j)
           y == SpotOf(d, k)
<1>2. /\ x \in Spot /\ x[1] \in BlocksOf(inode, d) /\ EntryAt(d, j) = At(data, x)
      /\ y \in Spot /\ y[1] \in BlocksOf(inode, d) /\ EntryAt(d, k) = At(data, y)
  BY <1>1, SpotIn
<1> HIDE DEF x, y
<1>3. x = y
  BY <1>1, <1>2 DEF Distinct, Live
<1> QED BY <1>1, <1>3, SpotOnce DEF x, y

(* "." and ".." as well, where every directory begins with both.            *)
LEMMA DotsOnce ==
  ASSUME TreeNow, NeatNow, NEW d \in DirsOf(inode, ifree), NEW j \in Places(d), NEW k \in Places(d),
         EntryAt(d, j).name = EntryAt(d, k).name, EntryAt(d, j).name \in {Self, Up}
  PROVE  j = k
<1>1. /\ Typed(inode, data, ifree, bfree) /\ OnePlace(inode, ifree) /\ Headed(inode, data, ifree)
      /\ d \in Ino \ ifree /\ NeatIn(inode, data, ifree)
  BY DEF TreeNow, TreeOK, NamesOK, Owned, DirsOf, NeatNow
<1> DEFINE b == inode[d].blk[1]
<1>2. ASSUME NEW l \in Places(d), EntryAt(d, l).name \in {Self, Up}
      PROVE  SpotOf(d, l) = <<b, IF EntryAt(d, l).name = Self THEN 1 ELSE 2>>
  <2> DEFINE x == SpotOf(d, l)
  <2>1. /\ x \in Spot /\ x[1] \in BlocksOf(inode, d) /\ EntryAt(d, l) = At(data, x)
        /\ x = <<x[1], x[2]>>
    BY <1>1, SpotIn DEF SpotOf
  <2> HIDE DEF x
  <2>2. At(data, x).name \notin Name \cup {NoName}
    BY <1>2, <2>1, NameFacts, UpFacts
  <2>3. PICK c \in DirsOf(inode, ifree) : x[1] = inode[c].blk[1] /\ x[2] \in {1, 2}
    BY <1>1, <2>1, <2>2 DEF NeatIn
  <2>4. c = d
    <3>1. x[1] \in BlocksOf(inode, c)
      BY <2>3, HeadsStay
    <3> QED BY <1>1, <2>1, <2>3, <3>1, OneHolder
  <2>5. x = <<b, 1>> \/ x = <<b, 2>>
    BY <2>1, <2>3, <2>4
  <2>6. At(data, <<b, 1>>).name = Self /\ At(data, <<b, 2>>).name = Up
    BY <1>1 DEF Headed, HeadOf, NeatIn
  <2>7. CASE x = <<b, 1>>
    BY <2>1, <2>6, <2>7 DEF x
  <2>8. CASE x = <<b, 2>>
    BY <2>1, <2>6, <2>8, UpFacts DEF x
  <2> QED BY <2>5, <2>7, <2>8
<1>3. SpotOf(d, j) = SpotOf(d, k)
  BY <1>2
<1> QED BY <1>1, <1>3, SpotOnce

(* A name that is in a directory is found by a walk to it.                  *)
LEMMA FoundThere ==
  ASSUME TreeNow, NEW p \in Seq(Name), Walk(p).ok, NEW k \in Places(Walk(p).dir), NEW n \in Name,
         EntryAt(Walk(p).dir, k).name = n
  PROVE  KindAt(Append(p, n)) # None
<1> DEFINE d == Walk(p).dir
           q == Append(p, n)
<1>1. TreeOK(inode, data, ifree, bfree) /\ Typed(inode, data, ifree, bfree) /\ d \in DirsOf(inode, ifree) /\ d \in Ino
  BY WalkEnds DEF TreeNow, TreeOK, DirsOf
<1>2. Front(q) = p /\ Last(q) = n
  <2> DEFINE z == Len(p)
  <2>1. z \in Nat /\ Len(q) = z + 1 /\ q[z + 1] = n /\ q \in Seq(Name) /\ \A i \in 1 .. z : q[i] = p[i]
    OBVIOUS
  <2> HIDE DEF q
  <2>2. z <= Len(q) /\ Len(q) - 1 = z
    BY <2>1
  <2> DEFINE r == SubSeq(q, 1, z)
  <2>3. Front(q) = r /\ Last(q) = n
    BY <2>1, <2>2 DEF Front, Last
  <2>4. r \in Seq(Name) /\ Len(r) = z /\ \A i \in 1 .. z : r[i] = q[i]
    BY <2>1, <2>2
  <2>5. r = p
    BY <2>1, <2>4
  <2> QED BY <2>3, <2>5
<1>3. Has(d, n)
  BY <1>1, FindMeans
<1>4. HoldsNow(d, Get(d, n))
  BY <1>1, <1>3, HasMeans DEF HoldsNow
<1>5. Get(d, n).type \in Kind
  BY <1>1, <1>4, HeldOnce DEF HoldsNow
<1>6. KindAt(q) = Get(d, n).type
  <2> HIDE DEF q, d
  <2>1. Walk(Front(q)).ok /\ Walk(Front(q)).dir = d
    BY <1>2 DEF d
  <2> QED BY <1>2, <1>3, <2>1 DEF KindAt
<1> QED BY <1>5, <1>6, UpFacts

(* A listing of a directory where names are in one place.                  *)
LEMMA ListsMean ==
  ASSUME TreeNow, NEW names,
         \A d \in DirsOf(inode, ifree) : \A j, k \in Places(d) :
           EntryAt(d, j).name = EntryAt(d, k).name /\ EntryAt(d, j).name \in names => j = k
  PROVE  ListsOnce(names)
<1> SUFFICES ASSUME NEW p \in {<< >>} \cup {q \in Path : Len(q) < MaxDepth}
             PROVE  /\ \A j, k \in Listed(p) :
                         /\ EntryAt(Walk(p).dir, j).name = EntryAt(Walk(p).dir, k).name
                         /\ EntryAt(Walk(p).dir, j).name \in names
                         => j = k
                    /\ \A k \in Listed(p) :
                         \/ EntryAt(Walk(p).dir, k).name \in {".", ".."}
                         \/ KindAt(Append(p, EntryAt(Walk(p).dir, k).name)) # "none"
  BY DEF ListsOnce
<1>1. p \in Seq(Name) /\ TreeOK(inode, data, ifree, bfree)
  <2>1. << >> \in Seq(Name)
    OBVIOUS
  <2>2. p \in Path => p \in Seq(Name)
    BY PathMeans
  <2>3. p = << >> \/ p \in Path
    OBVIOUS
  <2>4. p \in Seq(Name)
    BY <2>1, <2>2, <2>3
  <2> QED BY <2>4 DEF TreeNow
<1> DEFINE d == Walk(p).dir
<1>2. /\ Walk(p).ok => Listed(p) = {k \in Places(d) : EntryAt(d, k).name # NoName}
      /\ ~Walk(p).ok => Listed(p) = {}
  BY DEF Listed, Entries, Places, NoName
<1>3. CASE Walk(p).ok
  <2>1. d \in DirsOf(inode, ifree) /\ d \in Ino /\ Typed(inode, data, ifree, bfree)
    BY <1>1, <1>3, WalkEnds DEF DirsOf, TreeOK
  <2>2. ASSUME NEW k \in Places(d), EntryAt(d, k).name # NoName
        PROVE  EntryAt(d, k).name \in {".", ".."} \/ KindAt(Append(p, EntryAt(d, k).name)) # None
    <3> DEFINE n == EntryAt(d, k).name
    <3>1. EntryAt(d, k) \in Ent
      BY <2>1, SpotIn, TypedFacts
    <3>2. n \in Name \cup {NoName, ".", ".."}
      BY <3>1 DEF Ent, NoName
    <3>3. CASE n \in Name
      BY <1>1, <1>3, <3>3, FoundThere
    <3> QED BY <2>2, <3>2, <3>3
  <2> HIDE DEF d
  <2>3. \A j, k \in Listed(p) : EntryAt(d, j).name = EntryAt(d, k).name /\ EntryAt(d, j).name \in names => j = k
    BY <1>2, <1>3, <2>1
  <2>4. \A k \in Listed(p) : EntryAt(d, k).name \in {".", ".."} \/ KindAt(Append(p, EntryAt(d, k).name)) # None
    BY <1>2, <1>3, <2>2
  <2> QED BY <2>3, <2>4 DEF d, None
<1> QED BY <1>2, <1>3

(* A directory lists no name twice, and nothing that cannot be looked up; in *)
(* net/ that is true of "." and ".." as well.  This is of what the blocks    *)
(* hold: a readdir or a getattr whose own report is refused answers neither. *)
THEOREM ListingsAreRight ==
  ASSUME ~Nested, ~Crowds, ~Stale, ~Strays, ~Careless
  PROVE  AnySpec => []EachListedOnce
<1>1. ASSUME TreeNow PROVE EarlierListedOnce
  BY <1>1, NameOnce, ListsMean DEF EarlierListedOnce
<1>2. ASSUME TreeNow, NeatNow PROVE ListedOnce
  <2>1. \A d \in DirsOf(inode, ifree) : \A j, k \in Places(d) :
          EntryAt(d, j).name = EntryAt(d, k).name /\ EntryAt(d, j).name \in Name \cup {".", ".."} => j = k
    BY <1>2, NameOnce, DotsOnce DEF Self, Up
  <2> QED BY <1>2, <2>1, ListsMean DEF ListedOnce
<1>3. FlatAlways /\ TreeAlways => EachListedOnce
  BY <1>1, <1>2 DEF FlatAlways, TreeAlways, TreeInv, FlatInv, EachListedOnce
<1> QED BY <1>3, FlatHolds, TreeHolds, PTL

-----------------------------------------------------------------------------
(* The inodes t that path p leads through, down from the root, whatever its *)
(* length.                                                                  *)
Chain(in, dat, fr, p, t) ==
  /\ t[0] = Root
  /\ \A k \in 1 .. Len(p) :
       \E f : Holds(in, dat, fr, t[k - 1], f) /\ f.name = p[k] /\ f.ino = t[k]

(* What is found at a path, at any depth, is what the chain ends in.         *)
FoundAt(p, t) ==
  Chain(inode, data, ifree, p, t) => Resolves(p) /\ Target(p).ino = t[Len(p)]

ChainsRight ==
  \A p \in Path : /\ \A t : FoundAt(p, t)
                  /\ Resolves(p) => \E t : Chain(inode, data, ifree, p, t)

(* An inode has one path: what holds it, and under what name, is decided at *)
(* every step up to the root.                                               *)
LEMMA OneChain ==
  ASSUME NEW in, NEW dat, NEW fr, NEW bf, TreeOK(in, dat, fr, bf),
         NEW p, NEW t, Chain(in, dat, fr, p, t), NEW q, NEW s, Chain(in, dat, fr, q, s),
         Len(p) \in Nat, Len(q) \in Nat, NEW i \in 1 .. Len(p), NEW j \in 1 .. Len(q), t[i] = s[j]
  PROVE  i = j /\ \A k \in 1 .. i : p[k] = q[k]
<1>1. ASSUME NEW a \in 1 .. Len(p), NEW b \in 1 .. Len(q), t[a] = s[b]
      PROVE  t[a - 1] = s[b - 1] /\ p[a] = q[b]
  <2>1. PICK f : Holds(in, dat, fr, t[a - 1], f) /\ f.name = p[a] /\ f.ino = t[a]
    BY DEF Chain
  <2>2. PICK g : Holds(in, dat, fr, s[b - 1], g) /\ g.name = q[b] /\ g.ino = s[b]
    BY DEF Chain
  <2> QED BY <1>1, <2>1, <2>2, HeldOnce
<1>2. /\ t[0] = Root /\ s[0] = Root
      /\ \A a \in 1 .. Len(p) : t[a] # Root
      /\ \A b \in 1 .. Len(q) : s[b] # Root
  <2>1. \A d, e : Holds(in, dat, fr, d, e) => e.ino # Root
    BY HeldOnce
  <2> QED BY <2>1 DEF Chain
<1> DEFINE least == IF i <= j THEN i ELSE j
           T == {x \in 0 .. least : /\ t[i - x] = s[j - x]
                                    /\ \A y \in 0 .. x - 1 : p[i - y] = q[j - y]}
<1>3. least \in Nat /\ least <= i /\ least <= j /\ (least = i \/ least = j)
  OBVIOUS
<1> HIDE DEF least
<1>4. 0 \in T
  BY <1>3
<1>5. ASSUME NEW x \in 0 .. least - 1, x \in T PROVE x + 1 \in T
  <2>1. i - x \in 1 .. Len(p) /\ j - x \in 1 .. Len(q) /\ t[i - x] = s[j - x]
    BY <1>3, <1>5
  <2>2. t[i - x - 1] = s[j - x - 1] /\ p[i - x] = q[j - x]
    BY <1>1, <2>1
  <2>3. i - x - 1 = i - (x + 1) /\ j - x - 1 = j - (x + 1) /\ x + 1 \in 0 .. least
    BY <1>3
  <2>4. \A y \in 0 .. x + 1 - 1 : y = x \/ y \in 0 .. x - 1
    OBVIOUS
  <2>5. \A y \in 0 .. x - 1 : p[i - y] = q[j - y]
    BY <1>5
  <2> QED BY <2>2, <2>3, <2>4, <2>5
<1>6. least \in T
  <2> HIDE DEF T
  <2>1. \A x \in 0 .. least - 1 : x \in T => x + 1 \in T
    BY <1>5
  <2>2. \A x \in 0 .. least : x \in T
    BY <1>3, <1>4, <2>1, Climb
  <2> QED BY <1>3, <2>2
<1>7. t[i - least] = s[j - least] /\ \A y \in 0 .. least - 1 : p[i - y] = q[j - y]
  BY <1>6
<1>8. i = j /\ least = i
  <2>1. CASE i < j
    <3>1. least = i /\ i - least = 0 /\ j - least \in 1 .. Len(q)
      BY <1>3, <2>1
    <3> QED BY <1>2, <1>7, <3>1
  <2>2. CASE j < i
    <3>1. least = j /\ j - least = 0 /\ i - least \in 1 .. Len(p)
      BY <1>3, <2>2
    <3> QED BY <1>2, <1>7, <3>1
  <2> QED BY <1>3, <2>1, <2>2
<1>9. ASSUME NEW k \in 1 .. i PROVE p[k] = q[k]
  <2>1. i - k \in 0 .. least - 1 /\ i - (i - k) = k /\ j - (i - k) = k
    BY <1>8
  <2> QED BY <1>7, <2>1
<1> QED BY <1>8, <1>9

(* Names decide a chain, as far as two paths have the same.                 *)
LEMMA SameChain ==
  ASSUME NEW in, NEW dat, NEW fr, NEW bf, TreeOK(in, dat, fr, bf),
         NEW p, NEW t, Chain(in, dat, fr, p, t), NEW q, NEW s, Chain(in, dat, fr, q, s),
         Len(p) \in Nat, Len(q) \in Nat, NEW z \in Nat, z <= Len(p), z <= Len(q),
         \A k \in 1 .. z : p[k] = q[k]
  PROVE  t[z] = s[z]
<1> DEFINE T == {k \in 0 .. z : t[k] = s[k]}
<1>1. 0 \in T
  BY DEF Chain
<1>2. ASSUME NEW k \in 0 .. z - 1, k \in T PROVE k + 1 \in T
  <2>1. k + 1 \in 1 .. Len(p) /\ k + 1 \in 1 .. Len(q) /\ k + 1 - 1 = k /\ p[k + 1] = q[k + 1]
        /\ t[k] = s[k]
    BY <1>2
  <2>2. PICK f : Holds(in, dat, fr, t[k], f) /\ f.name = p[k + 1] /\ f.ino = t[k + 1]
    BY <2>1 DEF Chain
  <2>3. PICK g : Holds(in, dat, fr, s[k], g) /\ g.name = q[k + 1] /\ g.ino = s[k + 1]
    BY <2>1 DEF Chain
  <2>4. f = g
    BY <2>1, <2>2, <2>3, HeldOnce
  <2>5. t[k + 1] = s[k + 1]
    BY <2>2, <2>3, <2>4
  <2> QED BY <2>1, <2>5
<1>3. z \in T
  <2> HIDE DEF T
  <2>1. \A k \in 0 .. z - 1 : k \in T => k + 1 \in T
    BY <1>2
  <2>2. \A k \in 0 .. z : k \in T
    BY <1>1, <2>1, Climb
  <2> QED BY <2>2
<1> QED BY <1>3

(* The front of a path, as a sequence of its own.                           *)
LEMMA FrontMeans ==
  ASSUME NEW p \in Path
  PROVE  /\ Front(p) \in Seq(Name) /\ Len(Front(p)) \in Nat /\ Len(Front(p)) = Len(p) - 1
         /\ \A k \in 1 .. Len(p) - 1 : Front(p)[k] = p[k]
         /\ Len(p) \in Nat \ {0} /\ p \in Seq(Name) /\ \A k \in 1 .. Len(p) : p[k] \in Name
         /\ Last(p) = p[Len(p)]
<1>1. Front(p) \in Seq(Name) /\ Len(p) \in Nat \ {0} /\ p \in Seq(Name)
  BY PathMeans
<1> DEFINE z == Len(p) - 1
<1>2. z \in Nat /\ z <= Len(p)
  BY <1>1
<1> HIDE DEF z
<1>3. Len(SubSeq(p, 1, z)) = z /\ \A k \in 1 .. z : SubSeq(p, 1, z)[k] = p[k]
  BY <1>1, <1>2
<1>4. Front(p) = SubSeq(p, 1, z)
  BY DEF Front, z
<1> QED BY <1>1, <1>2, <1>3, <1>4 DEF z, Last

(* The walk down a path goes through the inodes of its chain.               *)
LEMMA WalkHasChain ==
  ASSUME TreeNow, NEW p \in Path, Walk(Front(p)).ok
  PROVE  \E t : Chain(inode, data, ifree, Front(p), t) /\ t[Len(p) - 1] = DirOf(p)
<1> DEFINE q == Front(p)
           D == DirsOf(inode, ifree)
<1>1. Root \in D /\ TreeOK(inode, data, ifree, bfree)
  BY DEF TreeNow, TreeOK, Rooted
<1>2. q \in Seq(Name) /\ Len(q) \in Nat /\ Len(q) = Len(p) - 1 /\ \A k \in 1 .. Len(q) : q[k] \in Name
  BY FrontMeans
<1> HIDE DEF q
<1>3. PICK w : WalksTo(w, q, Len(q)) /\ Walk(q) = w[Len(q)]
  BY <1>2, WalkIs
<1>4. \A k \in 0 .. Len(q) : w[k] = IF k = 0 THEN WalkFrom ELSE Step(w[k - 1], q[k])
  BY <1>3 DEF WalksTo
<1> DEFINE Steps(k) == \E f : /\ Holds(inode, data, ifree, w[k - 1].dir, f)
                              /\ f.name = q[k] /\ f.ino = w[k].dir
           T == {k \in 0 .. Len(q) : w[k].ok => w[k].dir \in D /\ \A m \in 1 .. k : Steps(m)}
<1>5. 0 \in T
  <2>1. 0 \in 0 .. Len(q) /\ w[0].dir = Root
    BY <1>2, <1>4 DEF WalkFrom
  <2> QED BY <1>1, <2>1
<1>6. ASSUME NEW k \in 0 .. Len(q) - 1, k \in T PROVE k + 1 \in T
  <2>1. k + 1 \in 1 .. Len(q) /\ k + 1 \in 0 .. Len(q) /\ w[k + 1] = Step(w[k], q[k + 1])
        /\ q[k + 1] \in Name /\ k + 1 - 1 = k
    BY <1>2, <1>4
  <2> SUFFICES ASSUME w[k + 1].ok
               PROVE  w[k + 1].dir \in D /\ \A m \in 1 .. k + 1 : Steps(m)
    BY <2>1
  <2>2. /\ w[k].ok /\ w[k].dir \in D /\ w[k + 1].dir \in D
        /\ Has(w[k].dir, q[k + 1]) /\ w[k + 1].dir = Get(w[k].dir, q[k + 1]).ino
    BY <1>1, <1>6, <2>1, StepStays
  <2>3. Steps(k + 1)
    <3> DEFINE f == Get(w[k].dir, q[k + 1])
    <3>1. Holds(inode, data, ifree, w[k].dir, f) /\ f.name = q[k + 1] /\ f.ino = w[k + 1].dir
      BY <2>1, <2>2, HasMeans
    <3> HIDE DEF f
    <3> QED BY <2>1, <3>1
  <2>4. \A m \in 1 .. k : Steps(m)
    BY <1>6, <2>2
  <2>5. \A m \in 1 .. k + 1 : m = k + 1 \/ m \in 1 .. k
    OBVIOUS
  <2> HIDE DEF Steps
  <2> QED BY <2>2, <2>3, <2>4, <2>5
<1>7. Len(q) \in T
  <2> HIDE DEF T
  <2>1. \A k \in 0 .. Len(q) - 1 : k \in T => k + 1 \in T
    BY <1>6
  <2>2. \A k \in 0 .. Len(q) : k \in T
    BY <1>2, <1>5, <2>1, Climb
  <2> QED BY <1>2, <2>2
<1>8. w[Len(q)].ok /\ w[Len(q)].dir = DirOf(p)
  BY <1>3 DEF DirOf, q
<1>9. \A m \in 1 .. Len(q) : Steps(m)
  BY <1>7, <1>8
<1> DEFINE t == [k \in 0 .. Len(q) |-> w[k].dir]
<1>10. t[0] = Root /\ t[Len(q)] = DirOf(p)
  BY <1>2, <1>4, <1>8 DEF WalkFrom
<1>11. \A m \in 1 .. Len(q) : t[m - 1] = w[m - 1].dir /\ t[m] = w[m].dir
  BY <1>2
<1> HIDE DEF t
<1>12. Chain(inode, data, ifree, q, t)
  BY <1>9, <1>10, <1>11 DEF Chain
<1> QED BY <1>2, <1>10, <1>12 DEF q

(* And a chain is walked.                                                   *)
LEMMA ChainIsWalked ==
  ASSUME TreeNow, NEW p \in Path, NEW t, Chain(inode, data, ifree, p, t)
  PROVE  Walk(Front(p)).ok /\ DirOf(p) = t[Len(p) - 1]
<1> DEFINE q == Front(p)
           D == DirsOf(inode, ifree)
<1>1. TreeOK(inode, data, ifree, bfree)
  BY DEF TreeNow
<1>2. /\ Len(q) \in Nat /\ Len(q) = Len(p) - 1 /\ Len(p) \in Nat /\ Len(p) = Len(q) + 1
      /\ \A k \in 1 .. Len(q) : q[k] \in Name /\ q[k] = p[k]
  BY FrontMeans
<1> HIDE DEF q
<1>3. PICK w : WalksTo(w, q, Len(q)) /\ Walk(q) = w[Len(q)]
  BY <1>2, WalkIs
<1>4. \A k \in 0 .. Len(q) : w[k] = IF k = 0 THEN WalkFrom ELSE Step(w[k - 1], q[k])
  BY <1>3 DEF WalksTo
<1>5. \A k \in 0 .. Len(q) : t[k] \in D
  <2> SUFFICES ASSUME NEW k \in 0 .. Len(q) PROVE t[k] \in D
    OBVIOUS
  <2>1. k + 1 \in 1 .. Len(p) /\ k + 1 - 1 = k
    BY <1>2
  <2>2. \E f : Holds(inode, data, ifree, t[k], f)
    BY <2>1 DEF Chain
  <2> QED BY <2>2 DEF Holds
<1> DEFINE T == {k \in 0 .. Len(q) : w[k].ok /\ w[k].dir = t[k]}
<1>6. 0 \in T
  <2>1. 0 \in 0 .. Len(q) /\ w[0] = WalkFrom /\ t[0] = Root
    BY <1>2, <1>4 DEF Chain
  <2>2. WalkFrom.ok /\ WalkFrom.dir = Root
    BY DEF WalkFrom
  <2> QED BY <2>1, <2>2
<1>7. ASSUME NEW k \in 0 .. Len(q) - 1, k \in T PROVE k + 1 \in T
  <2>1. k + 1 \in 1 .. Len(q) /\ k + 1 \in 0 .. Len(q) /\ w[k + 1] = Step(w[k], q[k + 1])
        /\ q[k + 1] \in Name /\ k + 1 - 1 = k /\ k + 1 \in 1 .. Len(p) /\ k \in 0 .. Len(q)
        /\ q[k + 1] = p[k + 1] /\ w[k].ok /\ w[k].dir = t[k]
    BY <1>2, <1>4, <1>7
  <2> DEFINE d == t[k]
             n == p[k + 1]
  <2>2. d \in D /\ t[k + 1] \in D /\ n \in Name
    BY <1>5, <2>1
  <2>3. PICK f : Holds(inode, data, ifree, d, f) /\ f.name = n /\ f.ino = t[k + 1]
    BY <2>1 DEF Chain
  <2>4. Has(d, n) /\ Holds(inode, data, ifree, d, Get(d, n)) /\ Get(d, n).name = n
    BY <2>2, <2>3, HasMeans
  <2>5. Get(d, n) = f
    BY <1>1, <2>3, <2>4, HeldOnce
  <2>6. Get(d, n).type # File
    BY <1>1, <2>2, <2>3, <2>5, HeldOnce, KindFacts DEF DirsOf
  <2>7. Step(w[k], n) = [ok |-> TRUE, dir |-> Get(d, n).ino, up |-> d]
    BY <2>1, <2>4, <2>6 DEF Step, File
  <2>8. w[k + 1].ok /\ w[k + 1].dir = t[k + 1]
    BY <2>1, <2>3, <2>5, <2>7
  <2> QED BY <2>1, <2>8
<1>8. Len(q) \in T
  <2> HIDE DEF T
  <2>1. \A k \in 0 .. Len(q) - 1 : k \in T => k + 1 \in T
    BY <1>7
  <2>2. \A k \in 0 .. Len(q) : k \in T
    BY <1>2, <1>6, <2>1, Climb
  <2> QED BY <1>2, <2>2
<1>9. w[Len(q)].ok /\ w[Len(q)].dir = t[Len(q)]
  BY <1>8
<1> QED BY <1>2, <1>3, <1>9 DEF DirOf, q

(* A chain, one step longer.                                                *)
LEMMA LongerChain ==
  ASSUME NEW in, NEW dat, NEW fr, NEW p \in Path, NEW t, Chain(in, dat, fr, Front(p), t),
         NEW e, Holds(in, dat, fr, t[Len(p) - 1], e), e.name = Last(p)
  PROVE  \E s : Chain(in, dat, fr, p, s) /\ s[Len(p)] = e.ino
<1> DEFINE z == Len(p)
           s == [k \in 0 .. z |-> IF k = z THEN e.ino ELSE t[k]]
<1>1. /\ z \in Nat \ {0} /\ Len(Front(p)) = z - 1 /\ \A k \in 1 .. z - 1 : Front(p)[k] = p[k]
      /\ p[z] = Last(p)
  BY FrontMeans
<1> HIDE DEF z
<1>2. s[z] = e.ino /\ \A k \in 0 .. z - 1 : s[k] = t[k]
  BY <1>1
<1> HIDE DEF s
<1>3. ASSUME NEW k \in 1 .. z
      PROVE  \E f : Holds(in, dat, fr, s[k - 1], f) /\ f.name = p[k] /\ f.ino = s[k]
  <2>1. CASE k = z
    <3>1. s[k - 1] = t[z - 1]
      BY <1>1, <1>2, <2>1
    <3> QED BY <1>1, <1>2, <2>1, <3>1 DEF z
  <2>2. CASE k # z
    <3>1. k \in 1 .. z - 1 /\ k \in 0 .. z - 1 /\ k - 1 \in 0 .. z - 1
      BY <1>1, <2>2
    <3>2. s[k] = t[k] /\ s[k - 1] = t[k - 1] /\ Front(p)[k] = p[k] /\ k \in 1 .. Len(Front(p))
      BY <1>1, <1>2, <3>1
    <3> QED BY <3>2 DEF Chain
  <2> QED BY <2>1, <2>2
<1>4. s[0] = Root
  BY <1>1, <1>2 DEF Chain
<1>5. Chain(in, dat, fr, p, s)
  BY <1>3, <1>4 DEF Chain, z
<1> QED BY <1>2, <1>5 DEF z

(* So what is found at a path is what its chain ends in.                    *)
LEMMA LooksRight ==
  ASSUME TreeNow
  PROVE  ChainsRight
<1> SUFFICES ASSUME NEW p \in Path
             PROVE  /\ \A t : FoundAt(p, t)
                    /\ Resolves(p) => \E t : Chain(inode, data, ifree, p, t)
  BY DEF ChainsRight
<1>1. TreeOK(inode, data, ifree, bfree) /\ Last(p) \in Name /\ Len(p) \in Nat \ {0}
      /\ Last(p) = p[Len(p)]
  BY FrontMeans DEF TreeNow
<1>2. ASSUME NEW t, Chain(inode, data, ifree, p, t)
      PROVE  Resolves(p) /\ Target(p).ino = t[Len(p)]
  <2> DEFINE d == DirOf(p)
             n == Last(p)
  <2>1. Walk(Front(p)).ok /\ d = t[Len(p) - 1]
    BY <1>2, ChainIsWalked
  <2>2. PICK f : Holds(inode, data, ifree, d, f) /\ f.name = n /\ f.ino = t[Len(p)]
    <3>1. Len(p) \in 1 .. Len(p)
      BY <1>1
    <3> QED BY <1>1, <1>2, <2>1, <3>1 DEF Chain
  <2>3. d \in DirsOf(inode, ifree)
    BY <2>2 DEF Holds
  <2>4. Has(d, n) /\ Holds(inode, data, ifree, d, Get(d, n)) /\ Get(d, n).name = n
    BY <1>1, <2>2, <2>3, HasMeans
  <2>5. Get(d, n) = f
    BY <1>1, <2>2, <2>4, HeldOnce
  <2> QED BY <2>1, <2>2, <2>4, <2>5 DEF Resolves, Target
<1>3. ASSUME Resolves(p) PROVE \E t : Chain(inode, data, ifree, p, t)
  <2>1. Walk(Front(p)).ok /\ Has(DirOf(p), Last(p))
    BY <1>3 DEF Resolves
  <2>2. PICK t : Chain(inode, data, ifree, Front(p), t) /\ t[Len(p) - 1] = DirOf(p)
    BY <2>1, WalkHasChain
  <2>3. DirOf(p) \in DirsOf(inode, ifree)
    BY <2>1, PathMeans, WalkEnds DEF DirOf, TreeNow
  <2>4. Holds(inode, data, ifree, DirOf(p), Get(DirOf(p), Last(p))) /\ Get(DirOf(p), Last(p)).name = Last(p)
    BY <1>1, <2>1, <2>3, HasMeans
  <2> QED BY <2>2, <2>4, LongerChain
<1> QED BY <1>2, <1>3 DEF FoundAt

-----------------------------------------------------------------------------
ResolvesNext(p) == Resolves(p)'
TargetNext(p)   == Target(p)'

ChainNow(p, t)  == Chain(inode, data, ifree, p, t)
ChainNext(p, t) == Chain(inode', data', ifree', p, t)

(* The same of the step after.                                              *)
LEMMA LooksRightNext ==
  ASSUME ChainsRight', NEW p \in Path
  PROVE  /\ \A t : ChainNext(p, t) => ResolvesNext(p) /\ TargetNext(p).ino = t[Len(p)]
         /\ ResolvesNext(p) => \E t : ChainNext(p, t)
BY DEF ChainsRight, FoundAt, ChainNext, ResolvesNext, TargetNext

(* The entries that name inodes of G are gone, and directory g has e.       *)
Moved(G, e, g) ==
  \A c, f : HoldsNext(c, f) <=> (HoldsNow(c, f) /\ f.ino \notin G) \/ (c = g /\ f = e)

(* That is what a rename does to what directories hold.                     *)
LEMMA HoldsMoved ==
  ASSUME TreeNow, TreeNext, NEW G, NEW e, NEW g, Moves(G, e, g), e.ino \in G
  PROVE  Moved(G, e, g)
<1>1. /\ TreeOK(inode, data, ifree, bfree) /\ OnePlace(inode, ifree)
      /\ Housed(inode', data', ifree')
  BY DEF TreeNow, TreeNext, TreeOK, NamesOK, Owned
<1>2. ASSUME NEW w \in Live(data), NEW c \in DirsOf(inode', ifree'), w[1] \in BlocksOf(inode', c)
      PROVE  c \in DirsOf(inode, ifree) /\ w[1] \in BlocksOf(inode, c)
  <2>1. w[1] \notin bfree
    BY <1>1, FreeDead
  <2> QED BY <1>2, <2>1 DEF Moves
<1>3. ASSUME NEW c, NEW f, HoldsNext(c, f)
      PROVE  (HoldsNow(c, f) /\ f.ino \notin G) \/ (c = g /\ f = e)
  <2>1. PICK w \in Live(data') : w[1] \in BlocksOf(inode', c) /\ At(data', w) = f
    BY <1>3 DEF HoldsNext, Holds
  <2>2. c \in DirsOf(inode', ifree')
    BY <1>3 DEF HoldsNext, Holds
  <2>3. CASE w \in Live(data) /\ At(data', w) = At(data, w) /\ At(data, w).ino \notin G
    BY <1>2, <2>1, <2>2, <2>3 DEF HoldsNow, Holds
  <2>4. CASE At(data', w) = e /\ \A b \in DirsOf(inode', ifree') : w[1] \in BlocksOf(inode', b) => b = g
    BY <2>1, <2>2, <2>4
  <2> QED BY <2>3, <2>4 DEF Moves
<1>4. ASSUME NEW c, NEW f, HoldsNow(c, f), f.ino \notin G PROVE HoldsNext(c, f)
  <2>1. PICK w \in Live(data) : w[1] \in BlocksOf(inode, c) /\ At(data, w) = f
    BY <1>4 DEF HoldsNow, Holds
  <2>2. c \in DirsOf(inode, ifree)
    BY <1>4 DEF HoldsNow, Holds
  <2>3. w \in Live(data') /\ At(data', w) = f
    BY <1>4, <2>1 DEF Moves
  <2>4. PICK b \in DirsOf(inode', ifree') : w[1] \in BlocksOf(inode', b)
    BY <1>1, <2>3 DEF Housed
  <2>5. b = c
    BY <1>1, <1>2, <2>1, <2>2, <2>4, OneHolder
  <2> QED BY <2>3, <2>4, <2>5 DEF HoldsNext, Holds
<1>5. HoldsNext(g, e)
  <2>1. PICK w \in Live(data') : At(data', w) = e
    BY DEF Moves
  <2>2. PICK b \in DirsOf(inode', ifree') : w[1] \in BlocksOf(inode', b)
    BY <1>1, <2>1 DEF Housed
  <2>3. b = g
    BY <2>1, <2>2 DEF Moves
  <2> QED BY <2>1, <2>2, <2>3 DEF HoldsNext, Holds
<1> QED BY <1>3, <1>4, <1>5 DEF Moved

(* What is not part of the path of what is moved, or replaced, has its      *)
(* chain still.                                                             *)
LEMMA ChainStays ==
  ASSUME NEW G, NEW e, NEW g, Moved(G, e, g),
         NEW p, NEW t, ChainNow(p, t), \A k \in 1 .. Len(p) : t[k] \notin G
  PROVE  ChainNext(p, t)
BY DEF Moved, ChainNow, ChainNext, Chain, HoldsNow, HoldsNext

(* What moves is at path r afterwards, and nowhere else: p, whose chain      *)
(* ended in it, has none then if it is not r, or would go through r.         *)
LEMMA MovedChain ==
  ASSUME TreeNow, TreeNext, NEW G, NEW e, NEW g, e.ino \in G, Moved(G, e, g),
         NEW p \in Path, NEW t, ChainNow(p, t), t[Len(p)] \in G,
         NEW r \in Path, NEW u, ChainNext(r, u), u[Len(r)] = e.ino,
         NEW s, ChainNext(p, s)
  PROVE  Len(r) <= Len(p) /\ \A k \in 1 .. Len(r) : r[k] = p[k]
<1>1. TreeOK(inode, data, ifree, bfree) /\ TreeOK(inode', data', ifree', bfree')
  BY DEF TreeNow, TreeNext
<1>2. Len(p) \in Nat \ {0} /\ Len(r) \in Nat \ {0}
  BY PathMeans
<1>3. CASE \E k \in 1 .. Len(p) : s[k] = e.ino
  <2>1. PICK k \in 1 .. Len(p) : s[k] = e.ino
    BY <1>3
  <2>2. Len(r) \in 1 .. Len(r) /\ u[Len(r)] = s[k]
    BY <1>2, <2>1
  <2>3. Len(r) = k /\ \A j \in 1 .. Len(r) : r[j] = p[j]
    BY <1>1, <1>2, <2>2, OneChain DEF ChainNext
  <2> QED BY <1>2, <2>1, <2>3
<1>4. CASE \A k \in 1 .. Len(p) : s[k] # e.ino
  <2>1. ASSUME NEW k \in 1 .. Len(p)
        PROVE  \E f : HoldsNow(s[k - 1], f) /\ f.name = p[k] /\ f.ino = s[k] /\ s[k] \notin G
    <3>1. PICK f : HoldsNext(s[k - 1], f) /\ f.name = p[k] /\ f.ino = s[k]
      BY DEF ChainNext, Chain, HoldsNext
    <3>2. f # e
      BY <1>4, <3>1
    <3> QED BY <3>1, <3>2 DEF Moved
  <2>2. s[0] = Root
    BY DEF ChainNext, Chain
  <2>3. Chain(inode, data, ifree, p, s)
    BY <2>1, <2>2 DEF Chain, HoldsNow
  <2>4. s[Len(p)] = t[Len(p)]
    BY <1>1, <1>2, <2>3, SameChain DEF ChainNow
  <2>5. s[Len(p)] \notin G
    BY <1>2, <2>1
  <2> QED BY <2>4, <2>5
<1> QED BY <1>3, <1>4

-----------------------------------------------------------------------------
(* One path begins with another that has its first names.                   *)
LEMMA PrefixMeans ==
  ASSUME NEW p \in Path, NEW q \in Path, Len(p) <= Len(q), \A k \in 1 .. Len(p) : q[k] = p[k]
  PROVE  IsPrefix(p, q) /\ (Len(p) = Len(q) => p = q)
<1>1. p \in Seq(Name) /\ q \in Seq(Name) /\ Len(p) \in Nat /\ Len(q) \in Nat
  BY PathMeans
<1> DEFINE z == Len(p)
<1>2. z \in Nat /\ z <= Len(q) /\ z = Len(p)
  BY <1>1
<1> HIDE DEF z
<1>3. SubSeq(q, 1, z) \in Seq(Name) /\ Len(SubSeq(q, 1, z)) = z
      /\ \A k \in 1 .. z : SubSeq(q, 1, z)[k] = q[k]
  BY <1>1, <1>2
<1>4. SubSeq(q, 1, z) = p
  BY <1>1, <1>2, <1>3
<1>5. z = Len(q) => p = q
  <2> SUFFICES ASSUME z = Len(q) PROVE p = q
    OBVIOUS
  <2>1. Len(p) = Len(q) /\ \A k \in 1 .. Len(p) : p[k] = q[k]
    BY <1>2
  <2> QED BY <1>1, <2>1
<1> QED BY <1>2, <1>4, <1>5 DEF IsPrefix

(* A path whose last name is another.                                       *)
LEMMA OtherName ==
  ASSUME NEW q \in Path, NEW n \in Name
  PROVE  LET r == Append(Front(q), n) IN
         /\ r \in Path /\ Len(r) = Len(q) /\ Front(r) = Front(q) /\ Last(r) = n
         /\ \A k \in 1 .. Len(q) - 1 : r[k] = q[k]
<1> DEFINE r == Append(Front(q), n)
<1>1. PICK m \in 1 .. MaxDepth : q \in [1 .. m -> Name]
  BY DEF Path
<1>2. /\ Front(q) \in Seq(Name) /\ Len(Front(q)) = Len(q) - 1 /\ q \in Seq(Name)
      /\ Len(q) = m /\ m \in Nat \ {0} /\ \A k \in 1 .. Len(q) - 1 : Front(q)[k] = q[k]
  <2>1. /\ Front(q) \in Seq(Name) /\ Len(Front(q)) = Len(q) - 1 /\ q \in Seq(Name)
        /\ \A k \in 1 .. Len(q) - 1 : Front(q)[k] = q[k]
    BY FrontMeans
  <2> QED BY <1>1, <2>1, SizeAssumption
<1> DEFINE f == Front(q)
<1> HIDE DEF f
<1>3. f \in Seq(Name) /\ Len(f) = m - 1 /\ r = Append(f, n)
  BY <1>2 DEF f
<1> HIDE DEF r
<1>4. r \in Seq(Name) /\ Len(r) = m /\ r[m] = n /\ \A k \in 1 .. m - 1 : r[k] = f[k]
  BY <1>2, <1>3
<1>5. r \in [1 .. m -> Name]
  <2> DEFINE v == [k \in 1 .. m |-> IF k = m THEN n ELSE f[k]]
  <2>1. v \in [1 .. m -> Name]
    <3>1. \A k \in 1 .. m : k # m => f[k] \in Name
      BY <1>2, <1>3
    <3> QED BY <3>1
  <2>2. \A k \in 1 .. m : v[k] = r[k]
    BY <1>4
  <2> HIDE DEF v
  <2>3. v \in Seq(Name) /\ Len(v) = m
    BY <1>2, <2>1
  <2>4. v = r
    BY <1>4, <2>2, <2>3
  <2> QED BY <2>1, <2>4
<1>6. SubSeq(r, 1, m - 1) = f
  <2> DEFINE z == m - 1
             v == SubSeq(r, 1, z)
  <2>1. z \in Nat /\ z <= Len(r) /\ Len(f) = z
    BY <1>2, <1>3, <1>4
  <2>2. \A k \in 1 .. z : r[k] = f[k]
    BY <1>4
  <2> HIDE DEF z
  <2>3. v \in Seq(Name) /\ Len(v) = z /\ \A k \in 1 .. z : v[k] = r[k]
    BY <1>4, <2>1
  <2> HIDE DEF v
  <2>4. v = f
    BY <1>3, <2>1, <2>2, <2>3
  <2> QED BY <2>4 DEF v, z
<1>7. r \in Path
  BY <1>5 DEF Path
<1> QED BY <1>2, <1>4, <1>6, <1>7 DEF Front, Last, f, r

(* What holds before a rename, however it goes on.                          *)
LEMMA BeforeRename ==
  ASSUME TreeNow, NEW p \in Path, NEW q \in Path, KernelSends(p, q)
  PROVE  /\ \E t : ChainNow(p, t) /\ t[Len(p)] = Target(p).ino /\ t[Len(p) - 1] = DirOf(p)
         /\ \E v : /\ ChainNow(Front(q), v) /\ v[Len(q) - 1] = DirOf(q)
                   /\ \A k \in 1 .. Len(q) - 1 : v[k] # Target(p).ino
                   /\ Resolves(q) => \A k \in 1 .. Len(q) - 1 : v[k] # Target(q).ino
<1>1. /\ Resolves(p) /\ Walk(Front(q)).ok /\ ~IsPrefix(p, q) /\ ChainsRight
      /\ TreeOK(inode, data, ifree, bfree)
  BY LooksRight DEF KernelSends, TreeNow
<1>2. PICK t : Chain(inode, data, ifree, p, t)
  BY <1>1 DEF ChainsRight
<1>3. t[Len(p)] = Target(p).ino /\ t[Len(p) - 1] = DirOf(p)
  BY <1>1, <1>2, ChainIsWalked DEF ChainsRight, FoundAt
<1>4. PICK v : Chain(inode, data, ifree, Front(q), v) /\ v[Len(q) - 1] = DirOf(q)
  BY <1>1, WalkHasChain
<1>5. /\ Len(Front(q)) \in Nat /\ Len(Front(q)) = Len(q) - 1
      /\ \A k \in 1 .. Len(q) - 1 : Front(q)[k] = q[k]
      /\ Len(q) \in Nat \ {0} /\ Len(p) \in Nat \ {0}
  BY FrontMeans
<1>6. ASSUME NEW k \in 1 .. Len(q) - 1, v[k] = Target(p).ino PROVE FALSE
  <2>1. k \in 1 .. Len(Front(q)) /\ Len(p) \in 1 .. Len(p) /\ v[k] = t[Len(p)]
    BY <1>3, <1>5, <1>6
  <2>2. k = Len(p) /\ \A j \in 1 .. k : Front(q)[j] = p[j]
    BY <1>1, <1>2, <1>4, <1>5, <2>1, OneChain
  <2>3. Len(p) <= Len(q) /\ \A j \in 1 .. Len(p) : q[j] = p[j]
    BY <1>5, <2>2
  <2> QED BY <1>1, <2>3, PrefixMeans
<1>7. ASSUME Resolves(q), NEW k \in 1 .. Len(q) - 1, v[k] = Target(q).ino PROVE FALSE
  <2>1. PICK s : Chain(inode, data, ifree, q, s)
    BY <1>1, <1>7 DEF ChainsRight
  <2>2. s[Len(q)] = Target(q).ino
    BY <1>1, <2>1 DEF ChainsRight, FoundAt
  <2>3. k \in 1 .. Len(Front(q)) /\ Len(q) \in 1 .. Len(q) /\ v[k] = s[Len(q)]
    BY <1>5, <1>7, <2>2
  <2>4. k = Len(q)
    BY <1>1, <1>4, <1>5, <2>1, <2>3, OneChain
  <2> QED BY <1>5, <2>4
<1> QED BY <1>2, <1>3, <1>4, <1>6, <1>7 DEF ChainNow

(* What moves to directory g is found there, under the name it gets.         *)
LEMMA FoundAfter ==
  ASSUME TreeNow, TreeNext, ChainsRight', NEW G, NEW e, NEW g, e.ino \in G, Moves(G, e, g),
         NEW r \in Path, e.name = Last(r), NEW v, ChainNow(Front(r), v), v[Len(r) - 1] = g,
         \A k \in 1 .. Len(r) - 1 : v[k] \notin G
  PROVE  /\ ResolvesNext(r) /\ TargetNext(r).ino = e.ino
         /\ \E u : ChainNext(r, u) /\ u[Len(r)] = e.ino
<1>1. Moved(G, e, g) /\ HoldsNext(g, e)
  BY HoldsMoved DEF Moved
<1>2. ChainNext(Front(r), v)
  <2>1. \A k \in 1 .. Len(Front(r)) : v[k] \notin G
    BY FrontMeans
  <2> QED BY <1>1, <2>1, ChainStays
<1>3. PICK u : Chain(inode', data', ifree', r, u) /\ u[Len(r)] = e.ino
  BY <1>1, <1>2, LongerChain DEF ChainNext, HoldsNext
<1> QED BY <1>3, LooksRightNext DEF ChainNext

(* A rename over a name.                                                    *)
LEMMA OverwriteMoves ==
  ASSUME TreeInv, TreeNext, ChainsRight', NEW p \in Path, NEW q \in Path,
         KernelSends(p, q), Safe(p, q), Overwrite(p, q)
  PROVE  /\ Resolves(q) /\ ResolvesNext(q) /\ TargetNext(q).ino = Target(p).ino
         /\ ~ResolvesNext(p)
<1> DEFINE e == Dirent(Last(q), Target(p).ino, Target(p).type)
           G == {Target(p).ino, Target(q).ino}
<1>1. TreeNow /\ Resolves(q) /\ ~IsPrefix(q, p) /\ Moves(G, e, DirOf(q))
  BY OverwriteKeeps DEF TreeInv, KernelSends, Overwrite
<1>2. e.name = Last(q) /\ e.ino = Target(p).ino /\ e.ino \in G
  BY DEF Dirent
<1>3. PICK t : ChainNow(p, t) /\ t[Len(p)] = Target(p).ino
  BY <1>1, BeforeRename
<1>4. PICK v : /\ ChainNow(Front(q), v) /\ v[Len(q) - 1] = DirOf(q)
               /\ \A k \in 1 .. Len(q) - 1 : v[k] \notin G
  BY <1>1, BeforeRename
<1>5. t[Len(p)] \in G
  BY <1>3
<1> HIDE DEF e, G
<1>6. ResolvesNext(q) /\ TargetNext(q).ino = e.ino
  BY <1>1, <1>2, <1>4, FoundAfter
<1>7. PICK u : ChainNext(q, u) /\ u[Len(q)] = e.ino
  BY <1>1, <1>2, <1>4, FoundAfter
<1>8. ASSUME ResolvesNext(p) PROVE FALSE
  <2>1. PICK s : ChainNext(p, s)
    BY <1>8, LooksRightNext
  <2>2. Moved(G, e, DirOf(q))
    BY <1>1, <1>2, HoldsMoved
  <2>3. Len(q) <= Len(p) /\ \A k \in 1 .. Len(q) : q[k] = p[k]
    BY <1>1, <1>2, <1>3, <1>5, <1>7, <2>1, <2>2, MovedChain
  <2> QED BY <1>1, <2>3, PrefixMeans
<1> QED BY <1>1, <1>2, <1>6, <1>8

(* A rename to a new name.                                                  *)
LEMMA AddMoves ==
  ASSUME TreeInv, TreeNext, ChainsRight', NEW p \in Path, NEW q \in Path,
         KernelSends(p, q), Safe(p, q), Add(p, q), reply'.ok
  PROVE  /\ ~Resolves(q)
         /\ \E r \in Path :
              /\ r = Append(Front(q), Last(p))
              /\ ResolvesNext(r) /\ TargetNext(r).ino = Target(p).ino
              /\ r = p \/ ~ResolvesNext(p)
<1> DEFINE r == Append(Front(q), Last(p))
           e == Target(p)
           g == DirOf(q)
           n == Last(p)
           G == {Target(p).ino}
<1>1. TreeNow /\ ~Resolves(q) /\ Moves(G, e, g) /\ e.ino \in G
  BY AddKeeps DEF TreeInv, Add
<1>2. /\ g \in DirsOf(inode, ifree) /\ n \in Name /\ e.name = n
      /\ DirOf(p) = g \/ ~Has(g, n)
  <2>1. /\ DirOf(p) \in DirsOf(inode, ifree) /\ g \in DirsOf(inode, ifree) /\ n \in Name
        /\ Has(DirOf(p), n) /\ e = Get(DirOf(p), n)
    BY <1>1, SentMeans
  <2>2. e.name = n
    BY <1>1, <2>1, HasMeans
  <2> QED BY <1>1, <2>1, <2>2 DEF Safe
<1>3. PICK t : ChainNow(p, t) /\ t[Len(p)] \in G /\ t[Len(p) - 1] = DirOf(p)
  BY <1>1, BeforeRename
<1>4. PICK v : /\ ChainNow(Front(q), v) /\ v[Len(q) - 1] = g
               /\ \A k \in 1 .. Len(q) - 1 : v[k] \notin G
  BY <1>1, BeforeRename
<1>5. /\ r \in Path /\ Len(r) = Len(q) /\ Front(r) = Front(q) /\ Last(r) = n
  <2> QED BY <1>2, OtherName
<1> HIDE DEF r, e, g, n, G
<1>9. /\ ChainNow(Front(r), v) /\ v[Len(r) - 1] = g
      /\ \A k \in 1 .. Len(r) - 1 : v[k] \notin G
  BY <1>4, <1>5
<1>6. ResolvesNext(r) /\ TargetNext(r).ino = e.ino
  BY <1>1, <1>2, <1>5, <1>9, FoundAfter
<1>7. PICK u : ChainNext(r, u) /\ u[Len(r)] = e.ino
  BY <1>1, <1>2, <1>5, <1>9, FoundAfter
<1>8. ASSUME ResolvesNext(p), r # p PROVE FALSE
  <2>1. PICK s : ChainNext(p, s)
    BY <1>8, LooksRightNext
  <2>2. Moved(G, e, g)
    BY <1>1, HoldsMoved
  <2>3. Len(r) <= Len(p) /\ \A k \in 1 .. Len(r) : r[k] = p[k]
    BY <1>1, <1>3, <1>5, <1>7, <2>1, <2>2, MovedChain
  <2> DEFINE z == Len(r) - 1
  <2>4. /\ Len(p) \in Nat /\ Len(r) \in Nat \ {0} /\ Len(r) < Len(p) /\ z \in Nat
        /\ Len(r) \in 1 .. Len(p) /\ Len(p) - 1 \in 1 .. Len(p) /\ r[Len(r)] = n
        /\ Len(Front(q)) = z /\ \A k \in 1 .. z : Front(q)[k] = p[k]
    <3>1. Len(p) \in Nat /\ Len(r) \in Nat \ {0} /\ r[Len(r)] = n
      BY <1>5, FrontMeans
    <3>2. Len(p) # Len(r)
      BY <1>5, <1>8, <2>3, PrefixMeans
    <3>3. Len(Front(r)) = Len(r) - 1 /\ \A k \in 1 .. Len(r) - 1 : Front(r)[k] = r[k]
      BY <1>5, FrontMeans
    <3> QED BY <1>5, <2>3, <3>1, <3>2, <3>3
  <2> HIDE DEF z
  <2>5. t[z] = g
    <3>1. TreeOK(inode, data, ifree, bfree) /\ z <= Len(p) /\ z <= Len(Front(q)) /\ Len(Front(q)) \in Nat
          /\ v[z] = g
      BY <1>1, <1>4, <1>5, <2>4 DEF TreeNow, z
    <3> QED BY <1>3, <1>4, <2>4, <3>1, SameChain DEF ChainNow
  <2>6. DirOf(p) = g
    <3>1. \E f : Holds(inode, data, ifree, t[Len(r) - 1], f) /\ f.name = p[Len(r)]
      BY <1>3, <2>4 DEF ChainNow, Chain
    <3>2. p[Len(r)] = n
      BY <2>3, <2>4
    <3>3. Has(g, n)
      BY <1>1, <1>2, <2>5, <3>1, <3>2, HasMeans DEF z
    <3> QED BY <1>2, <3>3
  <2>7. CASE z = 0
    <3>1. t[Len(p) - 1] = Root
      BY <1>3, <2>5, <2>6, <2>7 DEF ChainNow, Chain
    <3>2. \E f : Holds(inode, data, ifree, t[Len(p) - 2], f) /\ f.ino = t[Len(p) - 1]
      <4>1. Len(p) - 1 \in 1 .. Len(p) /\ Len(p) - 1 - 1 = Len(p) - 2
        BY <2>4
      <4> QED BY <1>3, <4>1 DEF ChainNow, Chain
    <3> QED BY <1>1, <3>1, <3>2, HeldOnce DEF TreeNow
  <2>8. CASE z # 0
    <3>1. z \in 1 .. Len(p) /\ Len(p) - 1 \in 1 .. Len(p) /\ z # Len(p) - 1 /\ t[z] = t[Len(p) - 1]
      BY <1>3, <2>4, <2>5, <2>6, <2>8 DEF z
    <3> QED BY <1>1, <1>3, <2>4, <3>1, OneChain DEF ChainNow, TreeNow
  <2> QED BY <2>7, <2>8
<1> QED BY <1>1, <1>5, <1>6, <1>8 DEF e, r

-----------------------------------------------------------------------------
EarlierAlways == programs = "earlier" => TreeInv /\ ChainsRight

(* The invariant of the earlier version by itself, and what is found at a   *)
(* path, which follows from it.                                             *)
LEMMA EarlierHolds ==
  ASSUME ~Crowds, ~Stale, ~Careless
  PROVE  AnySpec => []EarlierAlways
<1>1. AnyInit => EarlierAlways
  BY Starts, LooksRight DEF AnyInit, EarlierAlways, TreeInv
<1>2. EarlierAlways /\ [AnyNext]_<<vars, programs>> => (programs = "earlier" => TreeInv)'
  <2> SUFFICES ASSUME EarlierAlways, [AnyNext]_<<vars, programs>>
               PROVE  (programs = "earlier" => TreeInv)'
    OBVIOUS
  <2>1. CASE UNCHANGED <<vars, programs>>
    BY <2>1 DEF vars, EarlierAlways, TreeInv, TreeNow, OpenNow
  <2>2. CASE AnyNext
    <3>1. CASE programs = "earlier" /\ EarlierNext /\ programs' = programs
      BY <3>1, EarlierStep DEF EarlierAlways
    <3>2. CASE programs # "earlier" /\ programs' = programs
      BY <3>2
    <3> QED BY <2>2, <3>1, <3>2 DEF AnyNext
  <2> QED BY <2>1, <2>2
<1>3. (programs = "earlier" => TreeInv) => EarlierAlways
  BY LooksRight DEF EarlierAlways, TreeInv
<1> QED BY <1>1, <1>2, <1>3, PTL DEF AnySpec

(* A rename that succeeds moves the file or directory, whatever the depth of *)
(* both paths: it is found in the directory of the new name, under that name *)
(* if something had it and under the old name otherwise, and not where it    *)
(* was.  This is of the earlier version, for programs that make directories  *)
(* anywhere and rename where that works (Safe), and do not fill a directory  *)
(* up to the last block.                                                     *)
THEOREM RenamesMove ==
  ASSUME ~Crowds, ~Stale, ~Careless
  PROVE  AnySpec => EarlierRenameMoves
<1>1. ASSUME programs = "earlier", EarlierAlways, EarlierAlways', programs' = programs
      PROVE  RenameMoves
  <2>1. TreeInv /\ TreeNext /\ ChainsRight'
    BY <1>1 DEF EarlierAlways, TreeInv, TreeNow, TreeNext
  <2> SUFFICES ASSUME reply'.ok, NEW p \in Path, NEW q \in Path, Rename(p, q)
               PROVE  \E r \in Path :
                        /\ r = (IF Resolves(q) THEN q ELSE Append(Front(q), Last(p)))
                        /\ Resolves(r)' /\ Target(r)'.ino = Target(p).ino
                        /\ r = p \/ ~Resolves(p)'
    BY DEF RenameMoves
  <2>2. KernelSends(p, q) /\ Safe(p, q) /\ (Overwrite(p, q) \/ Add(p, q))
    BY DEF Rename
  <2>3. CASE Overwrite(p, q)
    <3>1. Resolves(q) /\ ResolvesNext(q) /\ TargetNext(q).ino = Target(p).ino /\ ~ResolvesNext(p)
      BY <2>1, <2>2, <2>3, OverwriteMoves
    <3> WITNESS q \in Path
    <3> QED BY <3>1 DEF ResolvesNext, TargetNext
  <2>4. CASE Add(p, q)
    <3>1. ~Resolves(q)
      BY <2>1, <2>2, <2>4, AddMoves
    <3>2. PICK r \in Path :
            /\ r = Append(Front(q), Last(p))
            /\ ResolvesNext(r) /\ TargetNext(r).ino = Target(p).ino
            /\ r = p \/ ~ResolvesNext(p)
      BY <2>1, <2>2, <2>4, AddMoves
    <3> WITNESS r \in Path
    <3> QED BY <3>1, <3>2 DEF ResolvesNext, TargetNext
  <2> QED BY <2>2, <2>3, <2>4
<1>2. [AnyNext]_<<vars, programs>> => programs' = programs
  BY DEF AnyNext
<1>3. EarlierAlways /\ EarlierAlways' /\ [AnyNext]_<<vars, programs>>
        => [programs = "earlier" => RenameMoves]_<<vars, programs>>
  BY <1>1, <1>2
<1> QED BY <1>3, EarlierHolds, PTL DEF AnySpec, EarlierRenameMoves
===============================================================================

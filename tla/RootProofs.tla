------------------------------ MODULE RootProofs ------------------------------
(***************************************************************************)
(* The root stays when programs do what does not work: RootsStay of        *)
(* MCTinyFS, of programs of net/ that fill the root up and are given       *)
(* blocks that look like directories and have handles that name any inode  *)
(* but the root (Flat), and of programs of the earlier version that rename *)
(* where that loses names (Anyhow).                                        *)
(*                                                                         *)
(* TreeOK of TinyFSProofs is false for them.  What is left is RootKept:    *)
(* the root's inode and its first block are its own, and no entry with a   *)
(* name leads to it.  It is stated of inodes, blocks and bitmaps given as  *)
(* arguments, and first comes what changes of them keep it.  Then there is *)
(* a lemma to each handler, once for Flat and once for Anyhow: the         *)
(* operators of two instances have nothing in common for the provers.      *)
(***************************************************************************)
EXTENDS TinyFSProofs

(* A root that stays, of a disk with blocks B of entries X, and of programs *)
(* that use names S: no entry with such a name is linked to the root.       *)
Three    == 0 .. 2
Walks    == [ok : BOOLEAN, dir : Three, up : Three]
Stuff(S) == [name : S \cup {"", ".", "..", "junk"}, ino : Three, type : Kind]
RootDot  == Dirent(".", Root, "dir")

Plain(X, S, ents) ==
  ents \in [X -> Stuff(S)] /\ \A k \in X : ents[k].name \in S => ents[k].ino # Root

(* Block r is the first one of the root and of no other inode.              *)
Begins(B, X, S, dat, r) ==
  dat \in [B -> [X -> Stuff(S)]] /\ (\A b \in B : Plain(X, S, dat[b])) /\ dat[r][1] = RootDot

Beside(B, i, s, r) ==
  /\ s \in Seq(B) /\ Len(s) <= NDirect
  /\ i = Root => Len(s) > 0 /\ s[1] = r
  /\ i # Root => \A k \in 1 .. Len(s) : s[k] # r

NodeIn(B) == [type : Kind, blk : Seq(B)]

Held(B, in, r) ==
  /\ in \in [Three -> NodeIn(B)] /\ in[Root].type = Dir
  /\ \A i \in Three : Beside(B, i, in[i].blk, r)

Disk(B, X, S) == /\ {1, 2} \subseteq X /\ S \cap {"", ".", "..", "junk"} = {}
                 /\ B \subseteq Nat /\ X \subseteq Nat

RootKept(B, X, S, in, dat, fr, bf, op, r) ==
  /\ r \in B /\ Held(B, in, r) /\ Begins(B, X, S, dat, r)
  /\ fr \subseteq Three \ {Root} /\ op \subseteq Three \ {Root} /\ bf \subseteq B \ {r}

(* A block is replaced.                                                     *)
LEMMA PutBlock ==
  ASSUME NEW B, NEW X, NEW S, NEW dat, NEW r, Begins(B, X, S, dat, r), 1 \in X,
         NEW b \in B, NEW ents, Plain(X, S, ents), b = r => ents[1] = RootDot
  PROVE  Begins(B, X, S, [dat EXCEPT ![b] = ents], r)
<1> DEFINE new == [dat EXCEPT ![b] = ents]
<1>1. dat \in [B -> [X -> Stuff(S)]] /\ ents \in [X -> Stuff(S)]
  BY DEF Begins, Plain
<1>2. new \in [B -> [X -> Stuff(S)]] /\ \A c \in B : new[c] = IF c = b THEN ents ELSE dat[c]
  BY <1>1
<1>3. \A c \in B : Plain(X, S, new[c])
  BY <1>2 DEF Begins
<1>4. new[r][1] = RootDot
  <2>1. CASE b = r
    BY <2>1, <1>2
  <2>2. CASE b # r
    BY <2>2, <1>1 DEF Begins
  <2> QED BY <2>1, <2>2
<1> QED BY <1>2, <1>3, <1>4 DEF Begins

(* So is an entry of one, if it is not the first of the root.               *)
LEMMA PutEntry ==
  ASSUME NEW B, NEW X, NEW S, NEW dat, NEW r, Begins(B, X, S, dat, r), 1 \in X,
         NEW b \in B, NEW x \in X, NEW e \in Stuff(S), e.name \in S => e.ino # Root,
         b # r \/ x # 1
  PROVE  Begins(B, X, S, [dat EXCEPT ![b][x] = e], r)
<1> DEFINE ents == [dat[b] EXCEPT ![x] = e]
<1>1. dat \in [B -> [X -> Stuff(S)]] /\ dat[b] \in [X -> Stuff(S)] /\ Plain(X, S, dat[b])
  BY DEF Begins
<1>2. ents \in [X -> Stuff(S)] /\ \A k \in X : ents[k] = IF k = x THEN e ELSE dat[b][k]
  BY <1>1
<1>3. Plain(X, S, ents)
  BY <1>1, <1>2 DEF Plain
<1>4. b = r => ents[1] = RootDot
  BY <1>2 DEF Begins
<1>5. [dat EXCEPT ![b][x] = e] = [dat EXCEPT ![b] = ents]
  OBVIOUS
<1> HIDE DEF ents
<1> QED BY <1>3, <1>4, <1>5, PutBlock

(* What is read after that.                                                 *)
LEMMA PutMeans ==
  ASSUME NEW B, NEW X, NEW S, NEW dat \in [B -> [X -> Stuff(S)]],
         NEW b \in B, NEW x \in X, NEW e
  PROVE  /\ [dat EXCEPT ![b][x] = e][b][x] = e
         /\ \A c \in B, y \in X : [dat EXCEPT ![b][x] = e][c][y] \in {e, dat[c][y]}
<1>1. [dat EXCEPT ![b][x] = e] = [dat EXCEPT ![b] = [dat[b] EXCEPT ![x] = e]]
  OBVIOUS
<1>2. dat[b] \in [X -> Stuff(S)]
  OBVIOUS
<1> QED BY <1>1, <1>2

(* An inode is replaced.                                                    *)
LEMMA PutNode ==
  ASSUME NEW B, NEW in, NEW r, Held(B, in, r), NEW i \in Three,
         NEW node \in NodeIn(B), i = Root => node.type = Dir, Beside(B, i, node.blk, r)
  PROVE  Held(B, [in EXCEPT ![i] = node], r)
<1> DEFINE new == [in EXCEPT ![i] = node]
<1>1. in \in [Three -> NodeIn(B)] /\ Root \in Three
  BY DEF Held, Root, Three
<1>2. new \in [Three -> NodeIn(B)] /\ \A j \in Three : new[j] = IF j = i THEN node ELSE in[j]
  BY <1>1
<1> HIDE DEF new
<1>3. new[Root].type = Dir /\ \A j \in Three : Beside(B, j, new[j].blk, r)
  BY <1>1, <1>2 DEF Held
<1>4. Held(B, new, r)
  BY <1>2, <1>3 DEF Held
<1> QED BY <1>4 DEF new

(* So are the blocks of one.                                                *)
LEMMA PutBlocks ==
  ASSUME NEW B, NEW in, NEW r, Held(B, in, r), NEW i \in Three, NEW s, Beside(B, i, s, r)
  PROVE  Held(B, [in EXCEPT ![i].blk = s], r)
<1> DEFINE node == [in[i] EXCEPT !.blk = s]
<1>1. in \in [Three -> NodeIn(B)] /\ in[i] \in [type : Kind, blk : Seq(B)] /\ s \in Seq(B)
  BY DEF Held, Beside, NodeIn
<1> DEFINE Q == Seq(B)
<1>a. in[i] \in [type : Kind, blk : Q] /\ s \in Q
  BY <1>1
<1> HIDE DEF Q
<1>2. node \in [type : Kind, blk : Q] /\ node.blk = s /\ node.type = in[i].type
  BY <1>a
<1>3. node \in NodeIn(B)
  BY <1>2 DEF Q, NodeIn
<1>4. i = Root => node.type = Dir
  BY <1>2 DEF Held
<1>5. [in EXCEPT ![i].blk = s] = [in EXCEPT ![i] = node]
  OBVIOUS
<1> HIDE DEF node
<1> QED BY <1>2, <1>3, <1>4, <1>5, PutNode

(* A file without blocks, and a directory with one, beside the root.        *)
LEMMA NewNodeIn ==
  ASSUME NEW B, NEW r, NEW i \in Three \ {Root}
  PROVE  /\ [type |-> "file", blk |-> << >>] \in NodeIn(B) /\ Beside(B, i, << >>, r)
         /\ \A b \in B \ {r} : /\ [type |-> "dir", blk |-> <<b>>] \in NodeIn(B)
                               /\ Beside(B, i, <<b>>, r)
<1>1. << >> \in Seq(B) /\ Len(<< >>) = 0 /\ 0 <= NDirect /\ 1 <= NDirect
  BY SizeAssumption
<1>2. "file" \in Kind /\ "dir" \in Kind
  BY DEF Kind, File, Dir
<1>3. [type |-> "file", blk |-> << >>] \in NodeIn(B)
  BY <1>1, <1>2 DEF NodeIn
<1>4. Beside(B, i, << >>, r)
  BY <1>1 DEF Beside
<1>5. ASSUME NEW b \in B \ {r}
      PROVE  [type |-> "dir", blk |-> <<b>>] \in NodeIn(B) /\ Beside(B, i, <<b>>, r)
  <2>1. <<b>> \in Seq(B) /\ Len(<<b>>) = 1 /\ <<b>>[1] = b
    OBVIOUS
  <2>2. Beside(B, i, <<b>>, r)
    BY <1>1, <2>1 DEF Beside
  <2> QED BY <1>2, <2>1, <2>2 DEF NodeIn
<1> QED BY <1>3, <1>4, <1>5

(* An inode gets a block more.                                              *)
LEMMA OneMore ==
  ASSUME NEW B, NEW i, NEW s, NEW r, Beside(B, i, s, r), NEW b \in B \ {r}, Len(s) < NDirect
  PROVE  Beside(B, i, Append(s, b), r)
<1>1. s \in Seq(B) /\ Len(s) \in Nat /\ NDirect \in Nat
  BY SizeAssumption DEF Beside
<1>2. /\ Append(s, b) \in Seq(B) /\ Len(Append(s, b)) = Len(s) + 1
      /\ \A k \in 1 .. Len(s) : Append(s, b)[k] = s[k]
      /\ Append(s, b)[Len(s) + 1] = b
  BY <1>1
<1> DEFINE v == Append(s, b)
<1> HIDE DEF v
<1>3. /\ v \in Seq(B) /\ Len(v) = Len(s) + 1
      /\ \A k \in 1 .. Len(s) : v[k] = s[k]
      /\ v[Len(s) + 1] = b
  BY <1>2 DEF v
<1>4. Len(v) <= NDirect
  BY <1>1, <1>3
<1>5. i = Root => Len(v) > 0 /\ v[1] = r
  BY <1>1, <1>3 DEF Beside
<1>6. i # Root => \A k \in 1 .. Len(v) : v[k] # r
  BY <1>1, <1>3 DEF Beside
<1> QED BY <1>3, <1>4, <1>5, <1>6 DEF Beside, v

(* It keeps its first one only.                                             *)
LEMMA OnlyOne ==
  ASSUME NEW B, NEW i, NEW s, NEW r, Beside(B, i, s, r), Len(s) > 1
  PROVE  Beside(B, i, SubSeq(s, 1, 1), r)
<1>1. s \in Seq(B) /\ Len(s) \in Nat /\ NDirect \in Nat
  BY SizeAssumption DEF Beside
<1>2. SubSeq(s, 1, 1) \in Seq(B) /\ Len(SubSeq(s, 1, 1)) = 1 /\ SubSeq(s, 1, 1)[1] = s[1]
  BY <1>1
<1> DEFINE v == SubSeq(s, 1, 1)
<1> HIDE DEF v
<1>3. v \in Seq(B) /\ Len(v) = 1 /\ v[1] = s[1] /\ 1 <= NDirect
  BY <1>1, <1>2, SizeAssumption DEF v
<1> QED BY <1>1, <1>3 DEF Beside, v

(* It loses one that is not the first of the root.                          *)
LEMMA OneLess ==
  ASSUME NEW B, NEW i, NEW s, NEW r, Beside(B, i, s, r),
         NEW k \in 1 .. Len(s), s[k] # r
  PROVE  Beside(B, i, Without(s, k), r)
<1> DEFINE z == Len(s)
           v == [s EXCEPT ![k] = s[z]]
           w == SubSeq(v, 1, z - 1)
<1>1. s \in Seq(B) /\ z \in Nat /\ z >= 1 /\ s[z] \in B /\ NDirect \in Nat /\ z <= NDirect
  BY SizeAssumption DEF Beside
<1>2. v \in Seq(B) /\ Len(v) = z /\ \A m \in 1 .. z : v[m] = s[IF m = k THEN z ELSE m]
  BY <1>1
<1> HIDE DEF v
<1>3. w \in Seq(B) /\ Len(w) = z - 1 /\ \A m \in 1 .. z - 1 : w[m] = v[m]
  BY <1>1, <1>2
<1>4. Without(s, k) = w
  BY <1>2 DEF Without, Front, Last, v
<1> HIDE DEF w
<1>5. \A m \in 1 .. z - 1 : w[m] = s[IF m = k THEN z ELSE m]
  BY <1>1, <1>2, <1>3
<1>6. i = Root => Len(w) > 0 /\ w[1] = r
  <2> SUFFICES ASSUME i = Root PROVE Len(w) > 0 /\ w[1] = r
    OBVIOUS
  <2>1. s[1] = r /\ k # 1 /\ z > 1
    BY <1>1 DEF Beside
  <2> QED BY <1>1, <1>3, <1>5, <2>1
<1>7. i # Root => \A m \in 1 .. Len(w) : w[m] # r
  BY <1>1, <1>3, <1>5 DEF Beside
<1>8. Len(w) <= NDirect
  BY <1>1, <1>3
<1> QED BY <1>3, <1>4, <1>6, <1>7, <1>8 DEF Beside

(* Entries that are written.                                                *)
LEMMA NewStuff ==
  ASSUME NEW B, NEW X, NEW S, Disk(B, X, S), NEW i \in Three, NEW t \in Kind
  PROVE  /\ \A n \in S : Dirent(n, i, t) \in Stuff(S)
         /\ \A n \in {"", ".", "..", "junk"} : n \notin S /\ Dirent(n, i, t) \in Stuff(S)
BY DEF Disk, Stuff, Dirent

(* Dots are not names of programs.                                          *)
LEMMA DotsPlain ==
  ASSUME NEW B, NEW X, NEW S, Disk(B, X, S), NEW ents, Plain(X, S, ents),
         NEW i \in Three, NEW j \in Three
  PROVE  Plain(X, S, [ents EXCEPT ![1] = Dirent(".", i, "dir"), ![2] = Dirent("..", j, "dir")])
<1> DEFINE e == Dirent(".", i, "dir")
           f == Dirent("..", j, "dir")
           new == [ents EXCEPT ![1] = e, ![2] = f]
<1>1. e \in Stuff(S) /\ f \in Stuff(S) /\ e.name \notin S /\ f.name \notin S
  BY NewStuff DEF Dirent, Kind, Dir
<1>2. ents \in [X -> Stuff(S)]
  BY DEF Plain
<1> HIDE DEF e, f
<1>3. new \in [X -> Stuff(S)] /\ \A k \in X : new[k] \in {e, f, ents[k]}
  BY <1>1, <1>2
<1> HIDE DEF new
<1>4. Plain(X, S, new)
  BY <1>1, <1>3 DEF Plain
<1> QED BY <1>4 DEF new, e, f

(* A block of the same entries, none with a name of programs.               *)
LEMMA SamePlain ==
  ASSUME NEW X, NEW S, NEW e \in Stuff(S), e.name \notin S
  PROVE  Plain(X, S, [k \in X |-> e])
BY DEF Plain

(* A walk that goes by the steps that G gives.                              *)
Follows(w, W, f, z, G) ==
  w \in [0 .. z -> W] /\ w[0] = f /\ \A k \in 1 .. z : w[k] = G[<<w[k - 1], k>>]

(* A path of so many names is a sequence of them.                           *)
LEMMA SeqOf ==
  ASSUME NEW S, NEW n \in Nat \ {0}, NEW p \in [1 .. n -> S]
  PROVE  p \in Seq(S) /\ Len(p) = n
OBVIOUS

(* Such walks exist.                                                        *)
LEMMA Walked ==
  ASSUME NEW W, NEW f \in W, NEW z \in Nat, NEW G \in [W \X (1 .. z) -> W]
  PROVE  \E w : Follows(w, W, f, z, G)
<1> DEFINE Is(w, m) == Follows(w, W, f, m, G)
           T == {m \in 0 .. z : \E w : Is(w, m)}
<1>1. 0 \in T
  <2>1. Is([k \in 0 .. 0 |-> f], 0)
    BY DEF Follows
  <2> HIDE DEF Is
  <2>2. \E w : Is(w, 0)
    BY <2>1
  <2> QED BY <2>2
<1>2. ASSUME NEW m \in 0 .. z - 1, m \in T PROVE m + 1 \in T
  <2>1. PICK w : Is(w, m)
    BY <1>2
  <2> DEFINE v == [k \in 0 .. m + 1 |-> IF k = m + 1 THEN G[<<w[m], m + 1>>] ELSE w[k]]
  <2>2. G[<<w[m], m + 1>>] \in W
    BY <2>1 DEF Follows
  <2>3. v \in [0 .. m + 1 -> W] /\ v[0] = f
    BY <2>1, <2>2 DEF Follows
  <2>4. ASSUME NEW k \in 1 .. m + 1 PROVE v[k] = G[<<v[k - 1], k>>]
    <3>1. CASE k = m + 1
      <4>1. v[k] = G[<<w[m], m + 1>>] /\ v[m] = w[m] /\ k - 1 = m
        BY <3>1
      <4> HIDE DEF v
      <4> QED BY <3>1, <4>1
    <3>2. CASE k # m + 1
      <4>1. k \in 1 .. m /\ v[k] = w[k] /\ v[k - 1] = w[k - 1]
        BY <3>2
      <4> HIDE DEF v
      <4> QED BY <2>1, <4>1 DEF Follows
    <3> QED BY <3>1, <3>2
  <2> HIDE DEF v
  <2>5. Is(v, m + 1)
    BY <2>3, <2>4 DEF Follows
  <2> QED BY <2>5
<1> HIDE DEF T
<1>3. z \in T
  BY <1>1, <1>2, Climb
<1> QED BY <1>3 DEF T

(* The blocks in F are replaced.                                            *)
LEMMA PutMany ==
  ASSUME NEW B, NEW X, NEW S, NEW dat, NEW r, Begins(B, X, S, dat, r), r \in B,
         NEW F, r \notin F, NEW ents, Plain(X, S, ents)
  PROVE  Begins(B, X, S, [b \in B |-> IF b \in F THEN ents ELSE dat[b]], r)
<1> DEFINE new == [b \in B |-> IF b \in F THEN ents ELSE dat[b]]
<1>1. dat \in [B -> [X -> Stuff(S)]] /\ ents \in [X -> Stuff(S)]
  BY DEF Begins, Plain
<1>2. new \in [B -> [X -> Stuff(S)]] /\ \A c \in B : new[c] = IF c \in F THEN ents ELSE dat[c]
  BY <1>1
<1>3. new[r] = dat[r]
  BY <1>2
<1> HIDE DEF new
<1>4. \A c \in B : Plain(X, S, new[c])
  BY <1>2 DEF Begins
<1>5. new[r][1] = RootDot
  BY <1>3 DEF Begins
<1>6. Begins(B, X, S, new, r)
  BY <1>2, <1>4, <1>5 DEF Begins
<1> QED BY <1>6 DEF new

(* A set of places has a last one.                                          *)
LEMMA Latest ==
  ASSUME NEW n \in Nat, NEW T \in SUBSET (1 .. n), T # {}
  PROVE  \E b \in T : \A c \in T : b >= c
<1> DEFINE M == {n - a : a \in T}
<1>1. M \in SUBSET Nat /\ M # {}
  <2>1. \A a \in T : n - a \in Nat
    OBVIOUS
  <2>2. M \in SUBSET Nat
    BY <2>1
  <2>3. PICK a \in T : TRUE
    OBVIOUS
  <2>4. n - a \in M
    BY <2>3
  <2> QED BY <2>2, <2>4
<1>2. PICK m \in M : \A c \in M : m <= c
  <2> HIDE DEF M
  <2> QED BY <1>1, First
<1>3. PICK b \in T : m = n - b
  BY <1>2
<1>4. ASSUME NEW c \in T PROVE b >= c
  <2>1. n - c \in M
    OBVIOUS
  <2>2. m <= n - c
    BY <1>2, <2>1
  <2> QED BY <1>3, <2>2
<1> QED BY <1>4

(* What is cleared is none of the root's first entry.                       *)
LEMMA ClearPlain ==
  ASSUME NEW B, NEW X, NEW S, Disk(B, X, S), NEW ents, Plain(X, S, ents), NEW n \in S
  PROVE  LET new == [k \in X |-> IF ents[k].name = n THEN Null ELSE ents[k]]
         IN  Plain(X, S, new) /\ (ents[1] = RootDot => new[1] = RootDot)
<1> DEFINE new == [k \in X |-> IF ents[k].name = n THEN Null ELSE ents[k]]
<1>a. 0 \in Three
  BY DEF Three
<1>b. "file" \in Kind
  BY DEF Kind, File
<1>1. Null \in Stuff(S) /\ Null.name \notin S
  BY <1>a, <1>b, NewStuff DEF Null, Dirent
<1>2. ents \in [X -> Stuff(S)]
  BY DEF Plain
<1>3. new \in [X -> Stuff(S)] /\ \A k \in X : new[k] = IF ents[k].name = n THEN Null ELSE ents[k]
  BY <1>1, <1>2
<1>c. 1 \in X /\ n # "."
  BY DEF Disk
<1> HIDE DEF new
<1>4. Plain(X, S, new)
  BY <1>1, <1>3 DEF Plain
<1>5. ents[1] = RootDot => new[1] = RootDot
  BY <1>c, <1>3 DEF RootDot, Dirent
<1> QED BY <1>4, <1>5 DEF new

(* The blocks of another inode than the root, all or but the first.         *)
LEMMA OthersBlocks ==
  ASSUME NEW B, NEW i, NEW s, NEW r, Beside(B, i, s, r), i # Root
  PROVE  /\ {s[k] : k \in DOMAIN s} \subseteq B \ {r}
         /\ s # << >> => {Tail(s)[k] : k \in DOMAIN Tail(s)} \subseteq B \ {r}
         /\ Beside(B, i, << >>, r)
<1>1. s \in Seq(B) /\ \A k \in 1 .. Len(s) : s[k] # r
  BY DEF Beside
<1>2. ASSUME s # << >> PROVE {Tail(s)[k] : k \in DOMAIN Tail(s)} \subseteq B \ {r}
  <2> DEFINE v == Tail(s)
  <2>1. v \in Seq(B) /\ Len(v) = Len(s) - 1 /\ \A k \in 1 .. Len(v) : v[k] = s[k + 1]
    BY <1>1, <1>2
  <2> HIDE DEF v
  <2>2. \A k \in 1 .. Len(v) : v[k] \in B \ {r}
    BY <1>1, <2>1
  <2>3. DOMAIN v = 1 .. Len(v)
    BY <2>1
  <2>4. {v[k] : k \in DOMAIN v} \subseteq B \ {r}
    BY <2>2, <2>3
  <2> QED BY <2>4 DEF v
<1>3. DOMAIN s = 1 .. Len(s) /\ \A k \in 1 .. Len(s) : s[k] \in B
  BY <1>1
<1>4. {s[k] : k \in DOMAIN s} \subseteq B \ {r}
  BY <1>1, <1>3
<1>5. << >> \in Seq(B) /\ Len(<< >>) = 0 /\ 0 <= NDirect
  BY SizeAssumption
<1>6. Beside(B, i, << >>, r)
  BY <1>5 DEF Beside
<1> QED BY <1>2, <1>4, <1>6

-----------------------------------------------------------------------------
(* The same for each handler of net/ and then of the earlier version: the    *)
(* operators of two instances are different ones to the provers, and what is *)
(* proved of the one is not known of the other.  First the programs of Flat. *)
FilledName == {n1, n2}

FilledRoot(r) == /\ RootKept(Blk, Index, FilledName, inode, data, ifree, bfree, opened \cup stray, r)
             /\ wild \in BOOLEAN
FilledRootNext(r) == /\ RootKept(Blk, Index, FilledName, inode', data', ifree', bfree', opened' \cup stray', r)
                 /\ wild' \in BOOLEAN

(* The numbers and names of this instance.                                  *)
LEMMA FilledDisk ==
  Disk(Blk, Index, FilledName) /\ Three \subseteq Nat /\ NDirent \in Nat /\ Index = 1 .. NDirent
<1>1. {1, 2} \subseteq Index /\ Index \subseteq Nat
  BY SizeAssumption DEF Index
<1>2. FilledName \cap {"", ".", "..", "junk"} = {}
  BY TwoNames DEF FilledName
<1>3. Disk(Blk, Index, FilledName)
  BY <1>1, <1>2, BlkAssumption DEF Disk
<1>4. Three \subseteq Nat
  BY DEF Three
<1> QED BY <1>3, <1>4, SizeAssumption DEF Index

(* The parts of the invariant.                                              *)
LEMMA FilledParts ==
  ASSUME NEW r, FilledRoot(r)
  PROVE  /\ r \in Blk /\ Held(Blk, inode, r) /\ Begins(Blk, Index, FilledName, data, r)
         /\ ifree \subseteq Three \ {Root} /\ opened \cup stray \subseteq Three \ {Root}
         /\ bfree \subseteq Blk \ {r} /\ wild \in BOOLEAN
BY DEF FilledRoot, RootKept

(* The blocks of an inode.                                                  *)
LEMMA FilledNodes ==
  ASSUME NEW r, FilledRoot(r), NEW i \in Three
  PROVE  /\ Beside(Blk, i, inode[i].blk, r)
         /\ inode[i].blk \in Seq(Blk) /\ Len(inode[i].blk) \in Nat
         /\ Len(inode[i].blk) <= NDirect
<1>1. Beside(Blk, i, inode[i].blk, r)
  BY FilledParts DEF Held
<1>2. inode[i].blk \in Seq(Blk) /\ Len(inode[i].blk) <= NDirect
  BY <1>1 DEF Beside
<1> QED BY <1>1, <1>2

(* What is free is numbered.                                                *)
LEMMA FilledFree ==
  ASSUME NEW r, FilledRoot(r)
  PROVE  ifree \in SUBSET Nat /\ bfree \in SUBSET Nat
BY FilledParts, FilledDisk DEF Disk

(* The allocator finds what is free.                                        *)
LEMMA FilledFirst ==
  ASSUME NEW f \in SUBSET Nat, f # {}
  PROVE  Flat!FirstFree(f) \in f
BY First DEF Flat!FirstFree

(* What is at a place of a directory.                                       *)
LEMMA FilledPlace ==
  ASSUME NEW r, FilledRoot(r), NEW d \in Three, NEW k \in 1 .. NDirent * Len(inode[d].blk),
         NEW b, b = inode[d].blk[Flat!InBlock(k)], NEW x, x = Flat!AtIndex(k)
  PROVE  /\ Flat!InBlock(k) \in 1 .. Len(inode[d].blk) /\ b \in Blk /\ x \in Index
         /\ d # Root => b # r
         /\ Flat!EntryAt(d, k) = data[b][x] /\ data[b][x] \in Stuff(FilledName)
         /\ data[b][x].name \in FilledName => data[b][x].ino \in Three \ {Root}
         /\ b = r /\ x = 1 => data[b][x].name = "."
<1>1. inode[d].blk \in Seq(Blk) /\ Len(inode[d].blk) \in Nat /\ Beside(Blk, d, inode[d].blk, r)
  BY FilledNodes
<1>2. Flat!InBlock(k) \in 1 .. Len(inode[d].blk) /\ x \in Index
  BY <1>1, PlaceMeans DEF Flat!InBlock, Flat!AtIndex, InBlock, AtIndex
<1>3. b \in Blk /\ (d # Root => b # r)
  BY <1>1, <1>2 DEF Beside
<1>4. Begins(Blk, Index, FilledName, data, r)
  BY FilledParts
<1>5. data[b] \in [Index -> Stuff(FilledName)] /\ Plain(Index, FilledName, data[b])
  BY <1>3, <1>4 DEF Begins
<1>6. data[b][x] \in Stuff(FilledName) /\ (data[b][x].name \in FilledName => data[b][x].ino # Root)
  BY <1>2, <1>5 DEF Plain
<1>7. data[b][x].ino \in Three
  BY <1>6 DEF Stuff
<1>8. b = r /\ x = 1 => data[b][x].name = "."
  BY <1>4 DEF Begins, RootDot, Dirent
<1>9. Flat!EntryAt(d, k) = data[b][x]
  BY DEF Flat!EntryAt
<1> QED BY <1>2, <1>3, <1>6, <1>7, <1>8, <1>9

(* Find looks at every place.                                               *)
LEMMA FilledFind ==
  ASSUME NEW r, FilledRoot(r), NEW d \in Three, NEW n, Flat!Has(d, n)
  PROVE  /\ Flat!Find(d, n) \in 1 .. NDirent * Len(inode[d].blk)
         /\ Flat!EntryAt(d, Flat!Find(d, n)).name = n
<1> DEFINE hits == {k \in 1 .. NDirent * Len(inode[d].blk) : Flat!EntryAt(d, k).name = n}
<1>1. hits \in SUBSET Nat
  OBVIOUS
<1>2. Flat!Find(d, n) = IF hits = {} THEN 0 ELSE Flat!Min(hits)
  BY DEF Flat!Find
<1>3. hits # {}
  BY <1>2 DEF Flat!Has
<1>4. Flat!Min(hits) \in hits
  <2> HIDE DEF hits
  <2> QED BY <1>1, <1>3, First DEF Flat!Min
<1> HIDE DEF hits
<1>5. Flat!Find(d, n) \in hits
  BY <1>2, <1>3, <1>4
<1> QED BY <1>5 DEF hits

(* The directories that a walk comes to.                                    *)
LEMMA FilledStep ==
  ASSUME NEW r, FilledRoot(r), NEW w \in Walks, NEW n
  PROVE  Flat!Step(w, n) \in Walks
<1>1. CASE ~w.ok \/ ~Flat!Has(w.dir, n)
  <2>1. Flat!Step(w, n) = [w EXCEPT !.ok = FALSE]
    BY <1>1 DEF Flat!Step
  <2>2. [w EXCEPT !.ok = FALSE] \in Walks
    BY DEF Walks
  <2> QED BY <2>1, <2>2
<1>2. CASE w.ok /\ Flat!Has(w.dir, n)
  <2> DEFINE d == w.dir
             e == Flat!Get(d, n)
  <2>1. d \in Three
    BY DEF Walks
  <2>2. e.ino \in Three
    <3>1. Flat!Find(d, n) \in 1 .. NDirent * Len(inode[d].blk)
      BY <1>2, <2>1, FilledFind
    <3>2. Flat!EntryAt(d, Flat!Find(d, n)) \in Stuff(FilledName)
      BY <2>1, <3>1, FilledPlace
    <3> QED BY <3>2 DEF Flat!Get, Stuff
  <2>3. \/ Flat!Step(w, n) = [w EXCEPT !.ok = FALSE]
        \/ Flat!Step(w, n) = [ok |-> TRUE, dir |-> e.ino, up |-> d]
    BY <1>2 DEF Flat!Step
  <2>4. [w EXCEPT !.ok = FALSE] \in Walks
    BY DEF Walks
  <2>5. [ok |-> TRUE, dir |-> e.ino, up |-> d] \in Walks
    <3> HIDE DEF e, d
    <3> QED BY <2>1, <2>2 DEF Walks
  <2> QED BY <2>3, <2>4, <2>5
<1> QED BY <1>1, <1>2

(* A walk comes to inodes, along names of programs.                         *)
LEMMA FilledWalk ==
  ASSUME NEW r, FilledRoot(r), NEW p \in Flat!Path
  PROVE  /\ Flat!Walk(Flat!Front(p)).dir \in Three /\ Flat!Walk(Flat!Front(p)).up \in Three
         /\ Flat!Last(p) \in FilledName
<1> DEFINE q == Flat!Front(p)
           z == Len(q)
           f == [ok |-> TRUE, dir |-> Root, up |-> Root]
           G == [a \in Walks \X (1 .. z) |-> Flat!Step(a[1], q[a[2]])]
<1>1. p \in Seq(FilledName) /\ Len(p) \in Nat \ {0}
  <2>1. PICK n \in 1 .. 1 : p \in [1 .. n -> FilledName]
    BY DEF Flat!Path, FilledName
  <2>2. n \in Nat \ {0}
    BY <2>1, SizeAssumption
  <2>3. p \in [1 .. n -> FilledName]
    BY <2>1
  <2>4. p \in Seq(FilledName) /\ Len(p) = n
    BY <2>2, <2>3, SeqOf
  <2> QED BY <2>2, <2>4
<1>2. Flat!Last(p) \in FilledName /\ z \in Nat
  BY <1>1 DEF Flat!Last, Flat!Front
<1>3. f \in Walks
  BY DEF Walks, Three, Root
<1>4. G \in [Walks \X (1 .. z) -> Walks]
  <2>1. ASSUME NEW w \in Walks, NEW n PROVE Flat!Step(w, n) \in Walks
    BY FilledStep
  <2> HIDE DEF z, q
  <2> QED BY <2>1
<1>4a. PICK u : Follows(u, Walks, f, z, G)
  <2> HIDE DEF f, z, G
  <2> QED BY <1>2, <1>3, <1>4, Walked
<1>5. u \in [0 .. z -> Walks] /\ u[0] = f /\ \A k \in 1 .. z : u[k] = G[<<u[k - 1], k>>]
  <2> HIDE DEF f, z, G
  <2> QED BY <1>4a DEF Follows
<1>7. u = [k \in 0 .. z |-> IF k = 0 THEN f ELSE Flat!Step(u[k - 1], q[k])]
  <2>1. ASSUME NEW k \in 1 .. z PROVE G[<<u[k - 1], k>>] = Flat!Step(u[k - 1], q[k])
    <3>1. <<u[k - 1], k>> \in Walks \X (1 .. z)
      <4> HIDE DEF z
      <4> QED BY <1>2, <1>5
    <3> QED BY <3>1
  <2>2. \A k \in 0 .. z : u[k] = IF k = 0 THEN f ELSE Flat!Step(u[k - 1], q[k])
    <3> SUFFICES ASSUME NEW k \in 0 .. z
                 PROVE  u[k] = IF k = 0 THEN f ELSE Flat!Step(u[k - 1], q[k])
      OBVIOUS
    <3> HIDE DEF f, z, G, q
    <3>1. k # 0 => k \in 1 .. z
      BY <1>2
    <3> QED BY <1>2, <1>5, <2>1, <3>1
  <2>3. u = [k \in 0 .. z |-> u[k]]
    <3> HIDE DEF f, z, G, q
    <3> QED BY <1>5
  <2> HIDE DEF f, z, G, q
  <2> QED BY <2>2, <2>3
<1> DEFINE V == CHOOSE v : v = [k \in 0 .. z |-> IF k = 0 THEN f ELSE Flat!Step(v[k - 1], q[k])]
<1>8. Flat!Walk(q) = V[z]
  BY DEF Flat!Walk, Flat!Root, Root
<1>9. V = [k \in 0 .. z |-> IF k = 0 THEN f ELSE Flat!Step(V[k - 1], q[k])]
  <2> HIDE DEF f, z, G, q
  <2> QED BY <1>7
<1>10. \A k \in 0 .. z : V[k] \in Walks
  <2> DEFINE T == {k \in 0 .. z : V[k] \in Walks}
  <2>a. ASSUME NEW w \in Walks, NEW n PROVE Flat!Step(w, n) \in Walks
    BY FilledStep
  <2> HIDE DEF f, z, G, V, q
  <2>1. \A k \in 0 .. z : V[k] = IF k = 0 THEN f ELSE Flat!Step(V[k - 1], q[k])
    BY <1>9
  <2>2. 0 \in T
    <3>1. 0 \in 0 .. z /\ 0 = 0
      BY <1>2
    <3>2. V[0] = f
      BY <2>1, <3>1
    <3> QED BY <1>3, <3>1, <3>2
  <2>3. ASSUME NEW k \in 0 .. z - 1, k \in T PROVE k + 1 \in T
    <3>1. V[k + 1] = Flat!Step(V[k], q[k + 1]) /\ k + 1 \in 1 .. z /\ V[k] \in Walks
      BY <1>2, <2>1, <2>3
    <3> QED BY <1>2, <2>a, <3>1
  <2> HIDE DEF T
  <2>4. \A k \in 0 .. z : k \in T
    BY <1>2, <2>2, <2>3, Climb
  <2> QED BY <2>4 DEF T
<1>11. V[z] \in Walks
  <2> HIDE DEF z, V
  <2> QED BY <1>2, <1>10
<1> HIDE DEF V
<1>12. Flat!Walk(q) \in Walks
  BY <1>8, <1>11
<1> HIDE DEF q, z, f, G
<1>13. Flat!Walk(q).dir \in Three /\ Flat!Walk(q).up \in Three
  BY <1>12 DEF Walks
<1> QED BY <1>2, <1>13 DEF q

(* What a name stands for is not the root.                                  *)
LEMMA FilledTarget ==
  ASSUME NEW r, FilledRoot(r), NEW p \in Flat!Path, Flat!Resolves(p)
  PROVE  /\ Flat!DirOf(p) \in Three /\ Flat!Last(p) \in FilledName /\ Flat!Has(Flat!DirOf(p), Flat!Last(p))
         /\ Flat!Target(p) \in Stuff(FilledName) /\ Flat!Target(p).name = Flat!Last(p)
         /\ Flat!Target(p).ino \in Three \ {Root}
<1> DEFINE d == Flat!DirOf(p)
           n == Flat!Last(p)
           k == Flat!Find(d, n)
<1>1. d \in Three /\ n \in FilledName /\ Flat!Has(d, n)
  BY FilledWalk DEF Flat!DirOf, Flat!Resolves
<1>2. k \in 1 .. NDirent * Len(inode[d].blk) /\ Flat!EntryAt(d, k).name = n
  BY <1>1, FilledFind
<1>3. Flat!Target(p) = Flat!EntryAt(d, k)
  BY DEF Flat!Target, Flat!Get
<1> HIDE DEF d, n, k
<1>4. Flat!EntryAt(d, k) \in Stuff(FilledName) /\ Flat!EntryAt(d, k).ino \in Three \ {Root}
  BY <1>1, <1>2, FilledPlace
<1> QED BY <1>1, <1>2, <1>3, <1>4 DEF d, n

(* An entry that is not the first "." is replaced.                          *)
LEMMA FilledWrite ==
  ASSUME NEW r, FilledRoot(r), NEW d \in Three, NEW k \in 1 .. NDirent * Len(inode[d].blk),
         Flat!EntryAt(d, k).name # ".",
         NEW e \in Stuff(FilledName), e.name \in FilledName => e.ino # Root
  PROVE  Begins(Blk, Index, FilledName, Flat!WithEntry(d, k, e), r)
<1> DEFINE b == inode[d].blk[Flat!InBlock(k)]
           x == Flat!AtIndex(k)
<1>1. b \in Blk /\ x \in Index /\ (b # r \/ x # 1)
  BY FilledPlace
<1>2. Begins(Blk, Index, FilledName, data, r)
  BY FilledParts
<1>a. 1 \in Index
  BY FilledDisk DEF Disk
<1>3. Flat!WithEntry(d, k, e) = [data EXCEPT ![b][x] = e]
  BY DEF Flat!WithEntry
<1> HIDE DEF b, x
<1>4. Begins(Blk, Index, FilledName, [data EXCEPT ![b][x] = e], r)
  BY <1>1, <1>2, <1>a, PutEntry
<1> QED BY <1>3, <1>4

(* A name that is looked up is not the first ".".                           *)
LEMMA FilledWriteFound ==
  ASSUME NEW r, FilledRoot(r), NEW d \in Three, NEW n, n \in FilledName \/ n = NoName, Flat!Has(d, n),
         NEW e \in Stuff(FilledName), e.name \in FilledName => e.ino # Root
  PROVE  Begins(Blk, Index, FilledName, Flat!WithEntry(d, Flat!Find(d, n), e), r)
<1>1. n # "."
  BY FilledDisk DEF Disk, NoName
<1>2. Flat!Find(d, n) \in 1 .. NDirent * Len(inode[d].blk) /\ Flat!EntryAt(d, Flat!Find(d, n)).name = n
  BY FilledFind
<1> QED BY <1>1, <1>2, FilledWrite

(* The names by which the provers know the operators of this instance.      *)
LEMMA FilledSame ==
  /\ \A n, i, t : Flat!Dirent(n, i, t) = Dirent(n, i, t)
  /\ \A s, k : Flat!Without(s, k) = Without(s, k)
  /\ Flat!Null = Null /\ Flat!Root = Root
BY DEF Flat!Dirent, Dirent, Flat!Without, Without, Flat!Front, Front, Flat!Last, Last,
       Flat!Null, Null, Flat!Root, Root

(* Cardinality is the same in every instance.                               *)
LEMMA FilledCount == \A M : Flat!Cardinality(M) = Cardinality(M)
BY DEF Flat!Cardinality, Cardinality

(* What is free is not the root's.                                          *)
LEMMA FilledFreeOnes ==
  ASSUME NEW r, FilledRoot(r)
  PROVE  /\ ifree # {} => Flat!FirstFree(ifree) \in Three \ {Root}
         /\ bfree # {} => Flat!FirstFree(bfree) \in bfree /\ Flat!FirstFree(bfree) \in Blk \ {r}
<1>1. ifree \in SUBSET Nat /\ bfree \in SUBSET Nat
  BY FilledFree
<1>2. ifree \subseteq Three \ {Root} /\ bfree \subseteq Blk \ {r}
  BY FilledParts
<1>3. ifree # {} => Flat!FirstFree(ifree) \in ifree
  BY <1>1, FilledFirst
<1>4. bfree # {} => Flat!FirstFree(bfree) \in bfree
  BY <1>1, FilledFirst
<1> QED BY <1>2, <1>3, <1>4

(* A directory that is not full has room for a block.                       *)
LEMMA FilledGrown ==
  ASSUME NEW r, FilledRoot(r), NEW d \in Three, ~Flat!Has(d, NoName), ~Flat!Full(d), NEW b \in Blk \ {r}
  PROVE  Held(Blk, Flat!Grown(d, b), r)
<1>1. Beside(Blk, d, inode[d].blk, r) /\ Len(inode[d].blk) \in Nat /\ Len(inode[d].blk) <= NDirect
  BY FilledNodes
<1>2. Len(inode[d].blk) < NDirect
  <2>1. Len(inode[d].blk) # NDirect
    BY DEF NoName, Flat!Full
  <2>2. NDirect \in Nat
    BY SizeAssumption
  <2> QED BY <1>1, <2>1, <2>2
<1>3. Beside(Blk, d, Append(inode[d].blk, b), r)
  BY <1>1, <1>2, OneMore
<1>4. Held(Blk, inode, r)
  BY FilledParts
<1>5. Held(Blk, [inode EXCEPT ![d].blk = Append(inode[d].blk, b)], r)
  BY <1>3, <1>4, PutBlocks
<1>6. Flat!Grown(d, b) = [inode EXCEPT ![d].blk = Append(inode[d].blk, b)]
  BY DEF Flat!Grown
<1> QED BY <1>5, <1>6

(* A call that is refused, or ends the model.                               *)
LEMMA FilledKeeps ==
  ASSUME NEW r, FilledRoot(r), UNCHANGED <<inode, data, ifree, bfree, opened, stray>>,
         wild' \in BOOLEAN
  PROVE  FilledRootNext(r)
BY DEF FilledRoot, FilledRootNext

(* What a program gets for a new file is not the root, nor is what it takes  *)
(* for it.                                                                  *)
LEMMA FilledHandles ==
  ASSUME NEW r, FilledRoot(r), NEW t \in Three \ {Root}, NEW p, NEW heard \in BOOLEAN,
         Flat!Handle(t, p, heard) \/ Flat!Astray(p)
  PROVE  opened' \cup stray' \subseteq Three \ {Root}
<1>1. opened \cup stray \subseteq Three \ {Root}
  BY FilledParts
<1>2. CASE Flat!Astray(p)
  BY <1>1, <1>2, FilledSame DEF Flat!Astray, Three
<1>3. CASE opened' = opened \cup {t} /\ UNCHANGED stray
  BY <1>1, <1>3
<1> QED BY <1>2, <1>3 DEF Flat!Handle

(* A new file is not the root.                                              *)
LEMMA FilledCreates ==
  ASSUME NEW r, FilledRoot(r), NEW p \in Flat!Path, NEW heard \in BOOLEAN, Flat!Create(p, heard)
  PROVE  FilledRootNext(r)
<1> DEFINE d == Flat!DirOf(p)
           t == Flat!FirstFree(ifree)
           b == Flat!FirstFree(bfree)
           e == Dirent(Flat!Last(p), t, "file")
           node == [type |-> "file", blk |-> << >>]
<1>1. d \in Three /\ Flat!Last(p) \in FilledName
  BY FilledWalk DEF Flat!DirOf
<1>2. /\ r \in Blk /\ Held(Blk, inode, r) /\ Begins(Blk, Index, FilledName, data, r)
      /\ ifree \subseteq Three \ {Root} /\ opened \cup stray \subseteq Three \ {Root}
      /\ bfree \subseteq Blk \ {r} /\ wild \in BOOLEAN
  BY FilledParts
<1>3. CASE ifree = {}
  <2>1. Flat!NoInode(p, heard)
    BY <1>3 DEF Flat!Create
  <2>2. CASE Flat!Refuse("create", p)
    <3>1. UNCHANGED <<inode, data, ifree, bfree, opened, stray, wild>>
      BY <2>2 DEF Flat!Refuse
    <3> QED BY <1>2, <3>1, FilledKeeps
  <2>3. CASE Flat!Astray(p) /\ UNCHANGED <<inode, data, ifree, bfree, wild>>
    <3>1. 1 \in Three \ {Root}
      BY DEF Three, Root
    <3>2. opened' \cup stray' \subseteq Three \ {Root}
      BY <2>3, <3>1, FilledHandles
    <3> QED BY <1>2, <2>3, <3>2 DEF FilledRootNext, RootKept
  <2> QED BY <2>1, <2>2, <2>3 DEF Flat!NoInode
<1>4. CASE ifree # {}
  <2>1. t \in Three \ {Root}
    BY <1>4, FilledFreeOnes
  <2>2. e \in Stuff(FilledName) /\ e.name = Flat!Last(p) /\ e.ino = t
    <3>1. Disk(Blk, Index, FilledName) /\ t \in Three
      BY <2>1, FilledDisk
    <3>2. "file" \in Kind
      BY DEF Kind, File
    <3>3. e \in Stuff(FilledName)
      BY <1>1, <3>1, <3>2, NewStuff
    <3> QED BY <3>3 DEF Dirent
  <2>3. node \in NodeIn(Blk) /\ Beside(Blk, t, node.blk, r) /\ t # Root
    BY <2>1, NewNodeIn
  <2>4. Held(Blk, [inode EXCEPT ![t] = node], r)
    BY <1>2, <2>1, <2>3, PutNode
  <2>5. Flat!Dirent(Flat!Last(p), t, "file") = e /\ Flat!Inode("file", << >>) = node
    BY FilledSame DEF Flat!Inode
  <2>6. Flat!CreateFile(d, p, heard)
    BY <1>4 DEF Flat!Create
  <2>d. ifree \ {t} \subseteq Three \ {Root}
    BY <1>2
  <2>e. Flat!Handle(t, p, heard) => opened' \cup stray' \subseteq Three \ {Root}
    BY <2>1, FilledHandles
  <2> HIDE DEF d, e, node
  <2>7. CASE /\ Flat!Has(d, NoName) /\ data' = Flat!WithEntry(d, Flat!Find(d, NoName), e)
             /\ inode' = [inode EXCEPT ![t] = node] /\ ifree' = ifree \ {t}
             /\ opened' \cup stray' \subseteq Three \ {Root} /\ UNCHANGED <<bfree, wild>>
    <3>1. Begins(Blk, Index, FilledName, data', r)
      BY <1>1, <2>1, <2>2, <2>7, FilledWriteFound
    <3> HIDE DEF t
    <3> QED BY <1>2, <2>4, <2>7, <2>d, <3>1 DEF FilledRootNext, RootKept
  <2>8. CASE /\ ~Flat!Has(d, NoName) /\ ~Flat!Full(d) /\ bfree # {}
             /\ inode' = [Flat!Grown(d, b) EXCEPT ![t] = node]
             /\ data' = [data EXCEPT ![b][1] = e]
             /\ ifree' = ifree \ {t} /\ bfree' = bfree \ {b}
             /\ opened' \cup stray' \subseteq Three \ {Root} /\ UNCHANGED wild
    <3>1. b \in Blk \ {r}
      BY <2>8, FilledFreeOnes
    <3> HIDE DEF b, t
    <3>2. Held(Blk, Flat!Grown(d, b), r)
      BY <1>1, <2>8, <3>1, FilledGrown
    <3>3. Held(Blk, inode', r)
      BY <2>1, <2>3, <2>8, <3>2, PutNode
    <3>4. 1 \in Index
      BY FilledDisk DEF Disk
    <3>5. Begins(Blk, Index, FilledName, data', r)
      BY <1>2, <2>1, <2>2, <2>8, <3>1, <3>4, PutEntry
    <3> QED BY <1>2, <2>8, <2>d, <3>3, <3>5 DEF FilledRootNext, RootKept
  <2>9. CASE wild' = TRUE /\ UNCHANGED <<inode, data, ifree, bfree, opened, stray>>
    BY <2>9, FilledKeeps
  <2>10. CASE /\ inode' = [inode EXCEPT ![t] = node] /\ opened' \cup stray' \subseteq Three \ {Root}
              /\ UNCHANGED <<data, ifree, bfree, wild>>
    <3> HIDE DEF t
    <3> QED BY <1>2, <2>4, <2>10, <2>d DEF FilledRootNext, RootKept
  <2> HIDE DEF t, b
  <2>11. \/ /\ Flat!Has(d, NoName) /\ data' = Flat!WithEntry(d, Flat!Find(d, NoName), e)
            /\ inode' = [inode EXCEPT ![t] = node] /\ ifree' = ifree \ {t}
            /\ opened' \cup stray' \subseteq Three \ {Root} /\ UNCHANGED <<bfree, wild>>
         \/ /\ ~Flat!Has(d, NoName) /\ ~Flat!Full(d) /\ bfree # {}
            /\ inode' = [Flat!Grown(d, b) EXCEPT ![t] = node]
            /\ data' = [data EXCEPT ![b][1] = e]
            /\ ifree' = ifree \ {t} /\ bfree' = bfree \ {b}
            /\ opened' \cup stray' \subseteq Three \ {Root} /\ UNCHANGED wild
         \/ wild' = TRUE /\ UNCHANGED <<inode, data, ifree, bfree, opened, stray>>
         \/ /\ inode' = [inode EXCEPT ![t] = node] /\ opened' \cup stray' \subseteq Three \ {Root}
            /\ UNCHANGED <<data, ifree, bfree, wild>>
    BY <2>5, <2>6, <2>e DEF NoName, Flat!CreateFile, Flat!GoWild, t, b
  <2> QED BY <2>7, <2>8, <2>9, <2>10, <2>11
<1> QED BY <1>3, <1>4

(* A new directory.                                                         *)
LEMMA FilledMakes ==
  ASSUME NEW r, FilledRoot(r), NEW d \in Three, NEW p, Flat!Last(p) \in FilledName,
         NEW heard \in BOOLEAN, Flat!MakeDirentry(d, p, heard)
  PROVE  FilledRootNext(r)
<1> DEFINE t == Flat!FirstFree(ifree)
           b == Flat!FirstFree(bfree)
           c == Flat!FirstFree(bfree \ {b})
           e == Dirent(Flat!Last(p), t, "dir")
           DirWith(h) == [type |-> "dir", blk |-> <<h>>]
           Dotted(ents) == [ents EXCEPT ![1] = Dirent(".", t, "dir"), ![2] = Dirent("..", d, "dir")]
<1>2. /\ r \in Blk /\ Held(Blk, inode, r) /\ Begins(Blk, Index, FilledName, data, r)
      /\ ifree \subseteq Three \ {Root} /\ opened \cup stray \subseteq Three \ {Root}
      /\ bfree \subseteq Blk \ {r} /\ wild \in BOOLEAN
  BY FilledParts
<1>3. Disk(Blk, Index, FilledName) /\ 1 \in Index
  BY FilledDisk DEF Disk
<1>k. "dir" \in Kind /\ "dir" = Dir
  BY DEF Kind, Dir
<1>4. ASSUME ifree # {}
      PROVE  /\ t \in Three \ {Root} /\ e \in Stuff(FilledName) /\ e.ino = t
             /\ \A h \in Blk \ {r} : DirWith(h) \in NodeIn(Blk) /\ Beside(Blk, t, DirWith(h).blk, r)
             /\ \A ents : Plain(Index, FilledName, ents) => Plain(Index, FilledName, Dotted(ents))
             /\ ifree \ {t} \subseteq Three \ {Root}
  <2>1. t \in Three \ {Root}
    BY <1>4, FilledFreeOnes
  <2> HIDE DEF t
  <2>2. e \in Stuff(FilledName)
    BY <1>3, <1>k, <2>1, NewStuff
  <2>3. e.ino = t
    BY DEF Dirent
  <2>4. \A h \in Blk \ {r} : DirWith(h) \in NodeIn(Blk) /\ Beside(Blk, t, DirWith(h).blk, r)
    BY <2>1, NewNodeIn
  <2>5. ASSUME NEW ents, Plain(Index, FilledName, ents) PROVE Plain(Index, FilledName, Dotted(ents))
    BY <1>3, <2>1, <2>5, DotsPlain
  <2> QED BY <1>2, <2>1, <2>2, <2>3, <2>4, <2>5
<1>5. bfree # {} => b \in bfree /\ b \in Blk \ {r}
  BY FilledFreeOnes
<1>6. \A ents : Flat!Dots(ents, t, d) = Dotted(ents)
  BY FilledSame DEF Flat!Dots
<1>7. Flat!Dirent(Flat!Last(p), t, "dir") = e /\ \A h : Flat!Inode("dir", <<h>>) = DirWith(h)
  BY FilledSame DEF Flat!Inode
<1> HIDE DEF e, DirWith, Dotted
<1>8. CASE /\ UNCHANGED <<inode, data, ifree, bfree, opened, stray>> /\ wild' \in BOOLEAN
  BY <1>8, FilledKeeps
<1>9. CASE /\ Flat!Has(d, NoName) /\ ifree # {} /\ bfree # {}
           /\ data' = [Flat!WithEntry(d, Flat!Find(d, NoName), e) EXCEPT ![b] = Dotted(data[b])]
           /\ inode' = [inode EXCEPT ![t] = DirWith(b)]
           /\ ifree' = ifree \ {t} /\ bfree' = bfree \ {b} /\ UNCHANGED <<opened, stray, wild>>
  <2>1. Begins(Blk, Index, FilledName, Flat!WithEntry(d, Flat!Find(d, NoName), e), r)
    BY <1>4, <1>9, FilledWriteFound
  <2> DEFINE with == Flat!WithEntry(d, Flat!Find(d, NoName), e)
  <2> HIDE DEF with, t, b
  <2>2. Plain(Index, FilledName, Dotted(data[b]))
    BY <1>2, <1>4, <1>5, <1>9 DEF Begins
  <2>3. Begins(Blk, Index, FilledName, [with EXCEPT ![b] = Dotted(data[b])], r)
    <3>1. Begins(Blk, Index, FilledName, with, r)
      BY <2>1 DEF with
    <3> QED BY <1>3, <1>5, <1>9, <2>2, <3>1, PutBlock
  <2>4. Held(Blk, inode', r)
    <3>1. t \in Three /\ t # Root /\ DirWith(b) \in NodeIn(Blk)
          /\ Beside(Blk, t, DirWith(b).blk, r)
      BY <1>4, <1>5, <1>9
    <3> QED BY <1>2, <1>9, <3>1, PutNode
  <2>5. Begins(Blk, Index, FilledName, data', r)
    BY <1>9, <2>3 DEF with
  <2> QED BY <1>2, <1>4, <1>9, <2>4, <2>5 DEF FilledRootNext, RootKept
<1>10. CASE /\ ~Flat!Has(d, NoName) /\ ~Flat!Full(d) /\ bfree # {}
            /\ inode' = Flat!Grown(d, b) /\ bfree' = bfree \ {b}
            /\ UNCHANGED <<data, ifree, opened, stray, wild>>
  <2>1. Held(Blk, inode', r)
    BY <1>5, <1>10, FilledGrown
  <2> HIDE DEF b
  <2> QED BY <1>2, <1>10, <2>1 DEF FilledRootNext, RootKept
<1>11. CASE /\ ~Flat!Has(d, NoName) /\ ~Flat!Full(d) /\ ifree # {} /\ Cardinality(bfree) > 1
            /\ data' = [data EXCEPT ![b][1] = e, ![c] = Dotted(Flat!Empty)]
            /\ inode' = [Flat!Grown(d, b) EXCEPT ![t] = DirWith(c)]
            /\ ifree' = ifree \ {t} /\ bfree' = bfree \ {b, c} /\ UNCHANGED <<opened, stray, wild>>
  <2>1. bfree # {} /\ bfree \ {b} # {}
    <3>1. bfree # {}
      <4>1. Cardinality({}) = 0
        BY FS_EmptySet
      <4> QED BY <1>11, <4>1
    <3>2. ASSUME bfree \ {b} = {} PROVE FALSE
      <4>1. bfree = {b}
        BY <1>5, <3>1, <3>2
      <4>2. Cardinality({b}) = 1
        BY FS_Singleton
      <4>3. Cardinality(bfree) = 1
        BY <4>1, <4>2
      <4> QED BY <1>11, <4>3
    <3> QED BY <3>1, <3>2
  <2>2. c \in Blk \ {r} /\ b \in Blk \ {r}
    <3>1. bfree \ {b} \in SUBSET Nat
      BY FilledFree
    <3>2. c \in bfree \ {b}
      BY <2>1, <3>1, FilledFirst
    <3> QED BY <1>2, <1>5, <2>1, <3>2
  <2>3. Held(Blk, Flat!Grown(d, b), r)
    BY <1>11, <2>2, FilledGrown
  <2>4. Plain(Index, FilledName, Flat!Empty)
    <3>1. Flat!Empty = [k \in Index |-> Null]
      BY FilledDisk, FilledSame DEF Flat!Empty
    <3>a. 0 \in Three
      BY DEF Three
    <3>b. "file" \in Kind
      BY DEF Kind, File
    <3>2. Null \in Stuff(FilledName) /\ Null.name \notin FilledName
      BY <1>3, <3>a, <3>b, NewStuff DEF Null, Dirent
    <3> QED BY <3>1, <3>2, SamePlain
  <2> HIDE DEF t, b, c
  <2>5. Held(Blk, inode', r)
    <3>1. t \in Three /\ t # Root /\ DirWith(c) \in NodeIn(Blk) /\ Beside(Blk, t, DirWith(c).blk, r)
      BY <1>4, <1>11, <2>2
    <3> QED BY <1>11, <2>3, <3>1, PutNode
  <2>6. Begins(Blk, Index, FilledName, [data EXCEPT ![b][1] = e], r)
    BY <1>2, <1>3, <1>4, <1>11, <2>2, PutEntry
  <2>7. Begins(Blk, Index, FilledName, data', r)
    <3> DEFINE one == [data EXCEPT ![b][1] = e]
    <3>1. data' = [one EXCEPT ![c] = Dotted(Flat!Empty)]
      BY <1>11
    <3>2. Plain(Index, FilledName, Dotted(Flat!Empty))
      BY <1>4, <1>11, <2>4
    <3>3. Begins(Blk, Index, FilledName, one, r)
      BY <2>6
    <3> HIDE DEF one
    <3> QED BY <1>3, <2>2, <3>1, <3>2, <3>3, PutBlock
  <2> QED BY <1>2, <1>4, <1>11, <2>5, <2>7 DEF FilledRootNext, RootKept
<1>w. wild \in BOOLEAN /\ TRUE \in BOOLEAN
  BY <1>2
<1>n. Flat!Cardinality(bfree) = Cardinality(bfree)
  BY FilledCount
<1> HIDE DEF t, b, c
<1>12. \/ /\ UNCHANGED <<inode, data, ifree, bfree, opened, stray>> /\ wild' \in BOOLEAN
       \/ /\ Flat!Has(d, NoName) /\ ifree # {} /\ bfree # {}
          /\ data' = [Flat!WithEntry(d, Flat!Find(d, NoName), e) EXCEPT ![b] = Dotted(data[b])]
          /\ inode' = [inode EXCEPT ![t] = DirWith(b)]
          /\ ifree' = ifree \ {t} /\ bfree' = bfree \ {b} /\ UNCHANGED <<opened, stray, wild>>
       \/ /\ ~Flat!Has(d, NoName) /\ ~Flat!Full(d) /\ bfree # {}
          /\ inode' = Flat!Grown(d, b) /\ bfree' = bfree \ {b}
          /\ UNCHANGED <<data, ifree, opened, stray, wild>>
       \/ /\ ~Flat!Has(d, NoName) /\ ~Flat!Full(d) /\ ifree # {} /\ Cardinality(bfree) > 1
          /\ data' = [data EXCEPT ![b][1] = e, ![c] = Dotted(Flat!Empty)]
          /\ inode' = [Flat!Grown(d, b) EXCEPT ![t] = DirWith(c)]
          /\ ifree' = ifree \ {t} /\ bfree' = bfree \ {b, c} /\ UNCHANGED <<opened, stray, wild>>
  BY <1>6, <1>7, <1>n, <1>w DEF NoName, Flat!MakeDirentry, Flat!GoWild, Flat!Refuse, t, b, c
<1> QED BY <1>8, <1>9, <1>10, <1>11, <1>12

(* The blocks of another inode than the root.                               *)
LEMMA FilledBlocks ==
  ASSUME NEW r, FilledRoot(r), NEW i \in Three \ {Root}
  PROVE  Flat!Blocks(i) \subseteq Blk \ {r}
<1>1. Beside(Blk, i, inode[i].blk, r) /\ i # Root
  BY FilledNodes
<1>2. {inode[i].blk[k] : k \in DOMAIN inode[i].blk} \subseteq Blk \ {r}
  BY <1>1, OthersBlocks
<1> QED BY <1>2 DEF Flat!Blocks, Flat!Range

(* A directory that is removed is not the root.                             *)
LEMMA FilledRemoves ==
  ASSUME NEW r, FilledRoot(r), NEW d \in Three, NEW p, Flat!Last(p) \in FilledName, Flat!RemoveDirentry(d, p)
  PROVE  FilledRootNext(r)
<1> DEFINE T(e) == e.name = Flat!Last(p) /\ e.type = "dir" /\ Flat!DirIsEmpty(e.ino)
           z == NDirent * Len(inode[d].blk)
           k == Flat!SelectInSeq(Flat!Entries(d), T)
           t == Flat!Entries(d)[k].ino
<1>2. /\ r \in Blk /\ Held(Blk, inode, r) /\ Begins(Blk, Index, FilledName, data, r)
      /\ ifree \subseteq Three \ {Root} /\ opened \cup stray \subseteq Three \ {Root}
      /\ bfree \subseteq Blk \ {r} /\ wild \in BOOLEAN
  BY FilledParts
<1>3. CASE k = 0
  <2>1. UNCHANGED <<inode, data, ifree, bfree, opened, stray, wild>>
    BY <1>3 DEF Flat!RemoveDirentry, Flat!Refuse
  <2> QED BY <2>1, <1>2, FilledKeeps
<1>4. CASE k # 0
  <2>1. z \in Nat
    <3>1. Len(inode[d].blk) \in Nat /\ NDirent \in Nat
      BY FilledNodes, FilledDisk
    <3> QED BY <3>1
  <2>2. Len(Flat!Entries(d)) = z /\ \A m \in 1 .. z : Flat!Entries(d)[m] = Flat!EntryAt(d, m)
    <3>1. Flat!Entries(d) = [m \in 1 .. z |-> Flat!EntryAt(d, m)]
      BY DEF Flat!Entries
    <3> HIDE DEF z
    <3> QED BY <2>1, <3>1
  <2> DEFINE hits == {m \in 1 .. Len(Flat!Entries(d)) : T(Flat!Entries(d)[m])}
  <2>3. k = IF hits = {} THEN 0 ELSE Flat!Min(hits)
    BY DEF Flat!SelectInSeq
  <2> HIDE DEF k, z, T
  <2>4. hits \in SUBSET Nat /\ hits # {}
    BY <1>4, <2>1, <2>2, <2>3
  <2>5. Flat!Min(hits) \in hits
    <3> HIDE DEF hits
    <3> QED BY <2>4, First DEF Flat!Min
  <2>6. k \in 1 .. z /\ T(Flat!EntryAt(d, k))
    BY <2>2, <2>3, <2>4, <2>5
  <2>7. k \in 1 .. NDirent * Len(inode[d].blk) /\ Flat!EntryAt(d, k).name = Flat!Last(p)
    BY <2>6 DEF z, T
  <2>8. Flat!EntryAt(d, k).ino \in Three \ {Root}
    BY <2>7, FilledPlace
  <2>9. t \in Three \ {Root}
    BY <2>2, <2>6, <2>8
  <2>10. Flat!EntryAt(d, k).name # "."
    BY <2>7, FilledDisk DEF Disk
  <2>a. 0 \in Three
    BY DEF Three
  <2>b. "file" \in Kind
    BY DEF Kind, File
  <2>11. Null \in Stuff(FilledName) /\ Null.name \notin FilledName
    BY FilledDisk, <2>a, <2>b, NewStuff DEF Null, Dirent
  <2> DEFINE with == Flat!WithEntry(d, k, Null)
  <2>12. Begins(Blk, Index, FilledName, with, r)
    BY <2>7, <2>10, <2>11, FilledWrite
  <2>13. Plain(Index, FilledName, Flat!Empty)
    <3>1. Flat!Empty = [m \in Index |-> Null]
      BY FilledDisk, FilledSame DEF Flat!Empty
    <3> QED BY <2>11, <3>1, SamePlain
  <2>14. Flat!Blocks(t) \subseteq Blk \ {r}
    BY <2>9, FilledBlocks
  <2> DEFINE node == [type |-> "file", blk |-> << >>]
  <2>15. /\ data' = [b \in Blk |-> IF b \in Flat!Blocks(t) THEN Flat!Empty ELSE with[b]]
         /\ bfree' = bfree \cup Flat!Blocks(t)
         /\ inode' = [inode EXCEPT ![t] = node]
         /\ ifree' = ifree \cup {t} /\ UNCHANGED <<opened, stray, wild>>
    BY <1>4, FilledSame DEF Flat!RemoveDirentry, Flat!Inode, k, T
  <2> HIDE DEF t, with
  <2>16. Begins(Blk, Index, FilledName, data', r)
    <3> DEFINE F == Flat!Blocks(t)
    <3>1. r \notin F /\ data' = [b \in Blk |-> IF b \in F THEN Flat!Empty ELSE with[b]]
      BY <2>14, <2>15
    <3> HIDE DEF F
    <3> QED BY <1>2, <2>12, <2>13, <3>1, PutMany
  <2>17. node \in NodeIn(Blk) /\ Beside(Blk, t, node.blk, r) /\ t # Root
    BY <2>9, NewNodeIn
  <2>18. Held(Blk, inode', r)
    <3> HIDE DEF node
    <3> QED BY <1>2, <2>9, <2>15, <2>17, PutNode
  <2> QED BY <1>2, <2>9, <2>14, <2>15, <2>16, <2>18 DEF FilledRootNext, RootKept
<1> QED BY <1>3, <1>4

(* A file that is unlinked is not the root, and its name is not in the      *)
(* first entry of the root.                                                 *)
LEMMA FilledUnlinks ==
  ASSUME NEW r, FilledRoot(r), NEW p \in Flat!Path, NEW heard \in BOOLEAN, Flat!Unlink(p, heard)
  PROVE  FilledRootNext(r)
<1> DEFINE d == Flat!DirOf(p)
           n == Flat!Last(p)
           f == Flat!Find(d, n)
           k == Flat!InBlock(f)
           b == inode[d].blk[k]
           x == Flat!AtIndex(f)
           l == Flat!SelectLastInSeq(data[b], LAMBDA e : e.name = n)
           t == data[b][l].ino
<1>1. d \in Three /\ n \in FilledName /\ Flat!Has(d, n)
  BY FilledTarget DEF Flat!Unlink
<1>2. /\ r \in Blk /\ Held(Blk, inode, r) /\ Begins(Blk, Index, FilledName, data, r)
      /\ ifree \subseteq Three \ {Root} /\ opened \cup stray \subseteq Three \ {Root}
      /\ bfree \subseteq Blk \ {r} /\ wild \in BOOLEAN
  BY FilledParts
<1>3. f \in 1 .. NDirent * Len(inode[d].blk) /\ Flat!EntryAt(d, f).name = n
  BY <1>1, FilledFind
<1> HIDE DEF d, n, f
<1>4. /\ k \in 1 .. Len(inode[d].blk) /\ b \in Blk /\ x \in Index /\ data[b][x].name = n
  BY <1>1, <1>3, FilledPlace
<1> HIDE DEF k, x
<1>5. data[b] \in [Index -> Stuff(FilledName)] /\ Plain(Index, FilledName, data[b])
  BY <1>2, <1>4 DEF Begins
<1>6. Index = 1 .. NDirent /\ NDirent \in Nat /\ 1 \in Index
  BY FilledDisk DEF Disk
<1>7. l \in Index /\ data[b][l].name = n
  <2> DEFINE s == data[b]
             hits == {m \in 1 .. Len(s) : s[m].name = n}
  <2>1. Len(s) = NDirent
    BY <1>5, <1>6
  <2>2. l = IF hits = {} THEN 0 ELSE Flat!Max(hits)
    BY DEF Flat!SelectLastInSeq
  <2> HIDE DEF l, s
  <2>3. x \in hits /\ hits \in SUBSET (1 .. NDirent)
    BY <1>4, <1>6, <2>1 DEF s
  <2>4. Flat!Max(hits) \in hits
    <3> HIDE DEF hits
    <3>1. \E h \in hits : \A c \in hits : h >= c
      BY <1>6, <2>3, Latest
    <3> QED BY <3>1 DEF Flat!Max
  <2>5. l \in hits
    BY <2>2, <2>3, <2>4
  <2> QED BY <1>6, <2>1, <2>5 DEF s
<1> HIDE DEF l
<1>8. t \in Three \ {Root}
  <2>1. data[b][l] \in Stuff(FilledName) /\ data[b][l].ino # Root
    BY <1>1, <1>5, <1>7 DEF Plain
  <2> QED BY <2>1 DEF Stuff
<1>9. Flat!Blocks(t) \subseteq Blk \ {r}
  BY <1>8, FilledBlocks
<1> DEFINE cleared == Flat!Cleared(b, n)
           new == [m \in Index |-> IF data[b][m].name = n THEN Null ELSE data[b][m]]
<1>10. cleared = new
  BY <1>6, FilledSame DEF Flat!Cleared
<1>11. Plain(Index, FilledName, new) /\ (data[b][1] = RootDot => new[1] = RootDot)
  BY <1>1, <1>5, FilledDisk, ClearPlain
<1> HIDE DEF new, cleared
<1>12. Plain(Index, FilledName, cleared) /\ (b = r => cleared[1] = RootDot)
  BY <1>2, <1>10, <1>11 DEF Begins
<1>13. Begins(Blk, Index, FilledName, [data EXCEPT ![b] = cleared], r)
  BY <1>2, <1>4, <1>6, <1>12, PutBlock
<1> DEFINE empty == \A j \in 1 .. NDirent : cleared[j].name = NoName
<1>14. /\ ifree' = ifree \cup {t}
       /\ IF empty
            THEN /\ bfree' = bfree \cup {b} \cup Flat!Blocks(t)
                 /\ inode' = [inode EXCEPT ![d].blk = Without(inode[d].blk, k)]
                 /\ data' = [data EXCEPT ![b] = cleared] \/ data' = data
            ELSE /\ bfree' = bfree \cup Flat!Blocks(t)
                 /\ data' = [data EXCEPT ![b] = cleared]
                 /\ UNCHANGED inode
       /\ UNCHANGED <<opened, stray, wild>>
  BY FilledSame DEF Flat!Unlink, NoName, cleared, l, d, n, f, k
<1>15. Begins(Blk, Index, FilledName, data', r)
  BY <1>2, <1>13, <1>14
<1> HIDE DEF t
<1>16. ifree' \subseteq Three \ {Root}
  BY <1>2, <1>8, <1>14
<1>17. CASE empty
  <2>1. b # r
    <3>1. cleared[1].name = NoName
      BY <1>6, <1>17
    <3>2. RootDot.name # NoName
      BY NameFacts DEF RootDot, Dirent, Self
    <3> QED BY <1>12, <3>1, <3>2
  <2>2. Beside(Blk, d, inode[d].blk, r)
    BY <1>1, FilledNodes
  <2>3. Beside(Blk, d, Without(inode[d].blk, k), r)
    BY <1>4, <2>1, <2>2, OneLess
  <2>4. Held(Blk, inode', r)
    <3>1. inode' = [inode EXCEPT ![d].blk = Without(inode[d].blk, k)]
      BY <1>14, <1>17
    <3> QED BY <1>1, <1>2, <2>3, <3>1, PutBlocks
  <2>5. bfree' \subseteq Blk \ {r}
    <3>1. bfree' = bfree \cup {b} \cup Flat!Blocks(t)
      BY <1>14, <1>17
    <3> QED BY <1>2, <1>4, <1>9, <2>1, <3>1
  <2> QED BY <1>2, <1>14, <1>15, <1>16, <2>4, <2>5 DEF FilledRootNext, RootKept
<1>18. CASE ~empty
  <2>1. bfree' = bfree \cup Flat!Blocks(t) /\ inode' = inode
    BY <1>14, <1>18
  <2>2. bfree' \subseteq Blk \ {r}
    BY <1>2, <1>9, <2>1
  <2> QED BY <1>2, <1>14, <1>15, <1>16, <2>1, <2>2 DEF FilledRootNext, RootKept
<1> QED BY <1>17, <1>18

(* An open file is not the root.                                            *)
LEMMA FilledOpens ==
  ASSUME NEW r, FilledRoot(r), \/ \E p \in Flat!Path : Flat!Open(p)
                           \/ \E i \in Three : Flat!Release(i)
  PROVE  FilledRootNext(r)
<1>2. /\ r \in Blk /\ Held(Blk, inode, r) /\ Begins(Blk, Index, FilledName, data, r)
      /\ ifree \subseteq Three \ {Root} /\ opened \cup stray \subseteq Three \ {Root}
      /\ bfree \subseteq Blk \ {r} /\ wild \in BOOLEAN
  BY FilledParts
<1>3. ASSUME NEW p \in Flat!Path, Flat!Open(p)
      PROVE  opened' \cup stray' \subseteq Three \ {Root} /\ UNCHANGED <<inode, data, ifree, bfree, wild>>
  <2>1. Flat!Target(p).ino \in Three \ {Root}
    BY <1>3, FilledTarget DEF Flat!Open
  <2> QED BY <1>2, <1>3, <2>1 DEF Flat!Open
<1>4. ASSUME NEW i \in Three, Flat!Release(i)
      PROVE  opened' \cup stray' \subseteq Three \ {Root} /\ UNCHANGED <<inode, data, ifree, bfree, wild>>
  BY <1>2, <1>4 DEF Flat!Release
<1>5. opened' \cup stray' \subseteq Three \ {Root} /\ UNCHANGED <<inode, data, ifree, bfree, wild>>
  BY <1>3, <1>4
<1> QED BY <1>2, <1>5 DEF FilledRootNext, RootKept

(* Blocks of nothing but entries without a name of a program.               *)
LEMMA FilledBlank == Plain(Index, FilledName, Flat!Garbage) /\ Plain(Index, FilledName, Flat!Empty)
<1>1. /\ Flat!Empty = [m \in Index |-> Dirent("", 0, "file")]
      /\ Flat!Garbage = [m \in Index |-> Dirent("junk", 0, "file")]
  BY FilledDisk, FilledSame DEF Flat!Empty, Flat!Garbage, Null
<1>a. 0 \in Three
  BY DEF Three
<1>b. "file" \in Kind
  BY DEF Kind, File
<1>2. Dirent("", 0, "file") \in Stuff(FilledName) /\ Dirent("", 0, "file").name \notin FilledName
  BY FilledDisk, <1>a, <1>b, NewStuff DEF Dirent
<1>3. Dirent("junk", 0, "file") \in Stuff(FilledName) /\ Dirent("junk", 0, "file").name \notin FilledName
  BY FilledDisk, <1>a, <1>b, NewStuff DEF Dirent
<1> QED BY <1>1, <1>2, <1>3, SamePlain

(* A file that grows is not the root, and its new block was free.           *)
LEMMA FilledGrows ==
  ASSUME NEW r, FilledRoot(r), NEW i \in Three, NEW heard \in BOOLEAN, Flat!Grow(i, heard)
  PROVE  FilledRootNext(r)
<1> DEFINE b == Flat!FirstFree(bfree)
<1>2. /\ r \in Blk /\ Held(Blk, inode, r) /\ Begins(Blk, Index, FilledName, data, r)
      /\ ifree \subseteq Three \ {Root} /\ opened \cup stray \subseteq Three \ {Root}
      /\ bfree \subseteq Blk \ {r} /\ wild \in BOOLEAN
  BY FilledParts
<1>3. CASE bfree = {}
  <2>1. UNCHANGED <<inode, data, ifree, bfree, opened, stray, wild>>
    BY <1>3 DEF Flat!Grow
  <2> QED BY <2>1, <1>2, FilledKeeps
<1>4. CASE bfree # {}
  <2>1. b \in Blk \ {r}
    BY <1>4, FilledFreeOnes
  <2>2. /\ inode' = [inode EXCEPT ![i].blk = Append(inode[i].blk, b)]
        /\ data' = [data EXCEPT ![b] = Flat!Garbage] \/ data' = [data EXCEPT ![b] = Flat!Empty]
        /\ bfree' = bfree \ {b} /\ UNCHANGED <<ifree, opened, stray, wild>>
        /\ Len(inode[i].blk) < NDirect
    BY <1>4 DEF Flat!Grow, Flat!Payload
  <2> HIDE DEF b
  <2>3. Beside(Blk, i, Append(inode[i].blk, b), r)
    <3>1. Beside(Blk, i, inode[i].blk, r)
      BY FilledNodes
    <3> QED BY <2>1, <2>2, <3>1, OneMore
  <2>4. Held(Blk, inode', r)
    BY <1>2, <2>2, <2>3, PutBlocks
  <2>5. Plain(Index, FilledName, Flat!Garbage) /\ Plain(Index, FilledName, Flat!Empty)
    BY FilledBlank
  <2>a. 1 \in Index
    BY FilledDisk DEF Disk
  <2>6. Begins(Blk, Index, FilledName, data', r)
    <3>1. PICK d : data' = [data EXCEPT ![b] = d] /\ Plain(Index, FilledName, d)
      BY <2>2, <2>5
    <3>2. Begins(Blk, Index, FilledName, [data EXCEPT ![b] = d], r)
      BY <1>2, <2>1, <2>a, <3>1, PutBlock
    <3> QED BY <3>1, <3>2
  <2> QED BY <1>2, <2>2, <2>4, <2>6 DEF FilledRootNext, RootKept
<1> QED BY <1>3, <1>4

(* A block of another inode is written over.                                *)
LEMMA FilledOverwrites ==
  ASSUME NEW r, FilledRoot(r), NEW i \in Three, NEW heard \in BOOLEAN, Flat!WriteOver(i, heard)
  PROVE  FilledRootNext(r)
<1>1. /\ r \in Blk /\ Held(Blk, inode, r) /\ Begins(Blk, Index, FilledName, data, r)
      /\ ifree \subseteq Three \ {Root} /\ opened \cup stray \subseteq Three \ {Root}
      /\ bfree \subseteq Blk \ {r} /\ wild \in BOOLEAN
  BY FilledParts
<1>2. PICK b \in Flat!Blocks(i) : data' = [data EXCEPT ![b] = Flat!Payload]
  BY DEF Flat!WriteOver
<1>3. i \in Three \ {Root} /\ UNCHANGED <<inode, ifree, bfree, opened, stray, wild>>
  BY <1>1 DEF Flat!WriteOver
<1>4. b \in Blk \ {r}
  BY <1>2, <1>3, FilledBlocks
<1>5. Plain(Index, FilledName, Flat!Payload)
  BY FilledBlank DEF Flat!Payload
<1>6. 1 \in Index
  BY FilledDisk DEF Disk
<1>7. Begins(Blk, Index, FilledName, data', r)
  BY <1>1, <1>2, <1>4, <1>5, <1>6, PutBlock
<1> QED BY <1>1, <1>3, <1>7 DEF FilledRootNext, RootKept

(* The formatted disk has a root.                                           *)
LEMMA FilledStarts ==
  ASSUME Flat!Init
  PROVE  \E r : FilledRoot(r)
<1> DEFINE r == Flat!FirstFree(Blk)
           start == [type |-> "dir", blk |-> <<r>>]
           other == [type |-> "file", blk |-> << >>]
<1>1. r \in Blk
  <2>1. Blk \in SUBSET Nat /\ Blk # {}
    BY FilledDisk, BlkAssumption
  <2> QED BY <2>1, FilledFirst
<1>2. /\ inode = [i \in Three |-> IF i = Root THEN start ELSE other]
      /\ data = [c \in Blk |-> IF c = r THEN Flat!Dots(Flat!Empty, Root, Root) ELSE Flat!Empty]
      /\ ifree = Three \ {Root} /\ bfree = Blk \ {r} /\ opened \cup stray = {} /\ wild = FALSE
  BY FilledSame DEF Flat!Init, Flat!Inode, Three
<1> HIDE DEF r
<1>a. 0 \in Three /\ Root \in Three
  BY DEF Three, Root
<1>b. "file" \in Kind /\ "dir" \in Kind
  BY DEF Kind, File, Dir
<1>3. Plain(Index, FilledName, Flat!Empty)
  <2>1. Flat!Empty = [m \in Index |-> Null]
    BY FilledDisk, FilledSame DEF Flat!Empty
  <2>2. Null \in Stuff(FilledName) /\ Null.name \notin FilledName
    BY FilledDisk, <1>a, <1>b, NewStuff DEF Null, Dirent
  <2> QED BY <2>1, <2>2, SamePlain
<1> DEFINE dots == [Flat!Empty EXCEPT ![1] = Dirent(".", Root, "dir"), ![2] = Dirent("..", Root, "dir")]
<1>4. Flat!Dots(Flat!Empty, Root, Root) = dots
  BY FilledSame DEF Flat!Dots
<1>5. Plain(Index, FilledName, dots)
  BY FilledDisk, <1>3, <1>a, DotsPlain
<1>6. dots[1] = RootDot
  <2> DEFINE E == Flat!Empty
             f == Dirent("..", Root, "dir")
  <2>1. E \in [Index -> Stuff(FilledName)]
    BY <1>3 DEF Plain
  <2>a. 1 \in Index
    BY FilledDisk DEF Disk
  <2>2. dots = [E EXCEPT ![1] = RootDot, ![2] = f]
    BY DEF RootDot
  <2> HIDE DEF E, f, dots
  <2> QED BY <2>1, <2>a, <2>2
<1> HIDE DEF dots
<1>7. Begins(Blk, Index, FilledName, data, r)
  <2>1. \A c \in Blk : data[c] = IF c = r THEN dots ELSE Flat!Empty
    BY <1>2, <1>4
  <2>2. \A c \in Blk : Plain(Index, FilledName, data[c])
    BY <1>3, <1>5, <2>1
  <2>3. data \in [Blk -> [Index -> Stuff(FilledName)]]
    <3>1. data = [c \in Blk |-> data[c]]
      BY <1>2
    <3>2. \A c \in Blk : data[c] \in [Index -> Stuff(FilledName)]
      BY <2>2 DEF Plain
    <3> QED BY <3>1, <3>2
  <2> QED BY <1>1, <1>6, <2>1, <2>2, <2>3 DEF Begins
<1>8. start \in NodeIn(Blk) /\ Beside(Blk, Root, start.blk, r) /\ start.type = Dir
  <2>1. <<r>> \in Seq(Blk) /\ Len(<<r>>) = 1 /\ <<r>>[1] = r /\ 1 <= NDirect /\ 1 > 0
    BY <1>1, SizeAssumption
  <2>2. start.type = "dir" /\ start.blk = <<r>>
    OBVIOUS
  <2>3. Beside(Blk, Root, start.blk, r)
    BY <2>1, <2>2 DEF Beside
  <2> QED BY <1>b, <2>1, <2>2, <2>3 DEF NodeIn, Dir
<1>9. \A i \in Three \ {Root} : other \in NodeIn(Blk) /\ Beside(Blk, i, other.blk, r)
  BY NewNodeIn
<1> HIDE DEF start, other
<1>10. Held(Blk, inode, r)
  <2>1. \A i \in Three : inode[i] = IF i = Root THEN start ELSE other
    BY <1>2
  <2>2. \A i \in Three : inode[i] \in NodeIn(Blk) /\ Beside(Blk, i, inode[i].blk, r)
    BY <1>8, <1>9, <2>1
  <2>3. inode \in [Three -> NodeIn(Blk)]
    <3>1. inode = [i \in Three |-> inode[i]]
      BY <1>2
    <3> QED BY <2>2, <3>1
  <2> QED BY <1>8, <1>a, <2>1, <2>2, <2>3 DEF Held
<1>11. FilledRoot(r)
  BY <1>1, <1>2, <1>7, <1>10 DEF FilledRoot, RootKept
<1> QED BY <1>11

(* A file that is truncated keeps its first block.                          *)
LEMMA FilledTruncates ==
  ASSUME NEW r, FilledRoot(r), NEW p \in Flat!Path, NEW heard \in BOOLEAN, Flat!Truncate(p, heard)
  PROVE  FilledRootNext(r)
<1> DEFINE i == Flat!Target(p).ino
<1>1. i \in Three \ {Root}
  BY FilledTarget DEF Flat!Truncate
<1>2. /\ r \in Blk /\ Held(Blk, inode, r) /\ Begins(Blk, Index, FilledName, data, r)
      /\ ifree \subseteq Three \ {Root} /\ opened \cup stray \subseteq Three \ {Root}
      /\ bfree \subseteq Blk \ {r} /\ wild \in BOOLEAN
  BY FilledParts
<1>3. /\ inode' = [inode EXCEPT ![i].blk = SubSeq(inode[i].blk, 1, 1)]
      /\ bfree' = bfree \cup Flat!Range(Tail(inode[i].blk))
      /\ Len(inode[i].blk) > 1 /\ UNCHANGED <<data, ifree, opened, stray, wild>>
  BY DEF Flat!Truncate
<1> HIDE DEF i
<1>4. Beside(Blk, i, inode[i].blk, r) /\ inode[i].blk \in Seq(Blk)
  BY <1>1, FilledNodes
<1>5. Held(Blk, inode', r)
  <2>1. Beside(Blk, i, SubSeq(inode[i].blk, 1, 1), r)
    BY <1>3, <1>4, OnlyOne
  <2> QED BY <1>1, <1>2, <1>3, <2>1, PutBlocks
<1>6. bfree' \subseteq Blk \ {r}
  <2>1. inode[i].blk # << >>
    BY <1>3, <1>4
  <2>2. {Tail(inode[i].blk)[k] : k \in DOMAIN Tail(inode[i].blk)} \subseteq Blk \ {r}
    BY <1>1, <1>4, <2>1, OthersBlocks
  <2>3. Flat!Range(Tail(inode[i].blk)) \subseteq Blk \ {r}
    BY <2>2 DEF Flat!Range
  <2> QED BY <1>2, <1>3, <2>3
<1> QED BY <1>2, <1>3, <1>5, <1>6 DEF FilledRootNext, RootKept

(* The handlers of net/ keep the root.                                      *)
LEMMA FilledSteps ==
  ASSUME NEW r, FilledRoot(r), Flat!Next
  PROVE  FilledRootNext(r)
<1>1. ASSUME NEW p \in Flat!Path, NEW heard \in BOOLEAN, Flat!Mkdir(p, heard) PROVE FilledRootNext(r)
  <2>1. Flat!MakeDirentry(Flat!Walk(Flat!Front(p)).up, p, heard)
    BY <1>1 DEF Flat!Mkdir
  <2> QED BY <2>1, FilledWalk, FilledMakes
<1>2. ASSUME NEW p \in Flat!Path, Flat!Rmdir(p) PROVE FilledRootNext(r)
  <2>1. Flat!RemoveDirentry(Flat!Walk(Flat!Front(p)).up, p)
    BY <1>2 DEF Flat!Rmdir
  <2> QED BY <2>1, FilledWalk, FilledRemoves
<1>3. ASSUME Flat!Stopped PROVE FilledRootNext(r)
  <2>1. UNCHANGED <<inode, data, ifree, bfree, opened, stray, wild>>
    BY <1>3 DEF Flat!Stopped, Flat!vars
  <2> QED BY <2>1, FilledParts, FilledKeeps
<1>4. ASSUME NEW p \in Flat!Path, NEW heard \in BOOLEAN,
             Flat!Create(p, heard) \/ Flat!Mkdir(p, heard) \/ Flat!Unlink(p, heard) \/ Flat!Rmdir(p)
               \/ Flat!Open(p) \/ Flat!Truncate(p, heard)
      PROVE  FilledRootNext(r)
  BY <1>1, <1>2, <1>4, FilledCreates, FilledUnlinks, FilledOpens, FilledTruncates
<1>5. ASSUME NEW i \in Three, NEW heard \in BOOLEAN,
             Flat!Release(i) \/ Flat!Grow(i, heard) \/ Flat!WriteOver(i, heard)
      PROVE  FilledRootNext(r)
  BY <1>5, FilledOpens, FilledGrows, FilledOverwrites
<1> QED BY <1>3, <1>4, <1>5 DEF Flat!Next, Three

(* What is said of the root, and the types, follow.                         *)
LEMMA FilledRight ==
  ASSUME NEW r, FilledRoot(r)
  PROVE  Flat!TypeOK /\ Flat!RootStays
<1>2. /\ r \in Blk /\ Held(Blk, inode, r) /\ Begins(Blk, Index, FilledName, data, r)
      /\ ifree \subseteq Three \ {Root} /\ opened \cup stray \subseteq Three \ {Root}
      /\ bfree \subseteq Blk \ {r} /\ wild \in BOOLEAN
  BY FilledParts
<1>a. Root \in Three /\ Index = 1 .. NDirent /\ NDirent \in Nat
  BY FilledDisk DEF Three, Root
<1>3. \A i \in Three : /\ inode[i].type \in {"file", "dir"}
                       /\ inode[i].blk \in Seq(Blk) /\ Len(inode[i].blk) <= NDirect
  BY <1>2 DEF Held, NodeIn, Beside, Kind, File, Dir
<1>4. \A b \in Blk : /\ Len(data[b]) = NDirent
                     /\ \A k \in 1 .. NDirent :
                          /\ data[b][k].name \in {n1, n2} \cup {"", ".", "..", "junk"}
                          /\ data[b][k].ino \in Three
  <2> SUFFICES ASSUME NEW b \in Blk
               PROVE  /\ Len(data[b]) = NDirent
                      /\ \A k \in 1 .. NDirent :
                           /\ data[b][k].name \in {n1, n2} \cup {"", ".", "..", "junk"}
                           /\ data[b][k].ino \in Three
    OBVIOUS
  <2>1. data[b] \in [1 .. NDirent -> Stuff(FilledName)]
    BY <1>2, <1>a DEF Begins
  <2>2. Len(data[b]) = NDirent
    BY <1>a, <2>1
  <2>3. \A k \in 1 .. NDirent : data[b][k] \in Stuff(FilledName)
    BY <2>1
  <2>4. \A e \in Stuff(FilledName) : /\ e.name \in FilledName \cup {"", ".", "..", "junk"}
                                     /\ e.ino \in Three
    BY DEF Stuff
  <2> QED BY <2>2, <2>3, <2>4 DEF FilledName
<1>5. Flat!TypeOK
  BY <1>2, <1>3, <1>4 DEF Flat!TypeOK, Three
<1>6. /\ inode[Root].type = "dir" /\ inode[Root].blk[1] = r /\ Len(inode[Root].blk) > 0
      /\ Len(inode[Root].blk) \in Nat
  BY <1>2, <1>a, FilledNodes DEF Held, Beside, Dir
<1>7. \A i \in Three \ {Root} : r \notin Flat!Blocks(i)
  BY FilledBlocks
<1>8. Flat!Entries(Root)[1] = RootDot
  <2> DEFINE z == NDirent * Len(inode[Root].blk)
  <2>1. 1 \in 1 .. z
    BY <1>a, <1>6, SizeAssumption
  <2>2. Flat!Entries(Root)[1] = Flat!EntryAt(Root, 1)
    <3>1. Flat!Entries(Root) = [k \in 1 .. z |-> Flat!EntryAt(Root, k)]
      BY DEF Flat!Entries
    <3> HIDE DEF z
    <3> QED BY <2>1, <3>1
  <2>3. Flat!InBlock(1) = 1 /\ Flat!AtIndex(1) = 1
    BY <1>a, SizeAssumption DEF Flat!InBlock, Flat!AtIndex
  <2>4. Flat!EntryAt(Root, 1) = data[r][1]
    BY <1>6, <2>3 DEF Flat!EntryAt
  <2> QED BY <1>2, <2>2, <2>4 DEF Begins
<1>9. Flat!RootStays
  BY <1>2, <1>6, <1>7, <1>8, FilledSame DEF Flat!RootStays, RootDot, Three
<1> QED BY <1>5, <1>9

-----------------------------------------------------------------------------
(* The programs of Anyhow, which rename.                                    *)
Blocks3 == 0 .. 2
Index3 == 1 .. 3

LooseRoot(r) == /\ RootKept(Blocks3, Index3, Name, inode, data, ifree, bfree, opened \cup stray, r)
             /\ wild \in BOOLEAN
LooseRootNext(r) == /\ RootKept(Blocks3, Index3, Name, inode', data', ifree', bfree', opened' \cup stray', r)
                 /\ wild' \in BOOLEAN

(* The numbers and names of this instance.                                  *)
LEMMA LooseDisk ==
  Disk(Blocks3, Index3, Name) /\ Three \subseteq Nat /\ 3 \in Nat /\ Index3 = 1 .. 3
<1>1. {1, 2} \subseteq Index3 /\ Index3 \subseteq Nat /\ Blocks3 \subseteq Nat
  BY DEF Index3, Blocks3
<1>2. Three \subseteq Nat
  BY DEF Three
<1> QED BY <1>1, <1>2, NameAssumption DEF Disk, Index3

(* The parts of the invariant.                                              *)
LEMMA LooseParts ==
  ASSUME NEW r, LooseRoot(r)
  PROVE  /\ r \in Blocks3 /\ Held(Blocks3, inode, r) /\ Begins(Blocks3, Index3, Name, data, r)
         /\ ifree \subseteq Three \ {Root} /\ opened \cup stray \subseteq Three \ {Root}
         /\ bfree \subseteq Blocks3 \ {r} /\ wild \in BOOLEAN
BY DEF LooseRoot, RootKept

(* The blocks of an inode.                                                  *)
LEMMA LooseNodes ==
  ASSUME NEW r, LooseRoot(r), NEW i \in Three
  PROVE  /\ Beside(Blocks3, i, inode[i].blk, r)
         /\ inode[i].blk \in Seq(Blocks3) /\ Len(inode[i].blk) \in Nat
         /\ Len(inode[i].blk) <= NDirect
<1>1. Beside(Blocks3, i, inode[i].blk, r)
  BY LooseParts DEF Held
<1>2. inode[i].blk \in Seq(Blocks3) /\ Len(inode[i].blk) <= NDirect
  BY <1>1 DEF Beside
<1> QED BY <1>1, <1>2

(* What is free is numbered.                                                *)
LEMMA LooseFree ==
  ASSUME NEW r, LooseRoot(r)
  PROVE  ifree \in SUBSET Nat /\ bfree \in SUBSET Nat
BY LooseParts, LooseDisk DEF Disk

(* The allocator finds what is free.                                        *)
LEMMA LooseFirst ==
  ASSUME NEW f \in SUBSET Nat, f # {}
  PROVE  Anyhow!FirstFree(f) \in f
BY First DEF Anyhow!FirstFree

(* What is at a place of a directory.                                       *)
LEMMA LoosePlace ==
  ASSUME NEW r, LooseRoot(r), NEW d \in Three, NEW k \in 1 .. 3 * Len(inode[d].blk),
         NEW b, b = inode[d].blk[Anyhow!InBlock(k)], NEW x, x = Anyhow!AtIndex(k)
  PROVE  /\ Anyhow!InBlock(k) \in 1 .. Len(inode[d].blk) /\ b \in Blocks3 /\ x \in Index3
         /\ d # Root => b # r
         /\ Anyhow!EntryAt(d, k) = data[b][x] /\ data[b][x] \in Stuff(Name)
         /\ data[b][x].name \in Name => data[b][x].ino \in Three \ {Root}
         /\ b = r /\ x = 1 => data[b][x].name = "."
<1>1. inode[d].blk \in Seq(Blocks3) /\ Len(inode[d].blk) \in Nat /\ Beside(Blocks3, d, inode[d].blk, r)
  BY LooseNodes
<1>2. Anyhow!InBlock(k) \in 1 .. Len(inode[d].blk) /\ x \in Index3
  <2> DEFINE l == Len(inode[d].blk)
  <2>1. l \in Nat /\ k \in 1 .. 3 * l
    BY <1>1
  <2> HIDE DEF l
  <2>2. ((k - 1) \div 3) + 1 \in 1 .. l /\ ((k - 1) % 3) + 1 \in 1 .. 3
    BY <2>1
  <2> QED BY <2>2 DEF Anyhow!InBlock, Anyhow!AtIndex, Index3, l
<1>3. b \in Blocks3 /\ (d # Root => b # r)
  BY <1>1, <1>2 DEF Beside
<1>4. Begins(Blocks3, Index3, Name, data, r)
  BY LooseParts
<1>5. data[b] \in [Index3 -> Stuff(Name)] /\ Plain(Index3, Name, data[b])
  BY <1>3, <1>4 DEF Begins
<1>6. data[b][x] \in Stuff(Name) /\ (data[b][x].name \in Name => data[b][x].ino # Root)
  BY <1>2, <1>5 DEF Plain
<1>7. data[b][x].ino \in Three
  BY <1>6 DEF Stuff
<1>8. b = r /\ x = 1 => data[b][x].name = "."
  BY <1>4 DEF Begins, RootDot, Dirent
<1>9. Anyhow!EntryAt(d, k) = data[b][x]
  BY DEF Anyhow!EntryAt
<1> QED BY <1>2, <1>3, <1>6, <1>7, <1>8, <1>9

(* Find looks at every place.                                               *)
LEMMA LooseFind ==
  ASSUME NEW r, LooseRoot(r), NEW d \in Three, NEW n, Anyhow!Has(d, n)
  PROVE  /\ Anyhow!Find(d, n) \in 1 .. 3 * Len(inode[d].blk)
         /\ Anyhow!EntryAt(d, Anyhow!Find(d, n)).name = n
<1> DEFINE hits == {k \in 1 .. 3 * Len(inode[d].blk) : Anyhow!EntryAt(d, k).name = n}
<1>1. hits \in SUBSET Nat
  OBVIOUS
<1>2. Anyhow!Find(d, n) = IF hits = {} THEN 0 ELSE Anyhow!Min(hits)
  BY DEF Anyhow!Find
<1>3. hits # {}
  BY <1>2 DEF Anyhow!Has
<1>4. Anyhow!Min(hits) \in hits
  <2> HIDE DEF hits
  <2> QED BY <1>1, <1>3, First DEF Anyhow!Min
<1> HIDE DEF hits
<1>5. Anyhow!Find(d, n) \in hits
  BY <1>2, <1>3, <1>4
<1> QED BY <1>5 DEF hits

(* The directories that a walk comes to.                                    *)
LEMMA LooseStep ==
  ASSUME NEW r, LooseRoot(r), NEW w \in Walks, NEW n
  PROVE  Anyhow!Step(w, n) \in Walks
<1>1. CASE ~w.ok \/ ~Anyhow!Has(w.dir, n)
  <2>1. Anyhow!Step(w, n) = [w EXCEPT !.ok = FALSE]
    BY <1>1 DEF Anyhow!Step
  <2>2. [w EXCEPT !.ok = FALSE] \in Walks
    BY DEF Walks
  <2> QED BY <2>1, <2>2
<1>2. CASE w.ok /\ Anyhow!Has(w.dir, n)
  <2> DEFINE d == w.dir
             e == Anyhow!Get(d, n)
  <2>1. d \in Three
    BY DEF Walks
  <2>2. e.ino \in Three
    <3>1. Anyhow!Find(d, n) \in 1 .. 3 * Len(inode[d].blk)
      BY <1>2, <2>1, LooseFind
    <3>2. Anyhow!EntryAt(d, Anyhow!Find(d, n)) \in Stuff(Name)
      BY <2>1, <3>1, LoosePlace
    <3> QED BY <3>2 DEF Anyhow!Get, Stuff
  <2>3. \/ Anyhow!Step(w, n) = [w EXCEPT !.ok = FALSE]
        \/ Anyhow!Step(w, n) = [ok |-> TRUE, dir |-> e.ino, up |-> d]
    BY <1>2 DEF Anyhow!Step
  <2>4. [w EXCEPT !.ok = FALSE] \in Walks
    BY DEF Walks
  <2>5. [ok |-> TRUE, dir |-> e.ino, up |-> d] \in Walks
    <3> HIDE DEF e, d
    <3> QED BY <2>1, <2>2 DEF Walks
  <2> QED BY <2>3, <2>4, <2>5
<1> QED BY <1>1, <1>2

(* A walk comes to inodes, along names of programs.                         *)
LEMMA LooseWalk ==
  ASSUME NEW r, LooseRoot(r), NEW p \in Anyhow!Path
  PROVE  /\ Anyhow!Walk(Anyhow!Front(p)).dir \in Three /\ Anyhow!Walk(Anyhow!Front(p)).up \in Three
         /\ Anyhow!Last(p) \in Name
<1> DEFINE q == Anyhow!Front(p)
           z == Len(q)
           f == [ok |-> TRUE, dir |-> Root, up |-> Root]
           G == [a \in Walks \X (1 .. z) |-> Anyhow!Step(a[1], q[a[2]])]
<1>1. p \in Seq(Name) /\ Len(p) \in Nat \ {0}
  <2>1. PICK n \in 1 .. MaxDepth : p \in [1 .. n -> Name]
    BY DEF Anyhow!Path
  <2>2. n \in Nat \ {0}
    BY <2>1, SizeAssumption
  <2>3. p \in [1 .. n -> Name]
    BY <2>1
  <2>4. p \in Seq(Name) /\ Len(p) = n
    BY <2>2, <2>3, SeqOf
  <2> QED BY <2>2, <2>4
<1>2. Anyhow!Last(p) \in Name /\ z \in Nat
  BY <1>1 DEF Anyhow!Last, Anyhow!Front
<1>3. f \in Walks
  BY DEF Walks, Three, Root
<1>4. G \in [Walks \X (1 .. z) -> Walks]
  <2>1. ASSUME NEW w \in Walks, NEW n PROVE Anyhow!Step(w, n) \in Walks
    BY LooseStep
  <2> HIDE DEF z, q
  <2> QED BY <2>1
<1>4a. PICK u : Follows(u, Walks, f, z, G)
  <2> HIDE DEF f, z, G
  <2> QED BY <1>2, <1>3, <1>4, Walked
<1>5. u \in [0 .. z -> Walks] /\ u[0] = f /\ \A k \in 1 .. z : u[k] = G[<<u[k - 1], k>>]
  <2> HIDE DEF f, z, G
  <2> QED BY <1>4a DEF Follows
<1>7. u = [k \in 0 .. z |-> IF k = 0 THEN f ELSE Anyhow!Step(u[k - 1], q[k])]
  <2>1. ASSUME NEW k \in 1 .. z PROVE G[<<u[k - 1], k>>] = Anyhow!Step(u[k - 1], q[k])
    <3>1. <<u[k - 1], k>> \in Walks \X (1 .. z)
      <4> HIDE DEF z
      <4> QED BY <1>2, <1>5
    <3> QED BY <3>1
  <2>2. \A k \in 0 .. z : u[k] = IF k = 0 THEN f ELSE Anyhow!Step(u[k - 1], q[k])
    <3> SUFFICES ASSUME NEW k \in 0 .. z
                 PROVE  u[k] = IF k = 0 THEN f ELSE Anyhow!Step(u[k - 1], q[k])
      OBVIOUS
    <3> HIDE DEF f, z, G, q
    <3>1. k # 0 => k \in 1 .. z
      BY <1>2
    <3> QED BY <1>2, <1>5, <2>1, <3>1
  <2>3. u = [k \in 0 .. z |-> u[k]]
    <3> HIDE DEF f, z, G, q
    <3> QED BY <1>5
  <2> HIDE DEF f, z, G, q
  <2> QED BY <2>2, <2>3
<1> DEFINE V == CHOOSE v : v = [k \in 0 .. z |-> IF k = 0 THEN f ELSE Anyhow!Step(v[k - 1], q[k])]
<1>8. Anyhow!Walk(q) = V[z]
  BY DEF Anyhow!Walk, Anyhow!Root, Root
<1>9. V = [k \in 0 .. z |-> IF k = 0 THEN f ELSE Anyhow!Step(V[k - 1], q[k])]
  <2> HIDE DEF f, z, G, q
  <2> QED BY <1>7
<1>10. \A k \in 0 .. z : V[k] \in Walks
  <2> DEFINE T == {k \in 0 .. z : V[k] \in Walks}
  <2>a. ASSUME NEW w \in Walks, NEW n PROVE Anyhow!Step(w, n) \in Walks
    BY LooseStep
  <2> HIDE DEF f, z, G, V, q
  <2>1. \A k \in 0 .. z : V[k] = IF k = 0 THEN f ELSE Anyhow!Step(V[k - 1], q[k])
    BY <1>9
  <2>2. 0 \in T
    <3>1. 0 \in 0 .. z /\ 0 = 0
      BY <1>2
    <3>2. V[0] = f
      BY <2>1, <3>1
    <3> QED BY <1>3, <3>1, <3>2
  <2>3. ASSUME NEW k \in 0 .. z - 1, k \in T PROVE k + 1 \in T
    <3>1. V[k + 1] = Anyhow!Step(V[k], q[k + 1]) /\ k + 1 \in 1 .. z /\ V[k] \in Walks
      BY <1>2, <2>1, <2>3
    <3> QED BY <1>2, <2>a, <3>1
  <2> HIDE DEF T
  <2>4. \A k \in 0 .. z : k \in T
    BY <1>2, <2>2, <2>3, Climb
  <2> QED BY <2>4 DEF T
<1>11. V[z] \in Walks
  <2> HIDE DEF z, V
  <2> QED BY <1>2, <1>10
<1> HIDE DEF V
<1>12. Anyhow!Walk(q) \in Walks
  BY <1>8, <1>11
<1> HIDE DEF q, z, f, G
<1>13. Anyhow!Walk(q).dir \in Three /\ Anyhow!Walk(q).up \in Three
  BY <1>12 DEF Walks
<1> QED BY <1>2, <1>13 DEF q

(* What a name stands for is not the root.                                  *)
LEMMA LooseTarget ==
  ASSUME NEW r, LooseRoot(r), NEW p \in Anyhow!Path, Anyhow!Resolves(p)
  PROVE  /\ Anyhow!DirOf(p) \in Three /\ Anyhow!Last(p) \in Name /\ Anyhow!Has(Anyhow!DirOf(p), Anyhow!Last(p))
         /\ Anyhow!Target(p) \in Stuff(Name) /\ Anyhow!Target(p).name = Anyhow!Last(p)
         /\ Anyhow!Target(p).ino \in Three \ {Root}
<1> DEFINE d == Anyhow!DirOf(p)
           n == Anyhow!Last(p)
           k == Anyhow!Find(d, n)
<1>1. d \in Three /\ n \in Name /\ Anyhow!Has(d, n)
  BY LooseWalk DEF Anyhow!DirOf, Anyhow!Resolves
<1>2. k \in 1 .. 3 * Len(inode[d].blk) /\ Anyhow!EntryAt(d, k).name = n
  BY <1>1, LooseFind
<1>3. Anyhow!Target(p) = Anyhow!EntryAt(d, k)
  BY DEF Anyhow!Target, Anyhow!Get
<1> HIDE DEF d, n, k
<1>4. Anyhow!EntryAt(d, k) \in Stuff(Name) /\ Anyhow!EntryAt(d, k).ino \in Three \ {Root}
  BY <1>1, <1>2, LoosePlace
<1> QED BY <1>1, <1>2, <1>3, <1>4 DEF d, n

(* An entry that is not the first "." is replaced.                          *)
LEMMA LooseWrite ==
  ASSUME NEW r, LooseRoot(r), NEW d \in Three, NEW k \in 1 .. 3 * Len(inode[d].blk),
         Anyhow!EntryAt(d, k).name # ".",
         NEW e \in Stuff(Name), e.name \in Name => e.ino # Root
  PROVE  Begins(Blocks3, Index3, Name, Anyhow!WithEntry(d, k, e), r)
<1> DEFINE b == inode[d].blk[Anyhow!InBlock(k)]
           x == Anyhow!AtIndex(k)
<1>1. b \in Blocks3 /\ x \in Index3 /\ (b # r \/ x # 1)
  BY LoosePlace
<1>2. Begins(Blocks3, Index3, Name, data, r)
  BY LooseParts
<1>a. 1 \in Index3
  BY LooseDisk DEF Disk
<1>3. Anyhow!WithEntry(d, k, e) = [data EXCEPT ![b][x] = e]
  BY DEF Anyhow!WithEntry
<1> HIDE DEF b, x
<1>4. Begins(Blocks3, Index3, Name, [data EXCEPT ![b][x] = e], r)
  BY <1>1, <1>2, <1>a, PutEntry
<1> QED BY <1>3, <1>4

(* A name that is looked up is not the first ".".                           *)
LEMMA LooseWriteFound ==
  ASSUME NEW r, LooseRoot(r), NEW d \in Three, NEW n, n \in Name \/ n = NoName, Anyhow!Has(d, n),
         NEW e \in Stuff(Name), e.name \in Name => e.ino # Root
  PROVE  Begins(Blocks3, Index3, Name, Anyhow!WithEntry(d, Anyhow!Find(d, n), e), r)
<1>1. n # "."
  BY LooseDisk DEF Disk, NoName
<1>2. Anyhow!Find(d, n) \in 1 .. 3 * Len(inode[d].blk) /\ Anyhow!EntryAt(d, Anyhow!Find(d, n)).name = n
  BY LooseFind
<1> QED BY <1>1, <1>2, LooseWrite

(* The names by which the provers know the operators of this instance.      *)
LEMMA LooseSame ==
  /\ \A n, i, t : Anyhow!Dirent(n, i, t) = Dirent(n, i, t)
  /\ \A s, k : Anyhow!Without(s, k) = Without(s, k)
  /\ Anyhow!Null = Null /\ Anyhow!Root = Root
BY DEF Anyhow!Dirent, Dirent, Anyhow!Without, Without, Anyhow!Front, Front, Anyhow!Last, Last,
       Anyhow!Null, Null, Anyhow!Root, Root

(* Cardinality is the same in every instance.                               *)
LEMMA LooseCount == \A M : Anyhow!Cardinality(M) = Cardinality(M)
BY DEF Anyhow!Cardinality, Cardinality

(* What is free is not the root's.                                          *)
LEMMA LooseFreeOnes ==
  ASSUME NEW r, LooseRoot(r)
  PROVE  /\ ifree # {} => Anyhow!FirstFree(ifree) \in Three \ {Root}
         /\ bfree # {} => Anyhow!FirstFree(bfree) \in bfree /\ Anyhow!FirstFree(bfree) \in Blocks3 \ {r}
<1>1. ifree \in SUBSET Nat /\ bfree \in SUBSET Nat
  BY LooseFree
<1>2. ifree \subseteq Three \ {Root} /\ bfree \subseteq Blocks3 \ {r}
  BY LooseParts
<1>3. ifree # {} => Anyhow!FirstFree(ifree) \in ifree
  BY <1>1, LooseFirst
<1>4. bfree # {} => Anyhow!FirstFree(bfree) \in bfree
  BY <1>1, LooseFirst
<1> QED BY <1>2, <1>3, <1>4

(* A directory that is not full has room for a block.                       *)
LEMMA LooseGrown ==
  ASSUME NEW r, LooseRoot(r), NEW d \in Three, ~Anyhow!Has(d, NoName), ~Anyhow!Full(d), NEW b \in Blocks3 \ {r}
  PROVE  Held(Blocks3, Anyhow!Grown(d, b), r)
<1>1. Beside(Blocks3, d, inode[d].blk, r) /\ Len(inode[d].blk) \in Nat /\ Len(inode[d].blk) <= NDirect
  BY LooseNodes
<1>2. Len(inode[d].blk) < NDirect
  <2>1. Len(inode[d].blk) # NDirect
    BY DEF NoName, Anyhow!Full
  <2>2. NDirect \in Nat
    BY SizeAssumption
  <2> QED BY <1>1, <2>1, <2>2
<1>3. Beside(Blocks3, d, Append(inode[d].blk, b), r)
  BY <1>1, <1>2, OneMore
<1>4. Held(Blocks3, inode, r)
  BY LooseParts
<1>5. Held(Blocks3, [inode EXCEPT ![d].blk = Append(inode[d].blk, b)], r)
  BY <1>3, <1>4, PutBlocks
<1>6. Anyhow!Grown(d, b) = [inode EXCEPT ![d].blk = Append(inode[d].blk, b)]
  BY DEF Anyhow!Grown
<1> QED BY <1>5, <1>6

(* A call that is refused, or ends the model.                               *)
LEMMA LooseKeeps ==
  ASSUME NEW r, LooseRoot(r), UNCHANGED <<inode, data, ifree, bfree, opened, stray>>,
         wild' \in BOOLEAN
  PROVE  LooseRootNext(r)
BY DEF LooseRoot, LooseRootNext

(* What a program gets for a new file is not the root, nor is what it takes  *)
(* for it.                                                                  *)
LEMMA LooseHandles ==
  ASSUME NEW r, LooseRoot(r), NEW t \in Three \ {Root}, NEW p, NEW heard \in BOOLEAN,
         Anyhow!Handle(t, p, heard) \/ Anyhow!Astray(p)
  PROVE  opened' \cup stray' \subseteq Three \ {Root}
<1>1. opened \cup stray \subseteq Three \ {Root}
  BY LooseParts
<1>2. CASE Anyhow!Astray(p)
  BY <1>1, <1>2, LooseSame DEF Anyhow!Astray, Three
<1>3. CASE opened' = opened \cup {t} /\ UNCHANGED stray
  BY <1>1, <1>3
<1> QED BY <1>2, <1>3 DEF Anyhow!Handle

(* A new file is not the root.                                              *)
LEMMA LooseCreates ==
  ASSUME NEW r, LooseRoot(r), NEW p \in Anyhow!Path, Anyhow!Create(p, TRUE)
  PROVE  LooseRootNext(r)
<1> DEFINE d == Anyhow!DirOf(p)
           t == Anyhow!FirstFree(ifree)
           b == Anyhow!FirstFree(bfree)
           e == Dirent(Anyhow!Last(p), t, "file")
           node == [type |-> "file", blk |-> << >>]
<1>1. d \in Three /\ Anyhow!Last(p) \in Name
  BY LooseWalk DEF Anyhow!DirOf
<1>2. /\ r \in Blocks3 /\ Held(Blocks3, inode, r) /\ Begins(Blocks3, Index3, Name, data, r)
      /\ ifree \subseteq Three \ {Root} /\ opened \cup stray \subseteq Three \ {Root}
      /\ bfree \subseteq Blocks3 \ {r} /\ wild \in BOOLEAN
  BY LooseParts
<1>3. CASE ifree = {}
  <2>1. UNCHANGED <<inode, data, ifree, bfree, opened, stray, wild>>
    BY <1>3 DEF Anyhow!Create, Anyhow!NoInode, Anyhow!Refuse
  <2> QED BY <2>1, <1>2, LooseKeeps
<1>4. CASE ifree # {}
  <2>1. t \in Three \ {Root}
    BY <1>4, LooseFreeOnes
  <2>2. e \in Stuff(Name) /\ e.name = Anyhow!Last(p) /\ e.ino = t
    <3>1. Disk(Blocks3, Index3, Name) /\ t \in Three
      BY <2>1, LooseDisk
    <3>2. "file" \in Kind
      BY DEF Kind, File
    <3>3. e \in Stuff(Name)
      BY <1>1, <3>1, <3>2, NewStuff
    <3> QED BY <3>3 DEF Dirent
  <2>3. node \in NodeIn(Blocks3) /\ Beside(Blocks3, t, node.blk, r) /\ t # Root
    BY <2>1, NewNodeIn
  <2>4. Held(Blocks3, [inode EXCEPT ![t] = node], r)
    BY <1>2, <2>1, <2>3, PutNode
  <2>5. Anyhow!Dirent(Anyhow!Last(p), t, "file") = e /\ Anyhow!Inode("file", << >>) = node
    BY LooseSame DEF Anyhow!Inode
  <2>6. Anyhow!CreateFile(d, p, TRUE)
    BY <1>4 DEF Anyhow!Create
  <2>d. ifree \ {t} \subseteq Three \ {Root}
    BY <1>2
  <2>e. Anyhow!Handle(t, p, TRUE) => opened' \cup stray' \subseteq Three \ {Root}
    BY <2>1, LooseHandles
  <2> HIDE DEF d, e, node
  <2>7. CASE /\ Anyhow!Has(d, NoName) /\ data' = Anyhow!WithEntry(d, Anyhow!Find(d, NoName), e)
             /\ inode' = [inode EXCEPT ![t] = node] /\ ifree' = ifree \ {t}
             /\ opened' \cup stray' \subseteq Three \ {Root} /\ UNCHANGED <<bfree, wild>>
    <3>1. Begins(Blocks3, Index3, Name, data', r)
      BY <1>1, <2>1, <2>2, <2>7, LooseWriteFound
    <3> HIDE DEF t
    <3> QED BY <1>2, <2>4, <2>7, <2>d, <3>1 DEF LooseRootNext, RootKept
  <2>8. CASE /\ ~Anyhow!Has(d, NoName) /\ ~Anyhow!Full(d) /\ bfree # {}
             /\ inode' = [Anyhow!Grown(d, b) EXCEPT ![t] = node]
             /\ data' = [data EXCEPT ![b][1] = e]
             /\ ifree' = ifree \ {t} /\ bfree' = bfree \ {b}
             /\ opened' \cup stray' \subseteq Three \ {Root} /\ UNCHANGED wild
    <3>1. b \in Blocks3 \ {r}
      BY <2>8, LooseFreeOnes
    <3> HIDE DEF b, t
    <3>2. Held(Blocks3, Anyhow!Grown(d, b), r)
      BY <1>1, <2>8, <3>1, LooseGrown
    <3>3. Held(Blocks3, inode', r)
      BY <2>1, <2>3, <2>8, <3>2, PutNode
    <3>4. 1 \in Index3
      BY LooseDisk DEF Disk
    <3>5. Begins(Blocks3, Index3, Name, data', r)
      BY <1>2, <2>1, <2>2, <2>8, <3>1, <3>4, PutEntry
    <3> QED BY <1>2, <2>8, <2>d, <3>3, <3>5 DEF LooseRootNext, RootKept
  <2>9. CASE wild' = TRUE /\ UNCHANGED <<inode, data, ifree, bfree, opened, stray>>
    BY <2>9, LooseKeeps
  <2>10. CASE /\ inode' = [inode EXCEPT ![t] = node] /\ opened' \cup stray' \subseteq Three \ {Root}
              /\ UNCHANGED <<data, ifree, bfree, wild>>
    <3> HIDE DEF t
    <3> QED BY <1>2, <2>4, <2>10, <2>d DEF LooseRootNext, RootKept
  <2> HIDE DEF t, b
  <2>11. \/ /\ Anyhow!Has(d, NoName) /\ data' = Anyhow!WithEntry(d, Anyhow!Find(d, NoName), e)
            /\ inode' = [inode EXCEPT ![t] = node] /\ ifree' = ifree \ {t}
            /\ opened' \cup stray' \subseteq Three \ {Root} /\ UNCHANGED <<bfree, wild>>
         \/ /\ ~Anyhow!Has(d, NoName) /\ ~Anyhow!Full(d) /\ bfree # {}
            /\ inode' = [Anyhow!Grown(d, b) EXCEPT ![t] = node]
            /\ data' = [data EXCEPT ![b][1] = e]
            /\ ifree' = ifree \ {t} /\ bfree' = bfree \ {b}
            /\ opened' \cup stray' \subseteq Three \ {Root} /\ UNCHANGED wild
         \/ wild' = TRUE /\ UNCHANGED <<inode, data, ifree, bfree, opened, stray>>
         \/ /\ inode' = [inode EXCEPT ![t] = node] /\ opened' \cup stray' \subseteq Three \ {Root}
            /\ UNCHANGED <<data, ifree, bfree, wild>>
    BY <2>5, <2>6, <2>e DEF NoName, Anyhow!CreateFile, Anyhow!GoWild, t, b
  <2> QED BY <2>7, <2>8, <2>9, <2>10, <2>11
<1> QED BY <1>3, <1>4

(* A new directory.                                                         *)
LEMMA LooseMakes ==
  ASSUME NEW r, LooseRoot(r), NEW d \in Three, NEW p, Anyhow!Last(p) \in Name,
         Anyhow!MakeDirentry(d, p, TRUE)
  PROVE  LooseRootNext(r)
<1> DEFINE t == Anyhow!FirstFree(ifree)
           b == Anyhow!FirstFree(bfree)
           c == Anyhow!FirstFree(bfree \ {b})
           e == Dirent(Anyhow!Last(p), t, "dir")
           DirWith(h) == [type |-> "dir", blk |-> <<h>>]
           Dotted(ents) == [ents EXCEPT ![1] = Dirent(".", t, "dir"), ![2] = Dirent("..", d, "dir")]
<1>2. /\ r \in Blocks3 /\ Held(Blocks3, inode, r) /\ Begins(Blocks3, Index3, Name, data, r)
      /\ ifree \subseteq Three \ {Root} /\ opened \cup stray \subseteq Three \ {Root}
      /\ bfree \subseteq Blocks3 \ {r} /\ wild \in BOOLEAN
  BY LooseParts
<1>3. Disk(Blocks3, Index3, Name) /\ 1 \in Index3
  BY LooseDisk DEF Disk
<1>k. "dir" \in Kind /\ "dir" = Dir
  BY DEF Kind, Dir
<1>4. ASSUME ifree # {}
      PROVE  /\ t \in Three \ {Root} /\ e \in Stuff(Name) /\ e.ino = t
             /\ \A h \in Blocks3 \ {r} : DirWith(h) \in NodeIn(Blocks3) /\ Beside(Blocks3, t, DirWith(h).blk, r)
             /\ \A ents : Plain(Index3, Name, ents) => Plain(Index3, Name, Dotted(ents))
             /\ ifree \ {t} \subseteq Three \ {Root}
  <2>1. t \in Three \ {Root}
    BY <1>4, LooseFreeOnes
  <2> HIDE DEF t
  <2>2. e \in Stuff(Name)
    BY <1>3, <1>k, <2>1, NewStuff
  <2>3. e.ino = t
    BY DEF Dirent
  <2>4. \A h \in Blocks3 \ {r} : DirWith(h) \in NodeIn(Blocks3) /\ Beside(Blocks3, t, DirWith(h).blk, r)
    BY <2>1, NewNodeIn
  <2>5. ASSUME NEW ents, Plain(Index3, Name, ents) PROVE Plain(Index3, Name, Dotted(ents))
    BY <1>3, <2>1, <2>5, DotsPlain
  <2> QED BY <1>2, <2>1, <2>2, <2>3, <2>4, <2>5
<1>5. bfree # {} => b \in bfree /\ b \in Blocks3 \ {r}
  BY LooseFreeOnes
<1>6. \A ents : Anyhow!Dots(ents, t, d) = Dotted(ents)
  BY LooseSame DEF Anyhow!Dots
<1>7. Anyhow!Dirent(Anyhow!Last(p), t, "dir") = e /\ \A h : Anyhow!Inode("dir", <<h>>) = DirWith(h)
  BY LooseSame DEF Anyhow!Inode
<1> HIDE DEF e, DirWith, Dotted
<1>8. CASE /\ UNCHANGED <<inode, data, ifree, bfree, opened, stray>> /\ wild' \in BOOLEAN
  BY <1>8, LooseKeeps
<1>9. CASE /\ Anyhow!Has(d, NoName) /\ ifree # {} /\ bfree # {}
           /\ data' = [Anyhow!WithEntry(d, Anyhow!Find(d, NoName), e) EXCEPT ![b] = Dotted(data[b])]
           /\ inode' = [inode EXCEPT ![t] = DirWith(b)]
           /\ ifree' = ifree \ {t} /\ bfree' = bfree \ {b} /\ UNCHANGED <<opened, stray, wild>>
  <2>1. Begins(Blocks3, Index3, Name, Anyhow!WithEntry(d, Anyhow!Find(d, NoName), e), r)
    BY <1>4, <1>9, LooseWriteFound
  <2> DEFINE with == Anyhow!WithEntry(d, Anyhow!Find(d, NoName), e)
  <2> HIDE DEF with, t, b
  <2>2. Plain(Index3, Name, Dotted(data[b]))
    BY <1>2, <1>4, <1>5, <1>9 DEF Begins
  <2>3. Begins(Blocks3, Index3, Name, [with EXCEPT ![b] = Dotted(data[b])], r)
    <3>1. Begins(Blocks3, Index3, Name, with, r)
      BY <2>1 DEF with
    <3> QED BY <1>3, <1>5, <1>9, <2>2, <3>1, PutBlock
  <2>4. Held(Blocks3, inode', r)
    <3>1. t \in Three /\ t # Root /\ DirWith(b) \in NodeIn(Blocks3)
          /\ Beside(Blocks3, t, DirWith(b).blk, r)
      BY <1>4, <1>5, <1>9
    <3> QED BY <1>2, <1>9, <3>1, PutNode
  <2>5. Begins(Blocks3, Index3, Name, data', r)
    BY <1>9, <2>3 DEF with
  <2> QED BY <1>2, <1>4, <1>9, <2>4, <2>5 DEF LooseRootNext, RootKept
<1>10. CASE /\ ~Anyhow!Has(d, NoName) /\ ~Anyhow!Full(d) /\ bfree # {}
            /\ inode' = Anyhow!Grown(d, b) /\ bfree' = bfree \ {b}
            /\ UNCHANGED <<data, ifree, opened, stray, wild>>
  <2>1. Held(Blocks3, inode', r)
    BY <1>5, <1>10, LooseGrown
  <2> HIDE DEF b
  <2> QED BY <1>2, <1>10, <2>1 DEF LooseRootNext, RootKept
<1>11. CASE /\ ~Anyhow!Has(d, NoName) /\ ~Anyhow!Full(d) /\ ifree # {} /\ Cardinality(bfree) > 1
            /\ data' = [data EXCEPT ![b][1] = e, ![c] = Dotted(Anyhow!Empty)]
            /\ inode' = [Anyhow!Grown(d, b) EXCEPT ![t] = DirWith(c)]
            /\ ifree' = ifree \ {t} /\ bfree' = bfree \ {b, c} /\ UNCHANGED <<opened, stray, wild>>
  <2>1. bfree # {} /\ bfree \ {b} # {}
    <3>1. bfree # {}
      <4>1. Cardinality({}) = 0
        BY FS_EmptySet
      <4> QED BY <1>11, <4>1
    <3>2. ASSUME bfree \ {b} = {} PROVE FALSE
      <4>1. bfree = {b}
        BY <1>5, <3>1, <3>2
      <4>2. Cardinality({b}) = 1
        BY FS_Singleton
      <4>3. Cardinality(bfree) = 1
        BY <4>1, <4>2
      <4> QED BY <1>11, <4>3
    <3> QED BY <3>1, <3>2
  <2>2. c \in Blocks3 \ {r} /\ b \in Blocks3 \ {r}
    <3>1. bfree \ {b} \in SUBSET Nat
      BY LooseFree
    <3>2. c \in bfree \ {b}
      BY <2>1, <3>1, LooseFirst
    <3> QED BY <1>2, <1>5, <2>1, <3>2
  <2>3. Held(Blocks3, Anyhow!Grown(d, b), r)
    BY <1>11, <2>2, LooseGrown
  <2>4. Plain(Index3, Name, Anyhow!Empty)
    <3>1. Anyhow!Empty = [k \in Index3 |-> Null]
      BY LooseDisk, LooseSame DEF Anyhow!Empty
    <3>a. 0 \in Three
      BY DEF Three
    <3>b. "file" \in Kind
      BY DEF Kind, File
    <3>2. Null \in Stuff(Name) /\ Null.name \notin Name
      BY <1>3, <3>a, <3>b, NewStuff DEF Null, Dirent
    <3> QED BY <3>1, <3>2, SamePlain
  <2> HIDE DEF t, b, c
  <2>5. Held(Blocks3, inode', r)
    <3>1. t \in Three /\ t # Root /\ DirWith(c) \in NodeIn(Blocks3) /\ Beside(Blocks3, t, DirWith(c).blk, r)
      BY <1>4, <1>11, <2>2
    <3> QED BY <1>11, <2>3, <3>1, PutNode
  <2>6. Begins(Blocks3, Index3, Name, [data EXCEPT ![b][1] = e], r)
    BY <1>2, <1>3, <1>4, <1>11, <2>2, PutEntry
  <2>7. Begins(Blocks3, Index3, Name, data', r)
    <3> DEFINE one == [data EXCEPT ![b][1] = e]
    <3>1. data' = [one EXCEPT ![c] = Dotted(Anyhow!Empty)]
      BY <1>11
    <3>2. Plain(Index3, Name, Dotted(Anyhow!Empty))
      BY <1>4, <1>11, <2>4
    <3>3. Begins(Blocks3, Index3, Name, one, r)
      BY <2>6
    <3> HIDE DEF one
    <3> QED BY <1>3, <2>2, <3>1, <3>2, <3>3, PutBlock
  <2> QED BY <1>2, <1>4, <1>11, <2>5, <2>7 DEF LooseRootNext, RootKept
<1>w. wild \in BOOLEAN /\ TRUE \in BOOLEAN
  BY <1>2
<1>n. Anyhow!Cardinality(bfree) = Cardinality(bfree)
  BY LooseCount
<1> HIDE DEF t, b, c
<1>12. \/ /\ UNCHANGED <<inode, data, ifree, bfree, opened, stray>> /\ wild' \in BOOLEAN
       \/ /\ Anyhow!Has(d, NoName) /\ ifree # {} /\ bfree # {}
          /\ data' = [Anyhow!WithEntry(d, Anyhow!Find(d, NoName), e) EXCEPT ![b] = Dotted(data[b])]
          /\ inode' = [inode EXCEPT ![t] = DirWith(b)]
          /\ ifree' = ifree \ {t} /\ bfree' = bfree \ {b} /\ UNCHANGED <<opened, stray, wild>>
       \/ /\ ~Anyhow!Has(d, NoName) /\ ~Anyhow!Full(d) /\ bfree # {}
          /\ inode' = Anyhow!Grown(d, b) /\ bfree' = bfree \ {b}
          /\ UNCHANGED <<data, ifree, opened, stray, wild>>
       \/ /\ ~Anyhow!Has(d, NoName) /\ ~Anyhow!Full(d) /\ ifree # {} /\ Cardinality(bfree) > 1
          /\ data' = [data EXCEPT ![b][1] = e, ![c] = Dotted(Anyhow!Empty)]
          /\ inode' = [Anyhow!Grown(d, b) EXCEPT ![t] = DirWith(c)]
          /\ ifree' = ifree \ {t} /\ bfree' = bfree \ {b, c} /\ UNCHANGED <<opened, stray, wild>>
  BY <1>6, <1>7, <1>n, <1>w DEF NoName, Anyhow!MakeDirentry, Anyhow!GoWild, Anyhow!Refuse, t, b, c
<1> QED BY <1>8, <1>9, <1>10, <1>11, <1>12

(* The blocks of another inode than the root.                               *)
LEMMA LooseBlocks ==
  ASSUME NEW r, LooseRoot(r), NEW i \in Three \ {Root}
  PROVE  Anyhow!Blocks(i) \subseteq Blocks3 \ {r}
<1>1. Beside(Blocks3, i, inode[i].blk, r) /\ i # Root
  BY LooseNodes
<1>2. {inode[i].blk[k] : k \in DOMAIN inode[i].blk} \subseteq Blocks3 \ {r}
  BY <1>1, OthersBlocks
<1> QED BY <1>2 DEF Anyhow!Blocks, Anyhow!Range

(* A directory that is removed is not the root.                             *)
LEMMA LooseRemoves ==
  ASSUME NEW r, LooseRoot(r), NEW d \in Three, NEW p, Anyhow!Last(p) \in Name, Anyhow!RemoveDirentry(d, p)
  PROVE  LooseRootNext(r)
<1> DEFINE T(e) == e.name = Anyhow!Last(p) /\ e.type = "dir" /\ Anyhow!DirIsEmpty(e.ino)
           z == 3 * Len(inode[d].blk)
           k == Anyhow!SelectInSeq(Anyhow!Entries(d), T)
           t == Anyhow!Entries(d)[k].ino
<1>2. /\ r \in Blocks3 /\ Held(Blocks3, inode, r) /\ Begins(Blocks3, Index3, Name, data, r)
      /\ ifree \subseteq Three \ {Root} /\ opened \cup stray \subseteq Three \ {Root}
      /\ bfree \subseteq Blocks3 \ {r} /\ wild \in BOOLEAN
  BY LooseParts
<1>3. CASE k = 0
  <2>1. UNCHANGED <<inode, data, ifree, bfree, opened, stray, wild>>
    BY <1>3 DEF Anyhow!RemoveDirentry, Anyhow!Refuse
  <2> QED BY <2>1, <1>2, LooseKeeps
<1>4. CASE k # 0
  <2>1. z \in Nat
    <3>1. Len(inode[d].blk) \in Nat /\ 3 \in Nat
      BY LooseNodes, LooseDisk
    <3> QED BY <3>1
  <2>2. Len(Anyhow!Entries(d)) = z /\ \A m \in 1 .. z : Anyhow!Entries(d)[m] = Anyhow!EntryAt(d, m)
    <3>1. Anyhow!Entries(d) = [m \in 1 .. z |-> Anyhow!EntryAt(d, m)]
      BY DEF Anyhow!Entries
    <3> HIDE DEF z
    <3> QED BY <2>1, <3>1
  <2> DEFINE hits == {m \in 1 .. Len(Anyhow!Entries(d)) : T(Anyhow!Entries(d)[m])}
  <2>3. k = IF hits = {} THEN 0 ELSE Anyhow!Min(hits)
    BY DEF Anyhow!SelectInSeq
  <2> HIDE DEF k, z, T
  <2>4. hits \in SUBSET Nat /\ hits # {}
    BY <1>4, <2>1, <2>2, <2>3
  <2>5. Anyhow!Min(hits) \in hits
    <3> HIDE DEF hits
    <3> QED BY <2>4, First DEF Anyhow!Min
  <2>6. k \in 1 .. z /\ T(Anyhow!EntryAt(d, k))
    BY <2>2, <2>3, <2>4, <2>5
  <2>7. k \in 1 .. 3 * Len(inode[d].blk) /\ Anyhow!EntryAt(d, k).name = Anyhow!Last(p)
    BY <2>6 DEF z, T
  <2>8. Anyhow!EntryAt(d, k).ino \in Three \ {Root}
    BY <2>7, LoosePlace
  <2>9. t \in Three \ {Root}
    BY <2>2, <2>6, <2>8
  <2>10. Anyhow!EntryAt(d, k).name # "."
    BY <2>7, LooseDisk DEF Disk
  <2>a. 0 \in Three
    BY DEF Three
  <2>b. "file" \in Kind
    BY DEF Kind, File
  <2>11. Null \in Stuff(Name) /\ Null.name \notin Name
    BY LooseDisk, <2>a, <2>b, NewStuff DEF Null, Dirent
  <2> DEFINE with == Anyhow!WithEntry(d, k, Null)
  <2>12. Begins(Blocks3, Index3, Name, with, r)
    BY <2>7, <2>10, <2>11, LooseWrite
  <2>13. Plain(Index3, Name, Anyhow!Empty)
    <3>1. Anyhow!Empty = [m \in Index3 |-> Null]
      BY LooseDisk, LooseSame DEF Anyhow!Empty
    <3> QED BY <2>11, <3>1, SamePlain
  <2>14. Anyhow!Blocks(t) \subseteq Blocks3 \ {r}
    BY <2>9, LooseBlocks
  <2> DEFINE node == [type |-> "file", blk |-> << >>]
  <2>15. /\ data' = [b \in Blocks3 |-> IF b \in Anyhow!Blocks(t) THEN Anyhow!Empty ELSE with[b]]
         /\ bfree' = bfree \cup Anyhow!Blocks(t)
         /\ inode' = [inode EXCEPT ![t] = node]
         /\ ifree' = ifree \cup {t} /\ UNCHANGED <<opened, stray, wild>>
    BY <1>4, LooseSame DEF Anyhow!RemoveDirentry, Anyhow!Inode, k, T, Blocks3
  <2> HIDE DEF t, with
  <2>16. Begins(Blocks3, Index3, Name, data', r)
    <3> DEFINE F == Anyhow!Blocks(t)
    <3>1. r \notin F /\ data' = [b \in Blocks3 |-> IF b \in F THEN Anyhow!Empty ELSE with[b]]
      BY <2>14, <2>15
    <3> HIDE DEF F
    <3> QED BY <1>2, <2>12, <2>13, <3>1, PutMany
  <2>17. node \in NodeIn(Blocks3) /\ Beside(Blocks3, t, node.blk, r) /\ t # Root
    BY <2>9, NewNodeIn
  <2>18. Held(Blocks3, inode', r)
    <3> HIDE DEF node
    <3> QED BY <1>2, <2>9, <2>15, <2>17, PutNode
  <2> QED BY <1>2, <2>9, <2>14, <2>15, <2>16, <2>18 DEF LooseRootNext, RootKept
<1> QED BY <1>3, <1>4

(* A file that is unlinked is not the root, and its name is not in the      *)
(* first entry of the root.                                                 *)
LEMMA LooseUnlinks ==
  ASSUME NEW r, LooseRoot(r), NEW p \in Anyhow!Path, Anyhow!Unlink(p, TRUE)
  PROVE  LooseRootNext(r)
<1> DEFINE d == Anyhow!DirOf(p)
           n == Anyhow!Last(p)
           f == Anyhow!Find(d, n)
           k == Anyhow!InBlock(f)
           b == inode[d].blk[k]
           x == Anyhow!AtIndex(f)
           l == Anyhow!SelectLastInSeq(data[b], LAMBDA e : e.name = n)
           t == data[b][l].ino
<1>1. d \in Three /\ n \in Name /\ Anyhow!Has(d, n)
  BY LooseTarget DEF Anyhow!Unlink
<1>2. /\ r \in Blocks3 /\ Held(Blocks3, inode, r) /\ Begins(Blocks3, Index3, Name, data, r)
      /\ ifree \subseteq Three \ {Root} /\ opened \cup stray \subseteq Three \ {Root}
      /\ bfree \subseteq Blocks3 \ {r} /\ wild \in BOOLEAN
  BY LooseParts
<1>3. f \in 1 .. 3 * Len(inode[d].blk) /\ Anyhow!EntryAt(d, f).name = n
  BY <1>1, LooseFind
<1> HIDE DEF d, n, f
<1>4. /\ k \in 1 .. Len(inode[d].blk) /\ b \in Blocks3 /\ x \in Index3 /\ data[b][x].name = n
  BY <1>1, <1>3, LoosePlace
<1> HIDE DEF k, x
<1>5. data[b] \in [Index3 -> Stuff(Name)] /\ Plain(Index3, Name, data[b])
  BY <1>2, <1>4 DEF Begins
<1>6. Index3 = 1 .. 3 /\ 3 \in Nat /\ 1 \in Index3
  BY LooseDisk DEF Disk
<1>7. l \in Index3 /\ data[b][l].name = n
  <2> DEFINE s == data[b]
             hits == {m \in 1 .. Len(s) : s[m].name = n}
  <2>1. Len(s) = 3
    BY <1>5, <1>6
  <2>2. l = IF hits = {} THEN 0 ELSE Anyhow!Max(hits)
    BY DEF Anyhow!SelectLastInSeq
  <2> HIDE DEF l, s
  <2>3. x \in hits /\ hits \in SUBSET (1 .. 3)
    BY <1>4, <1>6, <2>1 DEF s
  <2>4. Anyhow!Max(hits) \in hits
    <3> HIDE DEF hits
    <3>1. \E h \in hits : \A c \in hits : h >= c
      BY <1>6, <2>3, Latest
    <3> QED BY <3>1 DEF Anyhow!Max
  <2>5. l \in hits
    BY <2>2, <2>3, <2>4
  <2> QED BY <1>6, <2>1, <2>5 DEF s
<1> HIDE DEF l
<1>8. t \in Three \ {Root}
  <2>1. data[b][l] \in Stuff(Name) /\ data[b][l].ino # Root
    BY <1>1, <1>5, <1>7 DEF Plain
  <2> QED BY <2>1 DEF Stuff
<1>9. Anyhow!Blocks(t) \subseteq Blocks3 \ {r}
  BY <1>8, LooseBlocks
<1> DEFINE cleared == Anyhow!Cleared(b, n)
           new == [m \in Index3 |-> IF data[b][m].name = n THEN Null ELSE data[b][m]]
<1>10. cleared = new
  BY <1>6, LooseSame DEF Anyhow!Cleared
<1>11. Plain(Index3, Name, new) /\ (data[b][1] = RootDot => new[1] = RootDot)
  BY <1>1, <1>5, LooseDisk, ClearPlain
<1> HIDE DEF new, cleared
<1>12. Plain(Index3, Name, cleared) /\ (b = r => cleared[1] = RootDot)
  BY <1>2, <1>10, <1>11 DEF Begins
<1>13. Begins(Blocks3, Index3, Name, [data EXCEPT ![b] = cleared], r)
  BY <1>2, <1>4, <1>6, <1>12, PutBlock
<1> DEFINE empty == \A j \in 1 .. 3 : cleared[j].name = NoName
<1>14. /\ ifree' = ifree \cup {t}
       /\ IF empty
            THEN /\ bfree' = bfree \cup {b} \cup Anyhow!Blocks(t)
                 /\ inode' = [inode EXCEPT ![d].blk = Without(inode[d].blk, k)]
                 /\ data' = [data EXCEPT ![b] = cleared] \/ data' = data
            ELSE /\ bfree' = bfree \cup Anyhow!Blocks(t)
                 /\ data' = [data EXCEPT ![b] = cleared]
                 /\ UNCHANGED inode
       /\ UNCHANGED <<opened, stray, wild>>
  BY LooseSame DEF Anyhow!Unlink, NoName, cleared, l, d, n, f, k
<1>15. Begins(Blocks3, Index3, Name, data', r)
  BY <1>2, <1>13, <1>14
<1> HIDE DEF t
<1>16. ifree' \subseteq Three \ {Root}
  BY <1>2, <1>8, <1>14
<1>17. CASE empty
  <2>1. b # r
    <3>1. cleared[1].name = NoName
      BY <1>6, <1>17
    <3>2. RootDot.name # NoName
      BY NameFacts DEF RootDot, Dirent, Self
    <3> QED BY <1>12, <3>1, <3>2
  <2>2. Beside(Blocks3, d, inode[d].blk, r)
    BY <1>1, LooseNodes
  <2>3. Beside(Blocks3, d, Without(inode[d].blk, k), r)
    BY <1>4, <2>1, <2>2, OneLess
  <2>4. Held(Blocks3, inode', r)
    <3>1. inode' = [inode EXCEPT ![d].blk = Without(inode[d].blk, k)]
      BY <1>14, <1>17
    <3> QED BY <1>1, <1>2, <2>3, <3>1, PutBlocks
  <2>5. bfree' \subseteq Blocks3 \ {r}
    <3>1. bfree' = bfree \cup {b} \cup Anyhow!Blocks(t)
      BY <1>14, <1>17
    <3> QED BY <1>2, <1>4, <1>9, <2>1, <3>1
  <2> QED BY <1>2, <1>14, <1>15, <1>16, <2>4, <2>5 DEF LooseRootNext, RootKept
<1>18. CASE ~empty
  <2>1. bfree' = bfree \cup Anyhow!Blocks(t) /\ inode' = inode
    BY <1>14, <1>18
  <2>2. bfree' \subseteq Blocks3 \ {r}
    BY <1>2, <1>9, <2>1
  <2> QED BY <1>2, <1>14, <1>15, <1>16, <2>1, <2>2 DEF LooseRootNext, RootKept
<1> QED BY <1>17, <1>18

(* An open file is not the root.                                            *)
LEMMA LooseOpens ==
  ASSUME NEW r, LooseRoot(r), \/ \E p \in Anyhow!Path : Anyhow!Open(p)
                           \/ \E i \in Three : Anyhow!Release(i)
  PROVE  LooseRootNext(r)
<1>2. /\ r \in Blocks3 /\ Held(Blocks3, inode, r) /\ Begins(Blocks3, Index3, Name, data, r)
      /\ ifree \subseteq Three \ {Root} /\ opened \cup stray \subseteq Three \ {Root}
      /\ bfree \subseteq Blocks3 \ {r} /\ wild \in BOOLEAN
  BY LooseParts
<1>3. ASSUME NEW p \in Anyhow!Path, Anyhow!Open(p)
      PROVE  opened' \cup stray' \subseteq Three \ {Root} /\ UNCHANGED <<inode, data, ifree, bfree, wild>>
  <2>1. Anyhow!Target(p).ino \in Three \ {Root}
    BY <1>3, LooseTarget DEF Anyhow!Open
  <2> QED BY <1>2, <1>3, <2>1 DEF Anyhow!Open
<1>4. ASSUME NEW i \in Three, Anyhow!Release(i)
      PROVE  opened' \cup stray' \subseteq Three \ {Root} /\ UNCHANGED <<inode, data, ifree, bfree, wild>>
  BY <1>2, <1>4 DEF Anyhow!Release
<1>5. opened' \cup stray' \subseteq Three \ {Root} /\ UNCHANGED <<inode, data, ifree, bfree, wild>>
  BY <1>3, <1>4
<1> QED BY <1>2, <1>5 DEF LooseRootNext, RootKept

(* Blocks of nothing but entries without a name of a program.               *)
LEMMA LooseBlank == Plain(Index3, Name, Anyhow!Garbage) /\ Plain(Index3, Name, Anyhow!Empty)
<1>1. /\ Anyhow!Empty = [m \in Index3 |-> Dirent("", 0, "file")]
      /\ Anyhow!Garbage = [m \in Index3 |-> Dirent("junk", 0, "file")]
  BY LooseDisk, LooseSame DEF Anyhow!Empty, Anyhow!Garbage, Null
<1>a. 0 \in Three
  BY DEF Three
<1>b. "file" \in Kind
  BY DEF Kind, File
<1>2. Dirent("", 0, "file") \in Stuff(Name) /\ Dirent("", 0, "file").name \notin Name
  BY LooseDisk, <1>a, <1>b, NewStuff DEF Dirent
<1>3. Dirent("junk", 0, "file") \in Stuff(Name) /\ Dirent("junk", 0, "file").name \notin Name
  BY LooseDisk, <1>a, <1>b, NewStuff DEF Dirent
<1> QED BY <1>1, <1>2, <1>3, SamePlain

(* A file that grows is not the root, and its new block was free.           *)
LEMMA LooseGrows ==
  ASSUME NEW r, LooseRoot(r), NEW i \in Three, Anyhow!Grow(i, TRUE)
  PROVE  LooseRootNext(r)
<1> DEFINE b == Anyhow!FirstFree(bfree)
<1>2. /\ r \in Blocks3 /\ Held(Blocks3, inode, r) /\ Begins(Blocks3, Index3, Name, data, r)
      /\ ifree \subseteq Three \ {Root} /\ opened \cup stray \subseteq Three \ {Root}
      /\ bfree \subseteq Blocks3 \ {r} /\ wild \in BOOLEAN
  BY LooseParts
<1>3. CASE bfree = {}
  <2>1. UNCHANGED <<inode, data, ifree, bfree, opened, stray, wild>>
    BY <1>3 DEF Anyhow!Grow
  <2> QED BY <2>1, <1>2, LooseKeeps
<1>4. CASE bfree # {}
  <2>1. b \in Blocks3 \ {r}
    BY <1>4, LooseFreeOnes
  <2>2. /\ inode' = [inode EXCEPT ![i].blk = Append(inode[i].blk, b)]
        /\ data' = [data EXCEPT ![b] = Anyhow!Garbage] \/ data' = [data EXCEPT ![b] = Anyhow!Empty]
        /\ bfree' = bfree \ {b} /\ UNCHANGED <<ifree, opened, stray, wild>>
        /\ Len(inode[i].blk) < NDirect
    BY <1>4 DEF Anyhow!Grow, Anyhow!Payload
  <2> HIDE DEF b
  <2>3. Beside(Blocks3, i, Append(inode[i].blk, b), r)
    <3>1. Beside(Blocks3, i, inode[i].blk, r)
      BY LooseNodes
    <3> QED BY <2>1, <2>2, <3>1, OneMore
  <2>4. Held(Blocks3, inode', r)
    BY <1>2, <2>2, <2>3, PutBlocks
  <2>5. Plain(Index3, Name, Anyhow!Garbage) /\ Plain(Index3, Name, Anyhow!Empty)
    BY LooseBlank
  <2>a. 1 \in Index3
    BY LooseDisk DEF Disk
  <2>6. Begins(Blocks3, Index3, Name, data', r)
    <3>1. PICK d : data' = [data EXCEPT ![b] = d] /\ Plain(Index3, Name, d)
      BY <2>2, <2>5
    <3>2. Begins(Blocks3, Index3, Name, [data EXCEPT ![b] = d], r)
      BY <1>2, <2>1, <2>a, <3>1, PutBlock
    <3> QED BY <3>1, <3>2
  <2> QED BY <1>2, <2>2, <2>4, <2>6 DEF LooseRootNext, RootKept
<1> QED BY <1>3, <1>4

(* The formatted disk has a root.                                           *)
LEMMA LooseStarts ==
  ASSUME Anyhow!Init
  PROVE  \E r : LooseRoot(r)
<1> DEFINE r == Anyhow!FirstFree(Blocks3)
           start == [type |-> "dir", blk |-> <<r>>]
           other == [type |-> "file", blk |-> << >>]
<1>1. r \in Blocks3
  <2>1. Blocks3 \in SUBSET Nat /\ Blocks3 # {}
    BY LooseDisk DEF Blocks3
  <2> QED BY <2>1, LooseFirst
<1>2. /\ inode = [i \in Three |-> IF i = Root THEN start ELSE other]
      /\ data = [c \in Blocks3 |-> IF c = r THEN Anyhow!Dots(Anyhow!Empty, Root, Root) ELSE Anyhow!Empty]
      /\ ifree = Three \ {Root} /\ bfree = Blocks3 \ {r} /\ opened \cup stray = {} /\ wild = FALSE
  BY LooseSame DEF Anyhow!Init, Anyhow!Inode, Three, Blocks3
<1> HIDE DEF r
<1>a. 0 \in Three /\ Root \in Three
  BY DEF Three, Root
<1>b. "file" \in Kind /\ "dir" \in Kind
  BY DEF Kind, File, Dir
<1>3. Plain(Index3, Name, Anyhow!Empty)
  <2>1. Anyhow!Empty = [m \in Index3 |-> Null]
    BY LooseDisk, LooseSame DEF Anyhow!Empty
  <2>2. Null \in Stuff(Name) /\ Null.name \notin Name
    BY LooseDisk, <1>a, <1>b, NewStuff DEF Null, Dirent
  <2> QED BY <2>1, <2>2, SamePlain
<1> DEFINE dots == [Anyhow!Empty EXCEPT ![1] = Dirent(".", Root, "dir"), ![2] = Dirent("..", Root, "dir")]
<1>4. Anyhow!Dots(Anyhow!Empty, Root, Root) = dots
  BY LooseSame DEF Anyhow!Dots
<1>5. Plain(Index3, Name, dots)
  BY LooseDisk, <1>3, <1>a, DotsPlain
<1>6. dots[1] = RootDot
  <2> DEFINE E == Anyhow!Empty
             f == Dirent("..", Root, "dir")
  <2>1. E \in [Index3 -> Stuff(Name)]
    BY <1>3 DEF Plain
  <2>a. 1 \in Index3
    BY LooseDisk DEF Disk
  <2>2. dots = [E EXCEPT ![1] = RootDot, ![2] = f]
    BY DEF RootDot
  <2> HIDE DEF E, f, dots
  <2> QED BY <2>1, <2>a, <2>2
<1> HIDE DEF dots
<1>7. Begins(Blocks3, Index3, Name, data, r)
  <2>1. \A c \in Blocks3 : data[c] = IF c = r THEN dots ELSE Anyhow!Empty
    BY <1>2, <1>4
  <2>2. \A c \in Blocks3 : Plain(Index3, Name, data[c])
    BY <1>3, <1>5, <2>1
  <2>3. data \in [Blocks3 -> [Index3 -> Stuff(Name)]]
    <3>1. data = [c \in Blocks3 |-> data[c]]
      BY <1>2
    <3>2. \A c \in Blocks3 : data[c] \in [Index3 -> Stuff(Name)]
      BY <2>2 DEF Plain
    <3> QED BY <3>1, <3>2
  <2> QED BY <1>1, <1>6, <2>1, <2>2, <2>3 DEF Begins
<1>8. start \in NodeIn(Blocks3) /\ Beside(Blocks3, Root, start.blk, r) /\ start.type = Dir
  <2>1. <<r>> \in Seq(Blocks3) /\ Len(<<r>>) = 1 /\ <<r>>[1] = r /\ 1 <= NDirect /\ 1 > 0
    BY <1>1, SizeAssumption
  <2>2. start.type = "dir" /\ start.blk = <<r>>
    OBVIOUS
  <2>3. Beside(Blocks3, Root, start.blk, r)
    BY <2>1, <2>2 DEF Beside
  <2> QED BY <1>b, <2>1, <2>2, <2>3 DEF NodeIn, Dir
<1>9. \A i \in Three \ {Root} : other \in NodeIn(Blocks3) /\ Beside(Blocks3, i, other.blk, r)
  BY NewNodeIn
<1> HIDE DEF start, other
<1>10. Held(Blocks3, inode, r)
  <2>1. \A i \in Three : inode[i] = IF i = Root THEN start ELSE other
    BY <1>2
  <2>2. \A i \in Three : inode[i] \in NodeIn(Blocks3) /\ Beside(Blocks3, i, inode[i].blk, r)
    BY <1>8, <1>9, <2>1
  <2>3. inode \in [Three -> NodeIn(Blocks3)]
    <3>1. inode = [i \in Three |-> inode[i]]
      BY <1>2
    <3> QED BY <2>2, <3>1
  <2> QED BY <1>8, <1>a, <2>1, <2>2, <2>3 DEF Held
<1>11. LooseRoot(r)
  BY <1>1, <1>2, <1>7, <1>10 DEF LooseRoot, RootKept
<1> QED BY <1>11

(* A file that is truncated is not the root.                                *)
LEMMA LooseTruncates ==
  ASSUME NEW r, LooseRoot(r), NEW p \in Anyhow!Path, Anyhow!EarlierTruncate(p)
  PROVE  LooseRootNext(r)
<1> DEFINE i == Anyhow!Target(p).ino
<1>1. i \in Three \ {Root}
  BY LooseTarget DEF Anyhow!EarlierTruncate
<1>2. /\ r \in Blocks3 /\ Held(Blocks3, inode, r) /\ Begins(Blocks3, Index3, Name, data, r)
      /\ ifree \subseteq Three \ {Root} /\ opened \cup stray \subseteq Three \ {Root}
      /\ bfree \subseteq Blocks3 \ {r} /\ wild \in BOOLEAN
  BY LooseParts
<1>3. /\ inode' = [inode EXCEPT ![i].blk = << >>]
      /\ bfree' = bfree \cup Anyhow!Blocks(i) /\ UNCHANGED <<data, ifree, opened, stray, wild>>
  BY DEF Anyhow!EarlierTruncate
<1> HIDE DEF i
<1>4. Held(Blocks3, inode', r)
  <2>1. Beside(Blocks3, i, inode[i].blk, r)
    BY <1>1, LooseNodes
  <2>2. Beside(Blocks3, i, << >>, r)
    BY <1>1, <2>1, OthersBlocks
  <2> QED BY <1>1, <1>2, <1>3, <2>2, PutBlocks
<1>5. bfree' \subseteq Blocks3 \ {r}
  BY <1>1, <1>2, <1>3, LooseBlocks
<1> QED BY <1>2, <1>3, <1>4, <1>5 DEF LooseRootNext, RootKept

(* A name that is removed is not in the first entry of the root.            *)
LEMMA LooseDrops ==
  ASSUME NEW r, LooseRoot(r), NEW dat, Begins(Blocks3, Index3, Name, dat, r),
         NEW ind, Held(Blocks3, ind, r), NEW free \in SUBSET (Blocks3 \ {r}),
         NEW d \in Three, NEW n \in Name, Anyhow!RemoveDentry(dat, ind, free, d, n),
         \E m \in 1 .. 3 * Len(inode[d].blk) :
           dat[inode[d].blk[Anyhow!InBlock(m)]][Anyhow!AtIndex(m)].name = n
  PROVE  /\ Begins(Blocks3, Index3, Name, data', r) /\ Held(Blocks3, inode', r)
         /\ bfree' \subseteq Blocks3 \ {r}
<1> DEFINE z == 3 * Len(inode[d].blk)
           NameAt(m) == dat[inode[d].blk[Anyhow!InBlock(m)]][Anyhow!AtIndex(m)]
           s == [m \in 1 .. z |-> NameAt(m)]
           k == Anyhow!FirstPlace(dat, d, n)
           hits == {m \in 1 .. Len(s) : s[m].name = n}
<1>1. z \in Nat
  <2>1. Len(inode[d].blk) \in Nat
    BY LooseNodes
  <2> QED BY <2>1
<1>2. k = IF hits = {} THEN 0 ELSE Anyhow!Min(hits)
  BY DEF Anyhow!FirstPlace, Anyhow!SelectInSeq
<1> HIDE DEF k
<1>3. k \in 1 .. z /\ NameAt(k).name = n
  <2>1. PICK m \in 1 .. z : NameAt(m).name = n
    OBVIOUS
  <2> HIDE DEF z, NameAt
  <2>2. Len(s) = z /\ \A h \in 1 .. z : s[h] = NameAt(h)
    BY <1>1
  <2> HIDE DEF s
  <2>3. m \in hits /\ hits \in SUBSET Nat
    BY <1>1, <2>1, <2>2
  <2>4. Anyhow!Min(hits) \in hits
    <3> HIDE DEF hits
    <3> QED BY <2>3, First DEF Anyhow!Min
  <2>5. k \in hits
    BY <1>2, <2>3, <2>4
  <2> QED BY <2>2, <2>5
<1> DEFINE l == Anyhow!InBlock(k)
           b == inode[d].blk[l]
           x == Anyhow!AtIndex(k)
           left == [dat EXCEPT ![b][x] = Null]
           empty == \A j \in 1 .. 3 : left[b][j].name = NoName
<1>4. l \in 1 .. Len(inode[d].blk) /\ b \in Blocks3 /\ x \in Index3
  BY <1>3, LoosePlace
<1>5. /\ data' = left
      /\ inode' = IF empty THEN [ind EXCEPT ![d].blk = Without(inode[d].blk, l)] ELSE ind
      /\ bfree' = IF empty THEN free \cup {b} ELSE free
  BY LooseSame DEF Anyhow!RemoveDentry, NoName, k
<1>6. dat[b][x].name = n
  BY <1>3
<1> HIDE DEF l, b, x, NameAt, s, z, hits
<1>7. b # r \/ x # 1
  <2>1. n # "."
    BY LooseDisk DEF Disk
  <2>2. dat[r][1].name = "."
    BY DEF Begins, RootDot, Dirent
  <2> QED BY <1>6, <2>1, <2>2
<1>a. 0 \in Three
  BY DEF Three
<1>b. "file" \in Kind
  BY DEF Kind, File
<1>8. Null \in Stuff(Name) /\ Null.name \notin Name
  BY LooseDisk, <1>a, <1>b, NewStuff DEF Null, Dirent
<1>c. 1 \in Index3
  BY LooseDisk DEF Disk
<1>9. Begins(Blocks3, Index3, Name, left, r)
  BY <1>4, <1>7, <1>8, <1>c, PutEntry
<1> HIDE DEF left
<1>10. CASE empty
  <2>1. b # r
    <3>1. left[b][1].name = NoName
      BY <1>10
    <3>2. left[r][1].name # NoName
      BY <1>9, NameFacts DEF Begins, RootDot, Dirent, Self
    <3> QED BY <3>1, <3>2
  <2>2. Beside(Blocks3, d, inode[d].blk, r)
    BY LooseNodes
  <2>3. inode[d].blk[l] # r
    BY <2>1 DEF b
  <2>4. Beside(Blocks3, d, Without(inode[d].blk, l), r)
    BY <1>4, <2>2, <2>3, OneLess
  <2>5. Held(Blocks3, [ind EXCEPT ![d].blk = Without(inode[d].blk, l)], r)
    BY <2>4, PutBlocks
  <2> QED BY <1>4, <1>5, <1>9, <1>10, <2>1, <2>5
<1>11. CASE ~empty
  BY <1>5, <1>9, <1>11
<1> QED BY <1>10, <1>11

(* A rename over a name frees neither the root nor its first block.         *)
LEMMA LooseOverwrites ==
  ASSUME NEW r, LooseRoot(r), NEW p \in Anyhow!Path, NEW q \in Anyhow!Path,
         Anyhow!Resolves(p), Anyhow!Overwrite(p, q)
  PROVE  LooseRootNext(r)
<1> DEFINE e == Anyhow!Target(p)
           d == Anyhow!DirOf(p)
           k == Anyhow!Find(d, Anyhow!Last(p))
           g == Anyhow!DirOf(q)
           l == Anyhow!Find(g, Anyhow!Last(q))
           f == [e EXCEPT !.name = Anyhow!Last(q)]
           renamed == Anyhow!WithEntry(d, k, f)
           b == inode[g].blk[Anyhow!InBlock(l)]
           x == Anyhow!AtIndex(l)
           copied == [renamed EXCEPT ![b][x] = f]
           t == Anyhow!Target(q).ino
           c == inode[d].blk[Anyhow!InBlock(k)]
           y == Anyhow!AtIndex(k)
<1>1. /\ d \in Three /\ Anyhow!Last(p) \in Name /\ Anyhow!Has(d, Anyhow!Last(p))
      /\ e \in Stuff(Name) /\ e.ino \in Three \ {Root}
  BY LooseTarget
<1>2. /\ g \in Three /\ Anyhow!Last(q) \in Name /\ Anyhow!Has(g, Anyhow!Last(q))
      /\ t \in Three \ {Root}
  BY LooseTarget DEF Anyhow!Overwrite
<1>3. /\ r \in Blocks3 /\ Held(Blocks3, inode, r) /\ Begins(Blocks3, Index3, Name, data, r)
      /\ ifree \subseteq Three \ {Root} /\ opened \cup stray \subseteq Three \ {Root}
      /\ bfree \subseteq Blocks3 \ {r} /\ wild \in BOOLEAN
  BY LooseParts
<1>4. /\ Anyhow!RemoveDentry(copied, inode, bfree \cup Anyhow!Blocks(t), d, Anyhow!Last(q))
      /\ ifree' = ifree \cup {t} /\ UNCHANGED <<opened, stray, wild>>
  BY DEF Anyhow!Overwrite, Anyhow!GiveInode
<1>5. f \in Stuff(Name) /\ f.name = Anyhow!Last(q) /\ f.ino # Root
  <2> DEFINE A == Name \cup {"", ".", "..", "junk"}
             n == Anyhow!Last(q)
  <2>1. e \in [name : A, ino : Three, type : Kind] /\ n \in A
    BY <1>1, <1>2 DEF Stuff
  <2>2. e.ino # Root
    BY <1>1
  <2> HIDE DEF A, e, n
  <2>3. /\ [e EXCEPT !.name = n] \in [name : A, ino : Three, type : Kind]
        /\ [e EXCEPT !.name = n].name = n /\ [e EXCEPT !.name = n].ino # Root
    BY <2>1, <2>2
  <2> QED BY <2>3 DEF A, Stuff, n
<1>6. Begins(Blocks3, Index3, Name, renamed, r)
  <2> HIDE DEF f, d
  <2> QED BY <1>1, <1>5, LooseWriteFound
<1>7. /\ l \in 1 .. 3 * Len(inode[g].blk) /\ k \in 1 .. 3 * Len(inode[d].blk)
      /\ Anyhow!EntryAt(g, l).name = Anyhow!Last(q)
  BY <1>1, <1>2, LooseFind
<1> HIDE DEF l, k, g, d, e, f
<1>8. /\ b \in Blocks3 /\ x \in Index3 /\ data[b][x].name = Anyhow!Last(q)
      /\ b = r /\ x = 1 => data[b][x].name = "."
      /\ c \in Blocks3 /\ y \in Index3
  BY <1>1, <1>2, <1>7, LoosePlace
<1>9. b # r \/ x # 1
  <2>1. Anyhow!Last(q) # "."
    BY <1>2, LooseDisk DEF Disk
  <2> QED BY <1>8, <2>1
<1>10. renamed = [data EXCEPT ![c][y] = f]
  BY DEF Anyhow!WithEntry
<1> HIDE DEF b, x, c, y, renamed, t
<1>c. 1 \in Index3
  BY LooseDisk DEF Disk
<1>11. Begins(Blocks3, Index3, Name, copied, r)
  BY <1>5, <1>6, <1>8, <1>9, <1>c, PutEntry
<1>12. copied[c][y].name = Anyhow!Last(q)
  <2>1. data \in [Blocks3 -> [Index3 -> Stuff(Name)]] /\ renamed \in [Blocks3 -> [Index3 -> Stuff(Name)]]
    BY <1>3, <1>6 DEF Begins
  <2>2. renamed[c][y] = f
    BY <1>8, <1>10, <2>1, PutMeans
  <2>3. copied[c][y] \in {f, renamed[c][y]}
    BY <1>8, <2>1, PutMeans
  <2> QED BY <1>5, <2>2, <2>3
<1> HIDE DEF copied
<1>13. bfree \cup Anyhow!Blocks(t) \in SUBSET (Blocks3 \ {r})
  BY <1>2, <1>3, LooseBlocks
<1>14. \E m \in 1 .. 3 * Len(inode[d].blk) :
         copied[inode[d].blk[Anyhow!InBlock(m)]][Anyhow!AtIndex(m)].name = Anyhow!Last(q)
  BY <1>7, <1>12 DEF c, y
<1>15. /\ Begins(Blocks3, Index3, Name, data', r) /\ Held(Blocks3, inode', r)
       /\ bfree' \subseteq Blocks3 \ {r}
  BY <1>1, <1>2, <1>3, <1>4, <1>11, <1>13, <1>14, LooseDrops
<1> QED BY <1>2, <1>3, <1>4, <1>15 DEF LooseRootNext, RootKept

(* A rename to a new name writes no entry for the root.                     *)
LEMMA LooseAdds ==
  ASSUME NEW r, LooseRoot(r), NEW p \in Anyhow!Path, NEW q \in Anyhow!Path,
         Anyhow!Resolves(p), Anyhow!Add(p, q)
  PROVE  LooseRootNext(r)
<1> DEFINE e == Anyhow!Target(p)
           h == Anyhow!DirOf(p)
           n == Anyhow!Last(p)
           k == Anyhow!Find(h, n)
           d == Anyhow!DirOf(q)
           b == Anyhow!FirstFree(bfree)
           c == inode[h].blk[Anyhow!InBlock(k)]
           y == Anyhow!AtIndex(k)
<1>1. /\ h \in Three /\ n \in Name /\ Anyhow!Has(h, n)
      /\ e \in Stuff(Name) /\ e.ino \in Three \ {Root} /\ e.name = n
  BY LooseTarget
<1>2. d \in Three
  BY LooseWalk DEF Anyhow!DirOf
<1>3. /\ r \in Blocks3 /\ Held(Blocks3, inode, r) /\ Begins(Blocks3, Index3, Name, data, r)
      /\ ifree \subseteq Three \ {Root} /\ opened \cup stray \subseteq Three \ {Root}
      /\ bfree \subseteq Blocks3 \ {r} /\ wild \in BOOLEAN
  BY LooseParts
<1>4. \/ /\ Anyhow!Has(d, NoName)
         /\ Anyhow!RemoveDentry(Anyhow!WithEntry(d, Anyhow!Find(d, NoName), e), inode, bfree, h, n)
         /\ UNCHANGED <<ifree, opened, stray, wild>>
      \/ /\ ~Anyhow!Has(d, NoName) /\ ~Anyhow!Full(d) /\ bfree # {}
         /\ Anyhow!RemoveDentry([data EXCEPT ![b][1] = e], Anyhow!Grown(d, b), bfree \ {b}, h, n)
         /\ UNCHANGED <<ifree, opened, stray, wild>>
      \/ UNCHANGED <<inode, data, ifree, bfree, opened, stray, wild>>
  BY DEF NoName, Anyhow!Add, Anyhow!Refuse
<1>5. k \in 1 .. 3 * Len(inode[h].blk) /\ Anyhow!EntryAt(h, k).name = n
  BY <1>1, LooseFind
<1> HIDE DEF k, h, n, e, d
<1>6. c \in Blocks3 /\ y \in Index3 /\ data[c][y].name = n
  BY <1>1, <1>5, LoosePlace
<1> HIDE DEF c, y
<1>7. data \in [Blocks3 -> [Index3 -> Stuff(Name)]]
  BY <1>3 DEF Begins
<1>8. ASSUME NEW f \in Blocks3, NEW x \in Index3, NEW dat, dat = [data EXCEPT ![f][x] = e]
      PROVE  \E m \in 1 .. 3 * Len(inode[h].blk) :
               dat[inode[h].blk[Anyhow!InBlock(m)]][Anyhow!AtIndex(m)].name = n
  <2>1. dat[c][y] \in {e, data[c][y]}
    BY <1>6, <1>7, <1>8, PutMeans
  <2>2. dat[c][y].name = n
    BY <1>1, <1>6, <2>1
  <2> QED BY <1>5, <2>2 DEF c, y
<1>c. 1 \in Index3
  BY LooseDisk DEF Disk
<1>9. CASE /\ Anyhow!Has(d, NoName)
           /\ Anyhow!RemoveDentry(Anyhow!WithEntry(d, Anyhow!Find(d, NoName), e), inode, bfree, h, n)
           /\ UNCHANGED <<ifree, opened, stray, wild>>
  <2> DEFINE l == Anyhow!Find(d, NoName)
             f == inode[d].blk[Anyhow!InBlock(l)]
             x == Anyhow!AtIndex(l)
             dat == Anyhow!WithEntry(d, l, e)
  <2>1. Begins(Blocks3, Index3, Name, dat, r)
    BY <1>1, <1>2, <1>9, LooseWriteFound
  <2>2. l \in 1 .. 3 * Len(inode[d].blk)
    BY <1>2, <1>9, LooseFind
  <2> HIDE DEF l
  <2>3. f \in Blocks3 /\ x \in Index3
    BY <1>2, <2>2, LoosePlace
  <2>4. dat = [data EXCEPT ![f][x] = e]
    BY DEF Anyhow!WithEntry
  <2> HIDE DEF f, x, dat
  <2>5. \E m \in 1 .. 3 * Len(inode[h].blk) :
          dat[inode[h].blk[Anyhow!InBlock(m)]][Anyhow!AtIndex(m)].name = n
    BY <1>8, <2>3, <2>4
  <2>6. Anyhow!RemoveDentry(dat, inode, bfree, h, n) /\ bfree \in SUBSET (Blocks3 \ {r})
    BY <1>3, <1>9 DEF dat, l
  <2>7. /\ Begins(Blocks3, Index3, Name, data', r) /\ Held(Blocks3, inode', r)
        /\ bfree' \subseteq Blocks3 \ {r}
    BY <1>1, <1>3, <2>1, <2>5, <2>6, LooseDrops
  <2> QED BY <1>3, <1>9, <2>7 DEF LooseRootNext, RootKept
<1>10. CASE /\ ~Anyhow!Has(d, NoName) /\ ~Anyhow!Full(d) /\ bfree # {}
            /\ Anyhow!RemoveDentry([data EXCEPT ![b][1] = e], Anyhow!Grown(d, b), bfree \ {b}, h, n)
            /\ UNCHANGED <<ifree, opened, stray, wild>>
  <2>1. b \in Blocks3 \ {r}
    BY <1>10, LooseFreeOnes
  <2> HIDE DEF b
  <2>2. Held(Blocks3, Anyhow!Grown(d, b), r)
    BY <1>2, <1>10, <2>1, LooseGrown
  <2> DEFINE dat == [data EXCEPT ![b][1] = e]
  <2>3. Begins(Blocks3, Index3, Name, dat, r)
    BY <1>1, <1>3, <1>c, <2>1, PutEntry
  <2>4. \E m \in 1 .. 3 * Len(inode[h].blk) :
          dat[inode[h].blk[Anyhow!InBlock(m)]][Anyhow!AtIndex(m)].name = n
    BY <1>8, <1>c, <2>1
  <2>5. /\ Anyhow!RemoveDentry(dat, Anyhow!Grown(d, b), bfree \ {b}, h, n)
        /\ bfree \ {b} \in SUBSET (Blocks3 \ {r})
    BY <1>3, <1>10
  <2> HIDE DEF dat
  <2>6. /\ Begins(Blocks3, Index3, Name, data', r) /\ Held(Blocks3, inode', r)
        /\ bfree' \subseteq Blocks3 \ {r}
    BY <1>1, <2>2, <2>3, <2>4, <2>5, LooseDrops
  <2> QED BY <1>3, <1>10, <2>6 DEF LooseRootNext, RootKept
<1>11. CASE UNCHANGED <<inode, data, ifree, bfree, opened, stray, wild>>
  BY <1>3, <1>11, LooseKeeps
<1> QED BY <1>4, <1>9, <1>10, <1>11

(* The handlers of the earlier version keep the root.                       *)
LEMMA LooseSteps ==
  ASSUME NEW r, LooseRoot(r), Anyhow!EarlierNext
  PROVE  LooseRootNext(r)
<1>1. ASSUME NEW p \in Anyhow!Path, Anyhow!EarlierMkdir(p) PROVE LooseRootNext(r)
  <2> DEFINE d == Anyhow!DirOf(p)
  <2>1. d \in Three /\ Anyhow!Last(p) \in Name
    BY LooseWalk DEF Anyhow!DirOf
  <2>2. \/ Anyhow!MakeDirentry(d, p, TRUE)
        \/ UNCHANGED <<inode, data, ifree, bfree, opened, stray, wild>>
    BY <1>1 DEF Anyhow!EarlierMkdir, Anyhow!Refuse
  <2> HIDE DEF d
  <2> QED BY <2>1, <2>2, LooseMakes, LooseParts, LooseKeeps
<1>2. ASSUME NEW p \in Anyhow!Path, Anyhow!EarlierRmdir(p) PROVE LooseRootNext(r)
  <2> DEFINE d == Anyhow!DirOf(p)
  <2>1. d \in Three /\ Anyhow!Last(p) \in Name
    BY LooseWalk DEF Anyhow!DirOf
  <2>2. \/ Anyhow!RemoveDirentry(d, p)
        \/ UNCHANGED <<inode, data, ifree, bfree, opened, stray, wild>>
    BY <1>2 DEF Anyhow!EarlierRmdir, Anyhow!Refuse
  <2> HIDE DEF d
  <2> QED BY <2>1, <2>2, LooseRemoves, LooseParts, LooseKeeps
<1>3. ASSUME NEW p \in Anyhow!Path, NEW q \in Anyhow!Path, Anyhow!Rename(p, q)
      PROVE  LooseRootNext(r)
  <2>1. Anyhow!Resolves(p) /\ (Anyhow!Overwrite(p, q) \/ Anyhow!Add(p, q))
    BY <1>3 DEF Anyhow!Rename, Anyhow!KernelSends
  <2> QED BY <2>1, LooseOverwrites, LooseAdds
<1>4. ASSUME Anyhow!Stopped PROVE LooseRootNext(r)
  <2>1. UNCHANGED <<inode, data, ifree, bfree, opened, stray, wild>>
    BY <1>4 DEF Anyhow!Stopped, Anyhow!vars
  <2> QED BY <2>1, LooseParts, LooseKeeps
<1>5. ASSUME NEW p \in Anyhow!Path,
             Anyhow!Create(p, TRUE) \/ Anyhow!EarlierMkdir(p) \/ Anyhow!Unlink(p, TRUE) \/ Anyhow!EarlierRmdir(p)
               \/ Anyhow!Open(p) \/ Anyhow!EarlierTruncate(p)
      PROVE  LooseRootNext(r)
  BY <1>1, <1>2, <1>5, LooseCreates, LooseUnlinks, LooseOpens, LooseTruncates
<1>6. ASSUME NEW i \in Three, Anyhow!Release(i) \/ Anyhow!Grow(i, TRUE)
      PROVE  LooseRootNext(r)
  BY <1>6, LooseOpens, LooseGrows
<1> QED BY <1>3, <1>4, <1>5, <1>6 DEF Anyhow!EarlierNext, Three

(* What is said of the root follows.                                        *)
LEMMA LooseRight ==
  ASSUME NEW r, LooseRoot(r)
  PROVE  Anyhow!RootStays
<1>2. /\ r \in Blocks3 /\ Held(Blocks3, inode, r) /\ Begins(Blocks3, Index3, Name, data, r)
      /\ ifree \subseteq Three \ {Root} /\ opened \cup stray \subseteq Three \ {Root}
      /\ bfree \subseteq Blocks3 \ {r} /\ wild \in BOOLEAN
  BY LooseParts
<1>a. Root \in Three
  BY DEF Three, Root
<1>6. /\ inode[Root].type = "dir" /\ inode[Root].blk[1] = r /\ Len(inode[Root].blk) > 0
      /\ Len(inode[Root].blk) \in Nat
  BY <1>2, <1>a, LooseNodes DEF Held, Beside, Dir
<1>7. \A i \in Three \ {Root} : r \notin Anyhow!Blocks(i)
  BY LooseBlocks
<1>8. Anyhow!Entries(Root)[1] = RootDot
  <2> DEFINE z == 3 * Len(inode[Root].blk)
  <2>1. 1 \in 1 .. z
    BY <1>6
  <2>2. Anyhow!Entries(Root)[1] = Anyhow!EntryAt(Root, 1)
    <3>1. Anyhow!Entries(Root) = [k \in 1 .. z |-> Anyhow!EntryAt(Root, k)]
      BY DEF Anyhow!Entries
    <3> HIDE DEF z
    <3> QED BY <2>1, <3>1
  <2>3. Anyhow!InBlock(1) = 1 /\ Anyhow!AtIndex(1) = 1
    BY DEF Anyhow!InBlock, Anyhow!AtIndex
  <2>4. Anyhow!EntryAt(Root, 1) = data[r][1]
    BY <1>6, <2>3 DEF Anyhow!EntryAt
  <2> QED BY <1>2, <2>2, <2>4 DEF Begins
<1> QED BY <1>2, <1>6, <1>7, <1>8, LooseSame DEF Anyhow!RootStays, RootDot, Three

-----------------------------------------------------------------------------
RootAlways == /\ programs = "flat" => \E r : FilledRoot(r)
              /\ programs = "careless" => \E r : LooseRoot(r)

(* The root can be read and is its own, whatever becomes of other names: of   *)
(* net/, for programs that fill the root up and are given blocks that look    *)
(* like directories, and write through what a create left in fi->fh that lost *)
(* its value, and of the earlier version, for programs that rename where that *)
(* is known to lose names.  There are three inodes, as MCTinyFS says, and two *)
(* names or three blocks, but any number of open files, any size of i_block,  *)
(* and for the earlier version paths of every length.                         *)
THEOREM RootIsKept == AnySpec => []RootsStay
<1>1. AnyInit => RootAlways
  BY FilledStarts, LooseStarts DEF AnyInit, RootAlways
<1>2. RootAlways /\ [AnyNext]_<<vars, programs>> => RootAlways'
  <2> SUFFICES ASSUME RootAlways, [AnyNext]_<<vars, programs>> PROVE RootAlways'
    OBVIOUS
  <2>1. \A r : (FilledRootNext(r) <=> FilledRoot(r)') /\ (LooseRootNext(r) <=> LooseRoot(r)')
    BY DEF FilledRootNext, FilledRoot, LooseRootNext, LooseRoot, RootKept, Held, Begins
  <2>2. CASE UNCHANGED <<vars, programs>>
    BY <2>2 DEF vars, RootAlways, FilledRoot, LooseRoot
  <2>3. CASE AnyNext
    <3>1. CASE programs = "flat" /\ Flat!Next /\ programs' = programs
      <4>1. PICK r : FilledRoot(r)
        BY <3>1 DEF RootAlways
      <4>2. FilledRoot(r)'
        BY <2>1, <3>1, <4>1, FilledSteps
      <4> QED BY <3>1, <4>2 DEF RootAlways
    <3>2. CASE programs = "careless" /\ Anyhow!EarlierNext /\ programs' = programs
      <4>1. PICK r : LooseRoot(r)
        BY <3>2 DEF RootAlways
      <4>2. LooseRoot(r)'
        BY <2>1, <3>2, <4>1, LooseSteps
      <4> QED BY <3>2, <4>2 DEF RootAlways
    <3>3. CASE programs \notin {"flat", "careless"} /\ programs' = programs
      BY <3>3 DEF RootAlways
    <3> QED BY <2>3, <3>1, <3>2, <3>3 DEF AnyNext
  <2> QED BY <2>2, <2>3
<1>3. RootAlways => RootsStay
  BY FilledRight, LooseRight DEF RootAlways, RootsStay
<1> QED BY <1>1, <1>2, <1>3, PTL DEF AnySpec
===============================================================================

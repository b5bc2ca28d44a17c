----------------------------- MODULE MountProofs ------------------------------
(* What a mount finds after any sequence of sessions, for any number of       *)
(* inodes, blocks and calls.                                                  *)
EXTENDS Mount, FiniteSetTheorems, WellFoundedInduction, TLAPS

Record == [nblk : Nat, fd : {0}, nbfree : Int, nifree : Int]

(* The blocks of an image.  The root and its block are never free and belong  *)
(* to no other inode, and no other name is one of the root.                   *)
Disk(c) ==
  /\ c = [n \in Block |-> c[n]]
  /\ c[Super] \in Record
  /\ c[Ibitmap] \subseteq Ino \ {0}
  /\ c[Dbitmap] \subseteq Bit \ {Start}
  /\ c[InodeBlk] \in [Ino -> Seq(Blk)]
  /\ \A i \in Ino \ {0} : c[InodeBlk][i] \in Seq(Blk \ {Start})
  /\ c[Start] \in [Name \cup {"."} -> Ino \cup {None}]
  /\ \A n \in Name : c[Start][n] # 0

Phase == {"down", "up", "ibitmap", "dbitmap", "sync"}

Memory ==
  /\ phase \in Phase /\ super \in Record
  /\ ifree \subseteq Ino \ {0} /\ bfree \subseteq Bit \ {Start}
  /\ dirty \subseteq Block

(* What is not dirty is durable, and the stages of tiny_destroy put super     *)
(* block and bitmaps into buffers.                                            *)
InStep ==
  /\ \A n \in Block \ dirty : durable[n] = content[n]
  /\ phase = "down" => dirty = {} /\ content = durable
  /\ phase = "up" => Super \notin dirty
  /\ phase \in {"up", "ibitmap"} => Ibitmap \notin dirty
  /\ phase \in {"up", "ibitmap", "dbitmap"} => Dbitmap \notin dirty

HasRoot(c) == c[Start]["."] = 0 /\ c[InodeBlk][0] = <<Start>>

Rooted == /\ phase # "down" => HasRoot(content)
          /\ durable[Super].nblk > 0 => HasRoot(durable)

(* open() gives the image descriptor 0, as the first DevRelease has closed    *)
(* that.                                                                      *)
Descriptors == /\ phase = "down" => fds = AtStart
               /\ phase # "down" => 0 \in fds.image

Inv == Disk(content) /\ Disk(durable) /\ Memory /\ InStep /\ Rooted /\ Descriptors

USE DEF Super, Ibitmap, Dbitmap, InodeBlk, Start, None

-------------------------------------------------------------------------------
LEMMA Sizes == /\ Block = 0 .. NBlk + 3 /\ Blk = 4 .. NBlk + 3 /\ Blk \subseteq Block
               /\ {0, 1, 2, 3, 4} \subseteq Block /\ 0 \in Ino /\ 4 \in Bit /\ 4 \in Blk
               /\ Blk \subseteq Bit /\ Bit \subseteq Nat /\ Ino \subseteq Nat
               /\ NIno \in Nat \ {0} /\ NBlk \in Nat \ {0} /\ NBit \in Nat \ {0}
  BY SizeAssumption DEF Block, Blk, Ino, Bit

(* The first descriptor that is free is the one open() gives.                 *)
LEMMA OpenFirst ==
  ASSUME NEW f, NEW k \in 0 .. 9, k \notin f.image \cup f.other,
         \A y \in 0 .. k - 1 : y \in f.image \cup f.other
  PROVE  Opened(f) = [f EXCEPT !.image = @ \cup {k}]
  <1> DEFINE P(x) == /\ x \notin f.image \cup f.other
                     /\ \A y \in 0 .. x - 1 : y \in f.image \cup f.other
  <1>1. \A x \in 0 .. 9 : P(x) => x = k
    <2> TAKE x \in 0 .. 9
    <2>1. x < k => x \in 0 .. k - 1
      OBVIOUS
    <2>2. k < x => k \in 0 .. x - 1
      OBVIOUS
    <2> QED BY <2>1, <2>2
  <1>2. P(k)
    OBVIOUS
  <1>3. (CHOOSE x \in 0 .. 9 : P(x)) = k
    <2> HIDE DEF P
    <2> QED BY <1>1, <1>2
  <1> QED BY <1>3 DEF Opened

LEMMA ProbeCloses0 ==
  ASSUME fds = AtStart, NEW b \in Record
  PROVE  /\ Probed(b).image \in {{}, {4}} /\ Probed(b).other = 1 .. 3
         /\ Probed(b) = [image |-> Probed(b).image, other |-> 1 .. 3]
  <1>1. Opened(AtStart) = [AtStart EXCEPT !.image = @ \cup {4}]
    <2>1. AtStart.image = {} /\ AtStart.other = 0 .. 3
      BY DEF AtStart
    <2>2. 4 \in 0 .. 9 /\ 4 \notin 0 .. 3 /\ \A y \in 0 .. 4 - 1 : y \in 0 .. 3
      OBVIOUS
    <2> QED BY <2>1, <2>2, OpenFirst
  <1>2. b.fd = 0
    BY DEF Record
  <1> QED BY <1>1, <1>2 DEF Probed, Closed, AtStart

LEMMA OpensAs0 ==
  ASSUME fds = AtStart, NEW b \in Record
  PROVE  /\ 0 \in Opened(Probed(b)).image
         /\ DescriptorOf(Probed(b)) = 0
  <1> DEFINE f == Probed(b)
  <1>1. f.image \in {{}, {4}} /\ f.other = 1 .. 3 /\ f = [image |-> f.image, other |-> 1 .. 3]
    BY ProbeCloses0
  <1> HIDE DEF f
  <1>2. Opened(f) = [f EXCEPT !.image = @ \cup {0}]
    BY <1>1, OpenFirst
  <1>3. Opened(f).image = f.image \cup {0} /\ Opened(f).image \ f.image = {0}
    BY <1>1, <1>2
  <1>4. Max({0}) = 0
    BY DEF Max
  <1> QED BY <1>3, <1>4 DEF f, DescriptorOf

(* One block of an image is replaced.                                         *)
LEMMA ZeroesDisk == Disk(Zeroes) /\ Zeroes[Super].nblk = 0
  <1>1. Zeroes = [n \in Block |-> Zeroes[n]]
    BY DEF Zeroes
  <1>2. /\ Zeroes[0] = Unset /\ Zeroes[1] = {} /\ Zeroes[2] = {}
        /\ Zeroes[3] = [i \in Ino |-> << >>] /\ Zeroes[4] = [m \in Name \cup {"."} |-> -1]
    BY Sizes DEF Zeroes
  <1>3. << >> \in Seq(Blk) /\ << >> \in Seq(Blk \ {4})
    OBVIOUS
  <1>4. Zeroes[0] \in Record /\ Zeroes[0].nblk = 0
    BY <1>2 DEF Unset, Record
  <1>5. Zeroes[3] \in [Ino -> Seq(Blk)] /\ \A i \in Ino \ {0} : Zeroes[3][i] \in Seq(Blk \ {4})
    BY <1>2, <1>3
  <1>6. Zeroes[4] \in [Name \cup {"."} -> Ino \cup {-1}] /\ \A n \in Name : Zeroes[4][n] # 0
    BY <1>2
  <1> QED BY <1>1, <1>2, <1>4, <1>5, <1>6 DEF Disk

LEMMA InitInv == Init => Inv
  <1> SUFFICES ASSUME Init PROVE Inv
    OBVIOUS
  <1>1. Disk(content) /\ Disk(durable)
    BY ZeroesDisk DEF Init
  <1>2. Memory
    BY DEF Init, Memory, Phase, Record, Unset
  <1>3. InStep /\ Descriptors
    BY DEF Init, InStep, Descriptors
  <1>4. Rooted
    BY ZeroesDisk DEF Init, Rooted
  <1> QED BY <1>1, <1>2, <1>3, <1>4 DEF Inv

(* Two updates of a function, and two of functions in it.                     *)
LEMMA UpdateTwo ==
  ASSUME NEW S, NEW c, c = [n \in S |-> c[n]], NEW i \in S, NEW j \in S, i # j,
         NEW a, NEW b, NEW d, d = [c EXCEPT ![i] = a, ![j] = b]
  PROVE  /\ d = [n \in S |-> d[n]] /\ d[i] = a /\ d[j] = b
         /\ \A n \in S \ {i, j} : d[n] = c[n]
  OBVIOUS

LEMMA UpdateIn ==
  ASSUME NEW c, NEW i, NEW j, i # j, NEW x, NEW y, NEW u, NEW v
  PROVE  [c EXCEPT ![i][x] = u, ![j][y] = v]
           = [c EXCEPT ![i] = [c[i] EXCEPT ![x] = u], ![j] = [c[j] EXCEPT ![y] = v]]
  OBVIOUS

(* What a mount that formats has in memory.                                   *)
Formatted == [Zeroes EXCEPT ![InodeBlk][0] = <<Start>>, ![Start]["."] = 0]

LEMMA FormattedDisk == Disk(Formatted) /\ HasRoot(Formatted) /\ Formatted[Super].nblk = 0
                       /\ \A n \in Block \ {InodeBlk, Start} : Formatted[n] = Zeroes[n]
  <1>1. /\ Formatted[3] = [Zeroes[3] EXCEPT ![0] = <<4>>]
        /\ Formatted[4] = [Zeroes[4] EXCEPT !["."] = 0]
        /\ \A n \in Block \ {3, 4} : Formatted[n] = Zeroes[n]
        /\ Formatted = [n \in Block |-> Formatted[n]]
    <2> DEFINE A == [Zeroes[3] EXCEPT ![0] = <<4>>]
               B == [Zeroes[4] EXCEPT !["."] = 0]
    <2>1. Zeroes = [n \in Block |-> Zeroes[n]] /\ 3 \in Block /\ 4 \in Block /\ 3 # 4
      BY Sizes, ZeroesDisk DEF Disk
    <2>2. Formatted = [Zeroes EXCEPT ![3] = A, ![4] = B]
      BY UpdateIn DEF Formatted
    <2> HIDE DEF A, B
    <2>3. /\ Formatted = [n \in Block |-> Formatted[n]] /\ Formatted[3] = A /\ Formatted[4] = B
          /\ \A n \in Block \ {3, 4} : Formatted[n] = Zeroes[n]
      BY <2>1, <2>2, UpdateTwo, Zenon
    <2> QED BY <2>3 DEF A, B
  <1>2. <<4>> \in Seq(Blk)
    BY Sizes
  <1>3. Zeroes[3] \in [Ino -> Seq(Blk)] /\ Zeroes[4] \in [Name \cup {"."} -> Ino \cup {-1}]
    BY ZeroesDisk DEF Disk
  <1>4. Formatted[3] \in [Ino -> Seq(Blk)] /\ Formatted[3][0] = <<4>>
        /\ \A i \in Ino \ {0} : Formatted[3][i] = Zeroes[3][i]
    BY <1>1, <1>2, <1>3, Sizes
  <1>5. Formatted[4] \in [Name \cup {"."} -> Ino \cup {-1}] /\ Formatted[4]["."] = 0
        /\ \A n \in Name : Formatted[4][n] = Zeroes[4][n]
    BY <1>1, <1>3, Sizes, NameAssumption
  <1>6. Formatted[0] = Zeroes[0] /\ Formatted[1] = Zeroes[1] /\ Formatted[2] = Zeroes[2]
    BY <1>1, Sizes
  <1>7. Disk(Formatted)
    BY <1>1, <1>4, <1>5, <1>6, ZeroesDisk DEF Disk
  <1> QED BY <1>1, <1>4, <1>5, <1>6, <1>7, ZeroesDisk DEF HasRoot

(* What the handlers do to an image in memory.                                *)
LEMMA CreateDisk ==
  ASSUME NEW c, NEW d, Disk(c), NEW n \in Name, NEW i \in Ino \ {0},
         d = [c EXCEPT ![InodeBlk][i] = << >>, ![Start][n] = i]
  PROVE  /\ Disk(d) /\ (HasRoot(c) => HasRoot(d))
         /\ \A m \in Block \ {InodeBlk, Start} : d[m] = c[m]
  <1> DEFINE A == [c[3] EXCEPT ![i] = << >>]
             B == [c[4] EXCEPT ![n] = i]
  <1>1. c = [m \in Block |-> c[m]] /\ 3 \in Block /\ 4 \in Block /\ 3 # 4
    BY Sizes DEF Disk
  <1>2. d = [c EXCEPT ![3] = A, ![4] = B]
    BY UpdateIn
  <1>3. /\ A \in [Ino -> Seq(Blk)] /\ \A j \in Ino \ {0} : A[j] \in Seq(Blk \ {4})
        /\ A[0] = c[3][0]
    <2>1. << >> \in Seq(Blk) /\ << >> \in Seq(Blk \ {4})
      OBVIOUS
    <2>2. c[3] \in [Ino -> Seq(Blk)] /\ \A j \in Ino \ {0} : c[3][j] \in Seq(Blk \ {4})
      BY DEF Disk
    <2>3. \A j \in Ino : A[j] = IF j = i THEN << >> ELSE c[3][j]
      BY <2>2
    <2> QED BY <2>1, <2>2, <2>3, Sizes
  <1>4. /\ B \in [Name \cup {"."} -> Ino \cup {-1}] /\ \A m \in Name : B[m] # 0
        /\ B["."] = c[4]["."]
    BY NameAssumption DEF Disk
  <1> HIDE DEF A, B
  <1>6. /\ d[3] = A /\ d[4] = B /\ d = [m \in Block |-> d[m]]
        /\ \A m \in Block \ {3, 4} : d[m] = c[m]
    BY <1>1, <1>2, UpdateTwo, Zenon
  <1>7. d[0] = c[0] /\ d[1] = c[1] /\ d[2] = c[2]
    BY <1>6, Sizes
  <1>8. Disk(d)
    BY <1>3, <1>4, <1>6, <1>7 DEF Disk
  <1> QED BY <1>3, <1>4, <1>6, <1>8 DEF HasRoot

Written(c, i, b, x, q) ==
  [c EXCEPT ![InodeBlk] = [c[InodeBlk] EXCEPT ![i] = q], ![b] = x]

LEMMA WriteDisk ==
  ASSUME NEW c, NEW d, Disk(c), NEW i \in Ino \ {0}, NEW b \in Blk \ {Start}, NEW x,
         NEW q \in Seq(Blk \ {Start}),
         d = Written(c, i, b, x, q)
  PROVE  /\ Disk(d) /\ (HasRoot(c) => HasRoot(d))
         /\ \A m \in Block \ {InodeBlk, b} : d[m] = c[m]
  <1> DEFINE A == [c[3] EXCEPT ![i] = q]
  <1>1. c = [m \in Block |-> c[m]] /\ 3 \in Block /\ b \in Block /\ b # 3 /\ b > 4
    BY Sizes DEF Disk
  <1>2. d = [c EXCEPT ![3] = A, ![b] = x]
    BY <1>1 DEF Written
  <1>3. /\ A \in [Ino -> Seq(Blk)] /\ \A j \in Ino \ {0} : A[j] \in Seq(Blk \ {4})
        /\ A[0] = c[3][0]
    <2>1. c[3] \in [Ino -> Seq(Blk)] /\ \A j \in Ino \ {0} : c[3][j] \in Seq(Blk \ {4})
      BY DEF Disk
    <2>2. q \in Seq(Blk) /\ q \in Seq(Blk \ {4})
      OBVIOUS
    <2>3. \A j \in Ino : A[j] = IF j = i THEN q ELSE c[3][j]
      BY <2>1
    <2>4. A = [j \in Ino |-> A[j]]
      BY <2>1
    <2> HIDE DEF A
    <2> QED BY <2>1, <2>2, <2>3, <2>4, Sizes
  <1> HIDE DEF A
  <1>6. /\ d[3] = A /\ d = [m \in Block |-> d[m]]
        /\ \A m \in Block \ {3, b} : d[m] = c[m]
    BY <1>1, <1>2, UpdateTwo
  <1>7. d[0] = c[0] /\ d[1] = c[1] /\ d[2] = c[2] /\ d[4] = c[4]
    <2>1. \A m \in {0, 1, 2, 4} : m \in Block \ {3, b}
      BY <1>1, Sizes
    <2> QED BY <1>6, <2>1
  <1>8. Disk(d)
    BY <1>3, <1>6, <1>7 DEF Disk
  <1> QED BY <1>3, <1>6, <1>7, <1>8 DEF HasRoot

Cleared(c, n) == [c EXCEPT ![Start] = [c[Start] EXCEPT ![n] = None]]

LEMMA UnlinkDisk ==
  ASSUME NEW c, NEW d, Disk(c), NEW n \in Name, d = Cleared(c, n)
  PROVE  /\ Disk(d) /\ (HasRoot(c) => HasRoot(d))
         /\ \A m \in Block \ {Start} : d[m] = c[m]
  <1> DEFINE B == [c[4] EXCEPT ![n] = -1]
  <1>1. c = [m \in Block |-> c[m]] /\ 4 \in Block
    BY Sizes DEF Disk
  <1>2. d = [c EXCEPT ![4] = B]
    BY DEF Cleared
  <1>4. /\ B \in [Name \cup {"."} -> Ino \cup {-1}] /\ \A m \in Name : B[m] # 0
        /\ B["."] = c[4]["."]
    <2>1. /\ c[4] \in [Name \cup {"."} -> Ino \cup {-1}] /\ \A m \in Name : c[4][m] # 0
          /\ n # "."
      BY NameAssumption DEF Disk
    <2>2. \A m \in Name \cup {"."} : B[m] = IF m = n THEN -1 ELSE c[4][m]
      BY <2>1
    <2> QED BY <2>1, <2>2
  <1> HIDE DEF B
  <1>6. /\ d[4] = B /\ d = [m \in Block |-> d[m]]
        /\ \A m \in Block \ {4} : d[m] = c[m]
    BY <1>1, <1>2
  <1>7. d[0] = c[0] /\ d[1] = c[1] /\ d[2] = c[2] /\ d[3] = c[3]
    BY <1>6, Sizes
  <1>8. Disk(d)
    BY <1>4, <1>6, <1>7 DEF Disk
  <1> QED BY <1>4, <1>6, <1>7, <1>8 DEF HasRoot

(* One block of an image is written.                                          *)
Stored(d, n, v) == [d EXCEPT ![n] = v]

LEMMA WriteBlock ==
  ASSUME NEW c, NEW d, NEW e, NEW n, Disk(c), Disk(d), n \in Block, e = Stored(d, n, c[n])
  PROVE  Disk(e)
  <1>1. d = [m \in Block |-> d[m]]
    BY DEF Disk
  <1>2. e = [m \in Block |-> e[m]] /\ e[n] = c[n] /\ \A m \in Block \ {n} : e[m] = d[m]
    BY <1>1 DEF Stored
  <1>3. \A m \in {0, 1, 2, 3, 4} : e[m] = c[m] \/ e[m] = d[m]
    BY <1>2, Sizes
  <1> QED BY <1>2, <1>3 DEF Disk

-------------------------------------------------------------------------------
(* A handler makes the blocks it changes dirty; they are not those that       *)
(* tiny_destroy writes.                                                       *)
LEMMA HandlerStep ==
  ASSUME Inv, phase = "up", phase' = phase, durable' = durable, fds' = fds,
         NEW C \in SUBSET (Block \ {0, 1, 2}), dirty' = dirty \cup C,
         Disk(content'), HasRoot(content) => HasRoot(content'),
         \A m \in Block \ C : content'[m] = content[m],
         super' \in Record, ifree' \subseteq Ino \ {0}, bfree' \subseteq Bit \ {Start}
  PROVE  Inv'
  <1>1. Memory'
    BY DEF Inv, Memory
  <1>2. InStep'
    BY DEF Inv, InStep, Memory
  <1>3. Rooted' /\ Descriptors'
    BY DEF Inv, Rooted, Descriptors
  <1> QED BY <1>1, <1>2, <1>3 DEF Inv

LEMMA CreateStep ==
  ASSUME Inv, NEW n \in Name, Create(n), ifree # {}
  PROVE  Inv'
  <1>1. PICK i \in Ino :
          /\ i \in ifree /\ ifree' = ifree \ {i}
          /\ super' = [super EXCEPT !.nifree = @ - 1]
          /\ content' = [content EXCEPT ![InodeBlk][i] = << >>, ![Start][n] = i]
          /\ dirty' = dirty \cup {InodeBlk, Start}
          /\ UNCHANGED <<phase, bfree, durable, fds>>
    BY DEF Create, IsFirst
  <1>2. i \in Ino \ {0}
    BY <1>1 DEF Inv, Memory
  <1>3. /\ Disk(content') /\ (HasRoot(content) => HasRoot(content'))
        /\ \A m \in Block \ {InodeBlk, Start} : content'[m] = content[m]
    <2>1. Disk(content)
      BY DEF Inv
    <2>2. content' = [content EXCEPT ![InodeBlk][i] = << >>, ![Start][n] = i]
      BY <1>1
    <2> HIDE DEF InodeBlk, Start
    <2> QED BY <1>2, <2>1, <2>2, CreateDisk, Zenon
  <1>4. super' \in Record
    BY <1>1 DEF Inv, Memory, Record
  <1>5. ifree' \subseteq Ino \ {0} /\ bfree' \subseteq Bit \ {Start} /\ phase = "up"
    BY <1>1 DEF Inv, Memory, Create, Call
  <1>6. {InodeBlk, Start} \in SUBSET (Block \ {0, 1, 2})
    BY Sizes
  <1>7. phase' = phase /\ durable' = durable /\ fds' = fds /\ dirty' = dirty \cup {InodeBlk, Start}
    BY <1>1
  <1> HIDE DEF InodeBlk, Start
  <1> QED BY <1>3, <1>4, <1>5, <1>6, <1>7, HandlerStep, Zenon

(* A file's inode is not that of the root.                                    *)
LEMMA FileInode ==
  ASSUME Disk(content), NEW n \in Name, Root[n] # None
  PROVE  /\ Root[n] \in Ino \ {0} /\ content[InodeBlk][Root[n]] \in Seq(Blk \ {Start})
         /\ Blocks(Root[n]) \subseteq Blk \ {Start}
  <1>1. Root[n] \in Ino \ {0}
    BY DEF Disk, Root
  <1>2. content[3][Root[n]] \in Seq(Blk \ {4})
    BY <1>1 DEF Disk
  <1> DEFINE q == content[3][Root[n]]
  <1>3. \A k \in 1 .. Len(q) : q[k] \in Blk \ {4}
    BY <1>2
  <1> QED BY <1>1, <1>2, <1>3 DEF Blocks

LEMMA WriteStep ==
  ASSUME Inv, NEW n \in Name, Write(n), ~GoWild
  PROVE  Inv'
  <1>0. PICK i : i = Root[n]
    OBVIOUS
  <1>1. PICK b \in Blk :
          /\ b \in bfree /\ bfree' = bfree \ {b}
          /\ super' = [super EXCEPT !.nbfree = @ - 1]
          /\ content' = [content EXCEPT ![InodeBlk][i] = Append(@, b), ![b] = i]
          /\ dirty' = dirty \cup {InodeBlk, b}
          /\ UNCHANGED <<phase, ifree, durable, fds>>
    BY <1>0 DEF Write, IsFirst
  <1>2. i \in Ino \ {0}
    BY <1>0, FileInode DEF Inv, Write
  <1>3. b \in Blk \ {Start}
    BY <1>1 DEF Inv, Memory
  <1>4. /\ Disk(content') /\ (HasRoot(content) => HasRoot(content'))
        /\ \A m \in Block \ {InodeBlk, b} : content'[m] = content[m]
    <2>1. Disk(content)
      BY DEF Inv
    <2>2. PICK q : q = Append(content[InodeBlk][i], b)
      OBVIOUS
    <2>3. q \in Seq(Blk \ {Start})
      <3>1. content[InodeBlk][i] \in Seq(Blk \ {Start})
        BY <1>2, <2>1 DEF Disk
      <3> QED BY <1>3, <2>2, <3>1
    <2>4. content' = Written(content, i, b, i, q)
      BY <1>1, <2>2 DEF Written
    <2> HIDE DEF InodeBlk, Start
    <2> QED BY <1>2, <1>3, <2>1, <2>3, <2>4, WriteDisk, Zenon
  <1>5. super' \in Record
    BY <1>1 DEF Inv, Memory, Record
  <1>6. ifree' \subseteq Ino \ {0} /\ bfree' \subseteq Bit \ {Start} /\ phase = "up"
    BY <1>1 DEF Inv, Memory, Write, Call
  <1>7. {InodeBlk, b} \in SUBSET (Block \ {0, 1, 2})
    BY Sizes
  <1>8. phase' = phase /\ durable' = durable /\ fds' = fds /\ dirty' = dirty \cup {InodeBlk, b}
    BY <1>1
  <1> HIDE DEF InodeBlk, Start
  <1> QED BY <1>4, <1>5, <1>6, <1>7, <1>8, HandlerStep, Zenon

LEMMA UnlinkStep ==
  ASSUME Inv, NEW n \in Name, Unlink(n)
  PROVE  Inv'
  <1>0. PICK i : i = Root[n]
    OBVIOUS
  <1>1. /\ bfree' = bfree \cup Freed(Blocks(i)) /\ ifree' = ifree \cup {i}
        /\ content' = [content EXCEPT ![Start][n] = None]
        /\ dirty' = dirty \cup {Start}
        /\ phase' = phase /\ durable' = durable /\ fds' = fds /\ phase = "up" /\ i # None
    BY <1>0 DEF Unlink, Call
  <1>2. i \in Ino \ {0} /\ Blocks(i) \subseteq Blk \ {Start}
    BY <1>0, <1>1, FileInode DEF Inv
  <1>3. /\ Disk(content') /\ (HasRoot(content) => HasRoot(content'))
        /\ \A m \in Block \ {Start} : content'[m] = content[m]
    <2>1. Disk(content)
      BY DEF Inv
    <2>2. content' = Cleared(content, n)
      BY <1>1 DEF Cleared
    <2> HIDE DEF Start, None
    <2> QED BY <2>1, <2>2, UnlinkDisk, Zenon
  <1>4. super' \in Record
    <2>1. IsFiniteSet(Freed(Blocks(i)))
      <3>1. IsFiniteSet(Blk)
        BY Sizes, FS_Interval
      <3> QED BY <1>2, <3>1, FS_Subset DEF Freed
    <2>2. PICK k \in Int, l \in Int :
            super' = [super EXCEPT !.nbfree = @ + k, !.nifree = @ + l]
      <3>1. PICK k \in Int : k = Cardinality(Freed(Blocks(i)))
        BY <2>1, FS_CardinalityType
      <3>2. PICK l \in Int : l = IF i \in ifree THEN 0 ELSE 1
        OBVIOUS
      <3>3. super' = [super EXCEPT !.nbfree = @ + k, !.nifree = @ + l]
        BY <1>0, <3>1, <3>2 DEF Unlink
      <3> QED BY <3>3
    <2>3. super \in Record
      BY DEF Inv, Memory
    <2>4. super' = [super EXCEPT !.nbfree = super.nbfree + k, !.nifree = super.nifree + l]
      BY <2>2
    <2>5. super.nbfree + k \in Int /\ super.nifree + l \in Int
      BY <2>3 DEF Record
    <2> QED BY <2>3, <2>4, <2>5 DEF Record
  <1>5. ifree' \subseteq Ino \ {0} /\ bfree' \subseteq Bit \ {Start}
    BY <1>1, <1>2, Sizes DEF Inv, Memory, Freed
  <1>6. {Start} \in SUBSET (Block \ {0, 1, 2})
    BY Sizes
  <1> HIDE DEF Start
  <1> QED BY <1>1, <1>3, <1>4, <1>5, <1>6, HandlerStep, Zenon

(* One block more is durable.                                                 *)
LEMMA DurableStep ==
  ASSUME Inv, NEW n, n \in dirty, phase # "down",
         n = Super => InodeBlk \notin dirty /\ Start \notin dirty,
         durable' = [durable EXCEPT ![n] = content[n]], dirty' = dirty \ {n},
         UNCHANGED <<phase, super, ifree, bfree, content, fds>>
  PROVE  Inv'
  <1>1. n \in Block
    BY DEF Inv, Memory
  <1>2. Disk(durable') /\ durable'[n] = content[n] /\ \A m \in Block \ {n} : durable'[m] = durable[m]
    <2>1. Disk(content) /\ Disk(durable)
      BY DEF Inv
    <2>2. durable' = Stored(durable, n, content[n])
      BY DEF Stored
    <2>3. Disk(durable')
      BY <1>1, <2>1, <2>2, WriteBlock, Zenon
    <2>4. durable = [m \in Block |-> durable[m]]
      BY <2>1 DEF Disk
    <2> QED BY <1>1, <2>3, <2>4
  <1>3. Memory' /\ Descriptors'
    BY DEF Inv, Memory, Descriptors
  <1>4. InStep'
    BY <1>1, <1>2 DEF Inv, InStep, Memory
  <1>5. Rooted'
    <2>1. HasRoot(content)
      BY DEF Inv, Rooted
    <2>2. CASE n = 0
      <3>1. durable'[3] = content[3] /\ durable'[4] = content[4]
        BY <1>2, <2>2, Sizes DEF Inv, InStep
      <3> QED BY <2>1, <3>1 DEF Rooted, HasRoot
    <2>3. CASE n # 0
      <3>1. durable'[0] = durable[0]
        BY <1>2, <2>3, Sizes
      <3>2. durable'[0].nblk > 0 => HasRoot(durable)
        BY <3>1 DEF Inv, Rooted
      <3>3. /\ durable'[3] = content[3] \/ durable'[3] = durable[3]
            /\ durable'[4] = content[4] \/ durable'[4] = durable[4]
        BY <1>2, Sizes
      <3> QED BY <2>1, <3>2, <3>3 DEF Rooted, HasRoot
    <2> QED BY <2>2, <2>3
  <1> QED BY <1>2, <1>3, <1>4, <1>5 DEF Inv

LEMMA EvictStep == Inv /\ Evict => Inv'
  <1> SUFFICES ASSUME Inv, Evict PROVE Inv'
    OBVIOUS
  <1>1. PICK n \in dirty : durable' = [durable EXCEPT ![n] = content[n]] /\ dirty' = dirty \ {n}
    BY DEF Evict
  <1>2. phase = "up" /\ UNCHANGED <<phase, super, ifree, bfree, content, fds>>
    BY DEF Evict
  <1>3. n # Super
    BY <1>2 DEF Inv, InStep
  <1> QED BY <1>1, <1>2, <1>3, DurableStep

LEMMA SyncStep == Inv /\ SyncOne => Inv'
  <1> SUFFICES ASSUME Inv, SyncOne PROVE Inv'
    OBVIOUS
  <1>1. PICK n \in dirty : /\ Oldest(n)
                           /\ durable' = [durable EXCEPT ![n] = content[n]] /\ dirty' = dirty \ {n}
    BY DEF SyncOne
  <1>2. phase # "down" /\ UNCHANGED <<phase, super, ifree, bfree, content, fds>>
    BY DEF SyncOne
  <1>3. n = Super => InodeBlk \notin dirty /\ Start \notin dirty
    BY <1>1 DEF Oldest
  <1> QED BY <1>1, <1>2, <1>3, DurableStep

(* A mount loads or formats; the image in memory is then that on the disk, or *)
(* a new one.                                                                 *)
LEMMA FormatStep == Inv /\ Format => Inv'
  <1> SUFFICES ASSUME Inv, Format PROVE Inv'
    OBVIOUS
  <1>1. /\ fds = AtStart /\ durable[Super] \in Record
        /\ 0 \in fds'.image /\ DescriptorOf(Probed(durable[Super])) = 0
    <2>1. fds = AtStart /\ durable[Super] \in Record
      BY DEF Inv, Descriptors, Disk, Format
    <2> QED BY <2>1, OpensAs0 DEF Format
  <1>2. /\ super' = [nblk |-> 1, fd |-> 0, nbfree |-> NBlk - 1, nifree |-> NIno - 1]
        /\ ifree' = Ino \ {0} /\ bfree' = Bit \ {4} /\ dirty' = {3, 4} /\ phase' = "up"
    BY <1>1 DEF Format, Fresh
  <1>3. durable' = Zeroes /\ content' = Formatted
    BY DEF Format, Formatted
  <1>4. Disk(content') /\ Disk(durable') /\ HasRoot(content') /\ durable'[Super].nblk = 0
    BY <1>3, FormattedDisk, ZeroesDisk
  <1>5. Memory'
    BY <1>2, Sizes DEF Memory, Phase, Record
  <1>6. InStep'
    BY <1>2, <1>3, FormattedDisk DEF InStep
  <1>7. Rooted' /\ Descriptors'
    BY <1>1, <1>2, <1>4 DEF Rooted, Descriptors
  <1> QED BY <1>4, <1>5, <1>6, <1>7 DEF Inv

LEMMA LoadStep == Inv /\ Load => Inv'
  <1> SUFFICES ASSUME Inv, Load PROVE Inv'
    OBVIOUS
  <1>1. /\ fds = AtStart /\ durable[Super] \in Record /\ durable[Super].nblk > 0
        /\ content = durable /\ dirty = {}
    BY DEF Inv, Descriptors, Disk, Load, InStep
  <1>2. 0 \in fds'.image
    BY <1>1, OpensAs0 DEF Load, Loaded
  <1>3. /\ super' = durable[Super] /\ ifree' = durable[Ibitmap] /\ bfree' = durable[Dbitmap]
        /\ phase' = "up" /\ content' = content /\ durable' = durable /\ dirty' = dirty
    BY DEF Load, LoadBitmaps
  <1>4. Memory'
    BY <1>1, <1>3 DEF Inv, Memory, Phase, Disk
  <1>5. InStep'
    BY <1>1, <1>3 DEF InStep
  <1>6. Rooted' /\ Descriptors'
    BY <1>1, <1>2, <1>3 DEF Inv, Rooted, Descriptors
  <1>7. Disk(content') /\ Disk(durable')
    BY <1>3 DEF Inv
  <1> QED BY <1>4, <1>5, <1>6, <1>7 DEF Inv

(* tiny_destroy puts what is in memory into the image.                        *)
LEMMA SavedDisk ==
  ASSUME NEW c, NEW d, NEW n, NEW x, Disk(c), n \in Block, d = Stored(c, n, x),
         \/ n = Super /\ x \in Record
         \/ n = Ibitmap /\ x \subseteq Ino \ {0}
         \/ n = Dbitmap /\ x \subseteq Bit \ {Start}
  PROVE  Disk(d) /\ (HasRoot(c) => HasRoot(d))
  <1>1. c = [m \in Block |-> c[m]]
    BY DEF Disk
  <1>2. d = [m \in Block |-> d[m]] /\ d[n] = x /\ \A m \in Block \ {n} : d[m] = c[m]
    BY <1>1 DEF Stored
  <1>3. d[3] = c[3] /\ d[4] = c[4] /\ \A m \in {0, 1, 2} : m # n => d[m] = c[m]
    BY <1>2, Sizes
  <1>4. /\ d[0] \in Record /\ d[1] \subseteq Ino \ {0} /\ d[2] \subseteq Bit \ {4}
    BY <1>2, <1>3 DEF Disk
  <1>5. Disk(d)
    BY <1>2, <1>3, <1>4 DEF Disk
  <1> QED BY <1>3, <1>5 DEF HasRoot

LEMMA SaveStep == Inv /\ SaveAll => Inv'
  <1> SUFFICES ASSUME Inv, SaveAll PROVE Inv'
    OBVIOUS
  <1>1. PICK n, x :
          /\ n \in {0, 1, 2} /\ content' = [content EXCEPT ![n] = x] /\ dirty' = dirty \cup {n}
          /\ super' = super /\ ifree' = ifree /\ bfree' = bfree
          /\ durable' = durable /\ fds' = fds
          /\ \/ n = 0 /\ x = super /\ phase = "up" /\ phase' = "ibitmap"
             \/ n = 1 /\ x = ifree /\ phase = "ibitmap" /\ phase' = "dbitmap"
             \/ n = 2 /\ x = bfree /\ phase = "dbitmap" /\ phase' = "sync"
    BY DEF SaveAll, Save
  <1>2. n \in Block
    BY <1>1, Sizes
  <1>3. Disk(content') /\ (HasRoot(content) => HasRoot(content'))
    <2>1. Disk(content) /\ content' = Stored(content, n, x)
      BY <1>1 DEF Inv, Stored
    <2>2. \/ n = Super /\ x \in Record
          \/ n = Ibitmap /\ x \subseteq Ino \ {0}
          \/ n = Dbitmap /\ x \subseteq Bit \ {Start}
      BY <1>1 DEF Inv, Memory
    <2> QED BY <1>2, <2>1, <2>2, SavedDisk
  <1>4. \A m \in Block \ {n} : content'[m] = content[m]
    BY <1>1, <1>2 DEF Inv, Disk
  <1>5. Memory'
    BY <1>1, <1>2 DEF Inv, Memory, Phase
  <1>6. InStep'
    BY <1>1, <1>2, <1>4 DEF Inv, InStep
  <1>7. Rooted' /\ Descriptors'
    BY <1>1, <1>3 DEF Inv, Rooted, Descriptors
  <1>8. Disk(durable')
    BY <1>1 DEF Inv
  <1> QED BY <1>3, <1>5, <1>6, <1>7, <1>8 DEF Inv

LEMMA GoneStep == Inv /\ Gone => Inv'
  <1> SUFFICES ASSUME Inv, Gone PROVE Inv'
    OBVIOUS
  <1>1. /\ phase' = "down" /\ fds' = AtStart /\ super' = Unset /\ ifree' = {} /\ bfree' = {}
        /\ content' = durable /\ dirty' = {} /\ durable' = durable
    BY DEF Gone
  <1>2. Memory'
    BY <1>1 DEF Memory, Phase, Record, Unset
  <1>3. InStep' /\ Rooted' /\ Descriptors'
    BY <1>1 DEF Inv, InStep, Rooted, Descriptors
  <1>4. Disk(content') /\ Disk(durable')
    BY <1>1 DEF Inv
  <1> QED BY <1>2, <1>3, <1>4 DEF Inv

LEMMA SameStep ==
  ASSUME Inv, phase' = phase, super' = super, ifree' = ifree, bfree' = bfree,
         content' = content, durable' = durable, dirty' = dirty, fds' = fds
  PROVE  Inv'
  <1>1. Disk(content') /\ Disk(durable')
    BY DEF Inv
  <1>2. Memory' /\ InStep'
    BY DEF Inv, Memory, InStep
  <1>3. Rooted' /\ Descriptors'
    BY DEF Inv, Rooted, Descriptors
  <1> QED BY <1>1, <1>2, <1>3 DEF Inv

LEMMA InvStep == Inv /\ [Next]_vars => Inv'
  <1> SUFFICES ASSUME Inv, [Next]_vars PROVE Inv'
    OBVIOUS
  <1>1. CASE Format
    BY <1>1, FormatStep
  <1>2. CASE Load
    BY <1>2, LoadStep
  <1>3. CASE GoWild
    BY <1>3, SameStep DEF GoWild
  <1>4. ASSUME NEW n \in Name, Create(n) PROVE Inv'
    BY <1>3, <1>4, CreateStep DEF Create, IsFirst
  <1>5. ASSUME NEW n \in Name, Write(n) PROVE Inv'
    BY <1>3, <1>5, WriteStep
  <1>6. ASSUME NEW n \in Name, Unlink(n) PROVE Inv'
    BY <1>6, UnlinkStep
  <1>7. CASE Evict
    BY <1>7, EvictStep
  <1>8. CASE SaveAll
    BY <1>8, SaveStep
  <1>9. CASE SyncOne
    BY <1>9, SyncStep
  <1>10. CASE Exit \/ Crash
    BY <1>10, GoneStep DEF Exit, Crash
  <1>11. CASE UNCHANGED vars
    BY <1>11, SameStep DEF vars
  <1> QED BY <1>1, <1>2, <1>4, <1>5, <1>6, <1>7, <1>8, <1>9, <1>10, <1>11 DEF Next

LEMMA InvRight == Inv => MountedRight
  <1> SUFFICES ASSUME Inv PROVE MountedRight
    OBVIOUS
  <1>1. DescriptorRight
    BY DEF Inv, Descriptors, Memory, Record, DescriptorRight
  <1>2. RootThere
    BY DEF Inv, Rooted, HasRoot, Memory, RootThere, Root
  <1> QED BY <1>1, <1>2 DEF MountedRight

(* However the sessions before have ended, what is mounted has a root         *)
(* directory that no new file or block can take the place of, and is used     *)
(* through a descriptor of the image (op_init.c, op_destroy.c).               *)
THEOREM MountIsRight == Spec => []MountedRight
  <1>1. Spec => []Inv
    BY InitInv, InvStep, PTL DEF Spec
  <1> QED BY <1>1, InvRight, PTL

-------------------------------------------------------------------------------
(* The stages of tiny_destroy leave what is in memory in its blocks.          *)
Stages ==
  /\ phase # "down" => super.nblk > 0
  /\ phase \in {"ibitmap", "dbitmap", "sync"} => content[Super] = super
  /\ phase \in {"dbitmap", "sync"} => content[Ibitmap] = ifree
  /\ phase = "sync" => content[Dbitmap] = bfree

(* The image is what was saved, and what a mount loads is that of the image.  *)
Kept ==
  clean =>
    /\ durable[Super].nblk > 0 /\ content = durable
    /\ saved = [super |-> durable[Super], ifree |-> durable[Ibitmap],
                bfree |-> durable[Dbitmap], content |-> durable]
    /\ phase # "down" => /\ super = durable[Super]
                         /\ ifree = durable[Ibitmap] /\ bfree = durable[Dbitmap]

LEMMA InitKept == Init => Stages /\ Kept
  BY DEF Init, Stages, Kept

LEMMA CallStages ==
  ASSUME Stages, phase = "up", phase' = phase, super'.nblk = super.nblk
  PROVE  Stages'
  BY DEF Stages

LEMMA SameStages ==
  ASSUME Stages, phase' = phase, super' = super, ifree' = ifree, bfree' = bfree,
         content' = content
  PROVE  Stages'
  BY DEF Stages

LEMMA NextStages == Inv /\ Stages /\ [Next]_vars => Stages'
  <1> SUFFICES ASSUME Inv, Stages, [Next]_vars PROVE Stages'
    OBVIOUS
  <1> USE DEF Inv, Memory, Record
  <1>1. CASE Format
    BY <1>1 DEF Format, Fresh, Stages
  <1>2. CASE Load
    BY <1>2 DEF Load, Stages
  <1>3. CASE GoWild
    BY <1>3, SameStages DEF GoWild
  <1>4. ASSUME NEW n \in Name, Create(n) PROVE Stages'
    <2>1. (super' = [super EXCEPT !.nifree = @ - 1] /\ phase' = phase /\ phase = "up") \/ GoWild
      BY <1>4 DEF Create, Call
    <2> QED BY <1>3, <2>1, CallStages
  <1>5. ASSUME NEW n \in Name, Write(n) PROVE Stages'
    <2>1. (super' = [super EXCEPT !.nbfree = @ - 1] /\ phase' = phase /\ phase = "up") \/ GoWild
      BY <1>5 DEF Write, Call
    <2> QED BY <1>3, <2>1, CallStages
  <1>6. ASSUME NEW n \in Name, Unlink(n) PROVE Stages'
    <2>1. \E k, l : super' = [super EXCEPT !.nbfree = @ + k, !.nifree = @ + l]
      BY <1>6 DEF Unlink
    <2>2. super'.nblk = super.nblk
      BY <2>1
    <2>3. phase' = phase /\ phase = "up"
      BY <1>6 DEF Unlink, Call
    <2> QED BY <2>2, <2>3, CallStages
  <1>7. CASE Evict
    BY <1>7, SameStages DEF Evict
  <1>8. CASE SaveAll
    <2>1. content = [m \in Block |-> content[m]] /\ {0, 1, 2} \subseteq Block
      BY Sizes DEF Disk
    <2> QED BY <1>8, <2>1 DEF SaveAll, Save, Stages
  <1>9. CASE SyncOne
    BY <1>9, SameStages DEF SyncOne
  <1>10. CASE Exit \/ Crash
    BY <1>10 DEF Exit, Crash, Gone, Stages
  <1>11. CASE UNCHANGED vars
    BY <1>11, SameStages DEF vars
  <1> QED BY <1>1, <1>2, <1>4, <1>5, <1>6, <1>7, <1>8, <1>9, <1>10, <1>11 DEF Next

LEMMA SameKept ==
  ASSUME Kept, clean' = clean, saved' = saved, durable' = durable, content' = content,
         phase' = phase, super' = super, ifree' = ifree, bfree' = bfree
  PROVE  Kept'
  BY DEF Kept

LEMMA NextKept == Inv /\ Stages /\ Kept /\ [Next]_vars => Kept'
  <1> SUFFICES ASSUME Inv, Stages, Kept, [Next]_vars, clean' PROVE Kept'
    BY DEF Kept
  <1>0. /\ content = [m \in Block |-> content[m]]
        /\ durable = [m \in Block |-> durable[m]]
    BY DEF Inv, Disk
  <1>1. ~Format
    <2> SUFFICES ASSUME Format PROVE FALSE
      OBVIOUS
    <2>1. clean /\ durable[0].nblk = 0
      BY DEF Format, history
    <2>2. durable[0].nblk > 0
      BY <2>1, Zenon DEF Kept, Super
    <2> QED BY <2>1, <2>2
  <1>2. CASE Load
    BY <1>2 DEF Load, LoadBitmaps, Kept, history
  <1>3. CASE GoWild
    BY <1>3, SameKept DEF GoWild, history
  <1>4. ASSUME NEW n \in Name, Create(n) PROVE Kept'
    BY <1>3, <1>4 DEF Create
  <1>5. ASSUME NEW n \in Name, Write(n) PROVE Kept'
    BY <1>3, <1>5 DEF Write, Touch
  <1>6. ASSUME NEW n \in Name, Unlink(n) PROVE Kept'
    BY <1>6 DEF Unlink, Touch
  <1>7. CASE Evict \/ SyncOne
    <2>1. PICK n \in dirty : durable' = [durable EXCEPT ![n] = content[n]]
      BY <1>7 DEF Evict, SyncOne
    <2>2. /\ clean' = clean /\ saved' = saved /\ content' = content /\ phase' = phase
          /\ super' = super /\ ifree' = ifree /\ bfree' = bfree
      BY <1>7 DEF Evict, SyncOne, history
    <2>3. durable' = durable
      <3>1. n \in Block /\ content = durable
        BY <2>2 DEF Inv, Memory, Kept
      <3> QED BY <1>0, <2>1, <3>1
    <2> QED BY <2>2, <2>3, SameKept
  <1>8. CASE SaveAll
    <2>1. /\ \/ content' = [content EXCEPT ![0] = super]
             \/ content' = [content EXCEPT ![1] = ifree]
             \/ content' = [content EXCEPT ![2] = bfree]
          /\ phase # "down"
      BY <1>8 DEF SaveAll, Save
    <2>2. /\ clean' = clean /\ saved' = saved /\ durable' = durable
          /\ super' = super /\ ifree' = ifree /\ bfree' = bfree
      BY <1>8 DEF SaveAll, Save, history
    <2>3. super = content[0] /\ ifree = content[1] /\ bfree = content[2]
      BY <2>1, <2>2 DEF Kept
    <2>4. content' = content
      BY <1>0, <2>1, <2>3
    <2> QED BY <2>1, <2>2, <2>4 DEF Kept
  <1>9. CASE Exit
    <2>1. \A m \in Block : durable[m] = content[m]
      BY <1>9 DEF Exit, Inv, InStep
    <2>2. durable = content
      BY <1>0, <2>1
    <2>3. /\ content[Super] = super /\ content[Ibitmap] = ifree /\ content[Dbitmap] = bfree
          /\ super.nblk > 0
      BY <1>9 DEF Exit, Stages
    <2>4. saved' = [super |-> super, ifree |-> ifree, bfree |-> bfree, content |-> content]
      BY <1>9 DEF Exit, View
    <2>5. phase' = "down" /\ durable' = durable /\ content' = durable
      BY <1>9 DEF Exit, Gone
    <2> QED BY <2>2, <2>3, <2>4, <2>5 DEF Kept
  <1>10. CASE Crash
    BY <1>10 DEF Crash, Gone, Kept
  <1>11. CASE UNCHANGED vars
    BY <1>11, SameKept DEF vars, history
  <1> QED BY <1>1, <1>2, <1>4, <1>5, <1>6, <1>7, <1>8, <1>9, <1>10, <1>11 DEF Next

LEMMA KeptRight == Inv /\ Kept => CleanMountRestores
  <1> SUFFICES ASSUME Inv, Kept, clean, phase = "up"
               PROVE  View = [saved EXCEPT !.super.fd = super.fd] /\ Root["."] = 0
    BY DEF CleanMountRestores
  <1>1. /\ super = durable[Super] /\ ifree = durable[Ibitmap] /\ bfree = durable[Dbitmap]
        /\ content = durable
        /\ saved = [super |-> durable[Super], ifree |-> durable[Ibitmap],
                    bfree |-> durable[Dbitmap], content |-> durable]
    BY DEF Kept
  <1>2. View = saved /\ saved.super = super
    BY <1>1 DEF View
  <1>3. [super EXCEPT !.fd = super.fd] = super
    BY DEF Inv, Memory, Record
  <1>4. [saved EXCEPT !.super.fd = super.fd] = saved
    BY <1>1, <1>2, <1>3
  <1>5. Root["."] = 0
    BY DEF Inv, Rooted, HasRoot, Root
  <1> QED BY <1>2, <1>4, <1>5

(* A mount after a complete unmount, and after sessions that changed nothing, *)
(* finds the image that was unmounted, with its counters and bitmaps          *)
(* (op_init.c, op_destroy.c).                                                 *)
THEOREM MountRestores == Spec => []CleanMountRestores
  <1> DEFINE All == Inv /\ Stages /\ Kept
  <1>1. Init => All
    BY InitInv, InitKept
  <1>2. All /\ [Next]_vars => All'
    BY InvStep, NextStages, NextKept
  <1>3. All => CleanMountRestores
    BY KeptRight
  <1> HIDE DEF All
  <1> QED BY <1>1, <1>2, <1>3, PTL DEF Spec

-------------------------------------------------------------------------------
(* The counters tell how many bits are set: of blocks, how many of those of   *)
(* the disk.                                                                  *)
Agrees(b, fi, fb) == /\ b.nifree = Cardinality(fi)
                     /\ b.nbfree = Cardinality(fb \cap Blk)

(* Counters and bitmaps belong together, in memory and in the image, until an *)
(* unmount is cut short; tiny_destroy is the only one to write them.          *)
Counted ==
  ~cut =>
    /\ ~wild
    /\ phase # "down" => Agrees(super, ifree, bfree)
    /\ phase \in {"down", "up"} /\ durable[Super].nblk > 0 =>
         Agrees(durable[Super], durable[Ibitmap], durable[Dbitmap])

LEMMA First ==
  ASSUME NEW S \in SUBSET Nat, S # {}
  PROVE  \E b \in S : \A c \in S : b <= c
  <1> DEFINE R == {ss \in Nat \X Nat : ss[1] < ss[2]}
  <1>1. IsWellFoundedOn(R, Nat)
    BY NatLessThanWellFounded DEF OpToRel
  <1>2. PICK b \in S : \A c \in S : <<c, b>> \notin R
    <2> HIDE DEF R
    <2> QED BY <1>1, WFMin
  <1>3. ASSUME NEW c \in S PROVE b <= c
    <2>1. <<c, b>> \in Nat \X Nat /\ <<c, b>> \notin R /\ c \in Nat /\ b \in Nat
      BY <1>2
    <2>2. ~(c < b)
      BY <2>1
    <2> QED BY <2>1, <2>2
  <1> QED BY <1>3

(* First fit finds a block of the disk if there is one.                       *)
LEMMA FirstBlock ==
  ASSUME Memory, bfree \cap Blk # {}
  PROVE  \E b \in Blk : IsFirst(b, bfree)
  <1>1. bfree \subseteq Bit /\ bfree \subseteq Nat /\ bfree # {}
    BY Sizes DEF Memory
  <1>2. PICK b \in bfree : \A c \in bfree : b <= c
    BY <1>1, First
  <1>3. PICK c \in bfree : c \in Blk
    OBVIOUS
  <1>4. b \in Blk
    <2>1. b <= c /\ b \in Bit /\ c \in 4 .. NBlk + 3
      BY <1>1, <1>2, <1>3, Sizes
    <2>2. b >= 4 /\ b \in Int
      BY <2>1, SizeAssumption DEF Bit
    <2> QED BY <2>1, <2>2, Sizes
  <1> QED BY <1>2, <1>4 DEF IsFirst

LEMMA Finite == /\ IsFiniteSet(Ino) /\ Cardinality(Ino) = NIno
                /\ IsFiniteSet(Blk) /\ Cardinality(Blk) = NBlk
  <1>1. NIno - 1 \in Int /\ NBlk + 3 \in Int /\ Ino = 0 .. NIno - 1 /\ Blk = 4 .. NBlk + 3
        /\ NIno \in Nat \ {0} /\ NBlk \in Nat \ {0}
    BY Sizes DEF Ino
  <1>2. IsFiniteSet(0 .. NIno - 1) /\ Cardinality(0 .. NIno - 1) = NIno
    BY <1>1, FS_Interval
  <1>3. IsFiniteSet(4 .. NBlk + 3) /\ Cardinality(4 .. NBlk + 3) = NBlk
    BY <1>1, FS_Interval
  <1> QED BY <1>1, <1>2, <1>3

LEMMA FiniteFree ==
  ASSUME Memory
  PROVE  /\ IsFiniteSet(ifree) /\ Cardinality(ifree) \in Nat
         /\ IsFiniteSet(bfree \cap Blk) /\ Cardinality(bfree \cap Blk) \in Nat
  <1>1. ifree \in SUBSET Ino /\ bfree \cap Blk \in SUBSET Blk
    BY DEF Memory
  <1> QED BY <1>1, Finite, FS_Subset, FS_CardinalityType

(* A counter that is not 0 speaks of a bit.                                   *)
LEMMA NeverWild ==
  ASSUME Memory, Agrees(super, ifree, bfree)
  PROVE  /\ super.nifree > 0 => ifree # {}
         /\ super.nbfree > 0 => \E b \in Blk : IsFirst(b, bfree)
  <1>1. super.nifree > 0 => ifree # {}
    BY FS_EmptySet DEF Agrees
  <1>2. super.nbfree > 0 => bfree \cap Blk # {}
    BY FS_EmptySet DEF Agrees
  <1> QED BY <1>1, <1>2, FirstBlock

(* A handler changes counters and bitmaps of memory alone.                    *)
LEMMA CallCounted ==
  ASSUME Counted, phase = "up", phase' = phase, wild' = wild, cut' = cut, durable' = durable,
         Agrees(super, ifree, bfree) => Agrees(super', ifree', bfree')
  PROVE  Counted'
  BY DEF Counted

LEMMA CreateCounted ==
  ASSUME Inv, Counted, NEW n \in Name, Create(n), ~cut'
  PROVE  Counted'
  <1>1. phase = "up" /\ super.nifree > 0 /\ ~cut
    BY DEF Create, Call, GoWild, history
  <1>2. Memory /\ Agrees(super, ifree, bfree)
    BY <1>1 DEF Inv, Counted
  <1>3. PICK i \in ifree :
          /\ ifree' = ifree \ {i} /\ super' = [super EXCEPT !.nifree = @ - 1]
          /\ phase' = phase /\ bfree' = bfree /\ durable' = durable /\ wild' = wild /\ cut' = cut
    BY <1>1, <1>2, NeverWild DEF Create, IsFirst
  <1>4. Cardinality(ifree \ {i}) = Cardinality(ifree) - 1
    BY <1>2, FiniteFree, FS_RemoveElement
  <1>5. super'.nifree = super.nifree - 1 /\ super'.nbfree = super.nbfree
    BY <1>2, <1>3 DEF Memory, Record
  <1>6. Agrees(super', ifree', bfree')
    BY <1>2, <1>3, <1>4, <1>5 DEF Agrees
  <1> QED BY <1>1, <1>3, <1>6, CallCounted

LEMMA WriteCounted ==
  ASSUME Inv, Counted, NEW n \in Name, Write(n), ~cut'
  PROVE  Counted'
  <1>1. phase = "up" /\ super.nbfree > 0 /\ ~cut
    BY DEF Write, Call, GoWild, Touch, history
  <1>2. Memory /\ Agrees(super, ifree, bfree)
    BY <1>1 DEF Inv, Counted
  <1>3. PICK b \in Blk :
          /\ b \in bfree /\ bfree' = bfree \ {b} /\ super' = [super EXCEPT !.nbfree = @ - 1]
          /\ phase' = phase /\ ifree' = ifree /\ durable' = durable /\ wild' = wild /\ cut' = cut
    BY <1>1, <1>2, NeverWild DEF Write, IsFirst, Touch
  <1>4. Cardinality(bfree' \cap Blk) = Cardinality(bfree \cap Blk) - 1
    <2>1. bfree' \cap Blk = (bfree \cap Blk) \ {b} /\ b \in bfree \cap Blk
      BY <1>3
    <2> QED BY <1>2, <2>1, FiniteFree, FS_RemoveElement
  <1>5. super'.nbfree = super.nbfree - 1 /\ super'.nifree = super.nifree
    BY <1>2, <1>3 DEF Memory, Record
  <1>6. Agrees(super', ifree', bfree')
    BY <1>2, <1>3, <1>4, <1>5 DEF Agrees
  <1> QED BY <1>1, <1>3, <1>6, CallCounted

LEMMA UnlinkCounted ==
  ASSUME Inv, Counted, NEW n \in Name, Unlink(n), ~cut'
  PROVE  Counted'
  <1>0. PICK i : i = Root[n]
    OBVIOUS
  <1>1. PICK l, bs :
          /\ l \in {0, 1} /\ l = (IF i \in ifree THEN 0 ELSE 1) /\ bs = Freed(Blocks(i))
          /\ bfree' = bfree \cup bs /\ ifree' = ifree \cup {i}
          /\ super' = [super EXCEPT !.nbfree = @ + Cardinality(bs), !.nifree = @ + l]
          /\ phase = "up" /\ phase' = phase /\ durable' = durable /\ wild' = wild
          /\ cut' = cut /\ i # None
    <2>1. \A bs : bs = Freed(Blocks(i)) => bfree' = bfree \cup bs
      BY <1>0 DEF Unlink
    <2>2. \A bs, l : bs = Freed(Blocks(i)) /\ l = (IF i \in ifree THEN 0 ELSE 1) =>
            super' = [super EXCEPT !.nbfree = @ + Cardinality(bs), !.nifree = @ + l]
      BY <1>0 DEF Unlink
    <2>3. /\ ifree' = ifree \cup {i} /\ i # None
          /\ phase = "up" /\ phase' = phase /\ durable' = durable /\ wild' = wild /\ cut' = cut
      BY <1>0 DEF Unlink, Call, Touch
    <2> QED BY <2>1, <2>2, <2>3
  <1>2. Memory /\ Agrees(super, ifree, bfree)
    BY <1>1 DEF Inv, Counted
  <1>3. bs \subseteq Blk /\ bs \cap bfree = {} /\ bs \in SUBSET Blk
    BY <1>0, <1>1, FileInode DEF Inv, Freed
  <1>4. IsFiniteSet(bs) /\ Cardinality(bs) \in Nat
    BY <1>3, Finite, FS_Subset, FS_CardinalityType
  <1>5. Cardinality(bfree' \cap Blk) = Cardinality(bfree \cap Blk) + Cardinality(bs)
    <2>1. bfree' \cap Blk = (bfree \cap Blk) \cup bs /\ (bfree \cap Blk) \cap bs = {}
      BY <1>1, <1>3
    <2>2. Cardinality((bfree \cap Blk) \cup bs)
            = Cardinality(bfree \cap Blk) + Cardinality(bs) - Cardinality((bfree \cap Blk) \cap bs)
      BY <1>2, <1>4, FiniteFree, FS_Union
    <2>3. Cardinality({}) = 0
      BY FS_EmptySet
    <2>4. Cardinality(bfree \cap Blk) \in Nat
      BY <1>2, FiniteFree
    <2>5. Cardinality((bfree \cap Blk) \cap bs) = 0
      BY <2>1, <2>3
    <2>6. Cardinality((bfree \cap Blk) \cup bs) = Cardinality(bfree \cap Blk) + Cardinality(bs)
      BY <1>4, <2>2, <2>4, <2>5
    <2> QED BY <2>1, <2>6
  <1>6. Cardinality(ifree') = Cardinality(ifree) + l
    <2>1. Cardinality(ifree \cup {i}) =
            IF i \in ifree THEN Cardinality(ifree) ELSE Cardinality(ifree) + 1
      BY <1>2, FiniteFree, FS_AddElement
    <2> QED BY <1>1, <1>2, <2>1, FiniteFree
  <1>7. super'.nbfree = super.nbfree + Cardinality(bs) /\ super'.nifree = super.nifree + l
    BY <1>1, <1>2 DEF Memory, Record
  <1>8. Agrees(super', ifree', bfree')
    BY <1>2, <1>5, <1>6, <1>7 DEF Agrees
  <1> QED BY <1>1, <1>8, CallCounted

(* The super block and the bitmaps of the image wait for tiny_destroy.        *)
LEMMA DurableCounted ==
  ASSUME Counted, NEW n, n \in Block, phase = "up" => n \notin {0, 1, 2}, phase # "down",
         Disk(durable), durable' = [durable EXCEPT ![n] = content[n]],
         phase' = phase, super' = super, ifree' = ifree, bfree' = bfree, wild' = wild, cut' = cut
  PROVE  Counted'
  <1>1. durable = [m \in Block |-> durable[m]]
    BY DEF Disk
  <1>2. phase = "up" => \A m \in {0, 1, 2} : durable'[m] = durable[m]
    BY <1>1, Sizes
  <1> QED BY <1>2 DEF Counted

LEMMA FormatCounted == Inv /\ Counted /\ Format => Counted'
  <1> SUFFICES ASSUME Inv, Counted, Format, ~cut' PROVE Counted'
    BY DEF Counted
  <1>1. /\ super'.nbfree = NBlk - 1 /\ super'.nifree = NIno - 1
        /\ ifree' = Ino \ {0} /\ bfree' = Bit \ {4}
        /\ durable' = Zeroes /\ wild' = wild /\ cut' = cut
    BY DEF Format, Fresh, history
  <1>2. Cardinality(Ino \ {0}) = NIno - 1
    BY Finite, Sizes, FS_RemoveElement
  <1>3. Cardinality((Bit \ {4}) \cap Blk) = NBlk - 1
    <2>1. (Bit \ {4}) \cap Blk = Blk \ {4}
      BY Sizes
    <2>2. Cardinality(Blk \ {4}) = NBlk - 1
      <3>1. 4 \in Blk
        BY Sizes
      <3> QED BY <3>1, Finite, FS_RemoveElement
    <2> QED BY <2>1, <2>2
  <1>4. Agrees(super', ifree', bfree')
    BY <1>1, <1>2, <1>3 DEF Agrees
  <1>5. ~(durable'[Super].nblk > 0)
    BY <1>1, ZeroesDisk
  <1>6. ~wild'
    BY <1>1 DEF Counted
  <1> QED BY <1>4, <1>5, <1>6 DEF Counted

LEMMA ExitCounted ==
  ASSUME Inv, Stages, Counted, Exit, ~cut'
  PROVE  Counted'
  <1>1. /\ phase' = "down" /\ durable' = durable /\ wild' = wild /\ cut' = cut
        /\ phase = "sync" /\ dirty = {}
    BY DEF Exit, Gone
  <1>2. durable[0] = content[0] /\ durable[1] = content[1] /\ durable[2] = content[2]
    BY <1>1, Sizes DEF Inv, InStep
  <1>3. durable[0] = super /\ durable[1] = ifree /\ durable[2] = bfree
    BY <1>1, <1>2 DEF Stages
  <1>4. Agrees(super, ifree, bfree) /\ ~wild
    BY <1>1 DEF Counted
  <1> QED BY <1>1, <1>3, <1>4 DEF Counted

LEMMA NextCounted == Inv /\ Stages /\ Counted /\ [Next]_vars => Counted'
  <1> SUFFICES ASSUME Inv, Stages, Counted, [Next]_vars, ~cut' PROVE Counted'
    BY DEF Counted
  <1>1. CASE Format
    BY <1>1, FormatCounted
  <1>2. CASE Load
    BY <1>2 DEF Load, LoadBitmaps, Counted, history
  <1>3. ASSUME NEW n \in Name, Create(n) PROVE Counted'
    BY <1>3, CreateCounted
  <1>4. ASSUME NEW n \in Name, Write(n) PROVE Counted'
    BY <1>4, WriteCounted
  <1>5. ASSUME NEW n \in Name, Unlink(n) PROVE Counted'
    BY <1>5, UnlinkCounted
  <1>6. CASE Evict \/ SyncOne
    <2>1. PICK n : n \in dirty /\ durable' = [durable EXCEPT ![n] = content[n]]
      BY <1>6 DEF Evict, SyncOne
    <2>2. /\ phase' = phase /\ super' = super /\ ifree' = ifree /\ bfree' = bfree
          /\ wild' = wild /\ cut' = cut /\ phase # "down"
      BY <1>6 DEF Evict, SyncOne, history
    <2>3. n \in Block /\ Disk(durable) /\ (phase = "up" => n \notin {0, 1, 2})
      BY <2>1 DEF Inv, Memory, InStep
    <2> QED BY <2>1, <2>2, <2>3, DurableCounted
  <1>7. CASE SaveAll
    <2>1. /\ super' = super /\ ifree' = ifree /\ bfree' = bfree /\ wild' = wild /\ cut' = cut
          /\ phase # "down" /\ phase' \notin {"down", "up"}
      BY <1>7 DEF SaveAll, Save, history
    <2> QED BY <2>1 DEF Counted
  <1>8. CASE Exit
    BY <1>8, ExitCounted
  <1>9. CASE Crash
    <2>1. phase' = "down" /\ durable' = durable /\ ~wild' /\ ~cut /\ phase # "down"
          /\ phase \notin {"ibitmap", "dbitmap", "sync"}
      BY <1>9 DEF Crash, Gone
    <2>2. phase = "up"
      BY <2>1 DEF Inv, Memory, Phase
    <2> QED BY <2>1, <2>2 DEF Counted
  <1>10. CASE UNCHANGED vars
    BY <1>10 DEF vars, history, Counted
  <1> QED BY <1>1, <1>2, <1>3, <1>4, <1>5, <1>6, <1>7, <1>8, <1>9, <1>10 DEF Next

(* As long as no unmount has been cut short, no handler uses the number of a  *)
(* block or inode that does not exist, however sessions end: counters and     *)
(* bitmaps of one image come from the same unmount (op_destroy.c).            *)
THEOREM WildIsAfterCut == Spec => []WildOnlyAfterCut
  <1> DEFINE All == Inv /\ Stages /\ Counted
  <1>1. Init => All
    <2>1. Init => Counted
      BY ZeroesDisk DEF Init, Counted
    <2> QED BY <2>1, InitInv, InitKept
  <1>2. All /\ [Next]_vars => All'
    BY InvStep, NextStages, NextCounted
  <1>3. All => WildOnlyAfterCut
    BY DEF Counted, WildOnlyAfterCut
  <1> HIDE DEF All
  <1> QED BY <1>1, <1>2, <1>3, PTL DEF Spec

-------------------------------------------------------------------------------
(* A file that was saved in good order and that nobody touched since, its     *)
(* inode, and its blocks.                                                     *)
OldIno(n)    == saved.content[Start][n]
OldTable(n)  == saved.content[InodeBlk][OldIno(n)]
OldBlocks(n) == {OldTable(n)[k] : k \in 1 .. Len(OldTable(n))}
Guarded(n)   == /\ saved # << >> /\ OldIno(n) # None /\ OldIno(n) \notin touched
                /\ OldIno(n) \notin saved.ifree /\ OldBlocks(n) \cap saved.bfree = {}

(* An image has the file as it was, and bitmaps keep its inode and blocks.    *)
Holds(c, n)     == /\ c[Start][n] = OldIno(n) /\ c[InodeBlk][OldIno(n)] = OldTable(n)
                   /\ \A b \in OldBlocks(n) : c[b] = saved.content[b]
Keeps(fi, fb, n) == OldIno(n) \notin fi /\ OldBlocks(n) \cap fb = {}

(* The file is in memory and in the image, and all three pairs of bitmaps,    *)
(* old and new ones mixed, keep it.                                           *)
Safe(n) ==
  /\ Holds(content, n) /\ Holds(durable, n)
  /\ OldIno(n) \notin content[Ibitmap] /\ OldBlocks(n) \cap content[Dbitmap] = {}
  /\ OldIno(n) \notin durable[Ibitmap] /\ OldBlocks(n) \cap durable[Dbitmap] = {}
  /\ phase # "down" => Keeps(ifree, bfree, n)

(* An image that has been saved is never formatted again.                     *)
Lasts == saved # << >> => /\ content[Super].nblk > 0 /\ durable[Super].nblk > 0
                          /\ Disk(saved.content)

Untouched == Lasts /\ \A n \in Name : Guarded(n) => Safe(n)

LEMMA OldFile ==
  ASSUME Lasts, NEW n \in Name, Guarded(n)
  PROVE  /\ OldIno(n) \in Ino \ {0} /\ OldTable(n) \in Seq(Blk \ {Start})
         /\ OldBlocks(n) \subseteq Blk \ {Start}
  <1>1. Disk(saved.content) /\ OldIno(n) # -1
    BY DEF Lasts, Guarded
  <1>2. OldIno(n) \in Ino \ {0}
    BY <1>1 DEF Disk, OldIno
  <1>3. OldTable(n) \in Seq(Blk \ {4})
    BY <1>1, <1>2 DEF Disk, OldTable
  <1>4. \A k \in 1 .. Len(OldTable(n)) : OldTable(n)[k] \in Blk \ {4}
    BY <1>3
  <1> QED BY <1>2, <1>3, <1>4 DEF OldBlocks

LEMMA SameOld ==
  ASSUME NEW n, saved' = saved
  PROVE  OldIno(n)' = OldIno(n) /\ OldTable(n)' = OldTable(n) /\ OldBlocks(n)' = OldBlocks(n)
  <1>1. OldIno(n)' = OldIno(n)
    BY DEF OldIno
  <1>2. OldTable(n)' = OldTable(n)
    BY <1>1 DEF OldTable
  <1> QED BY <1>1, <1>2, Zenon DEF OldBlocks

(* A handler that changes neither the name, nor the inode, nor the blocks.    *)
LEMMA CallSafe ==
  ASSUME NEW n, Safe(n), phase = "up",
         Keeps(ifree', bfree', n), Holds(content', n), saved' = saved, durable' = durable,
         content'[Ibitmap] = content[Ibitmap], content'[Dbitmap] = content[Dbitmap]
  PROVE  Safe(n)'
  <1>1. OldIno(n)' = OldIno(n) /\ OldTable(n)' = OldTable(n) /\ OldBlocks(n)' = OldBlocks(n)
    BY SameOld
  <1>2. Holds(content, n)' /\ Holds(durable, n)'
    BY <1>1 DEF Safe, Holds
  <1>3. Keeps(ifree, bfree, n)'
    BY <1>1 DEF Keeps
  <1> QED BY <1>1, <1>2, <1>3 DEF Safe

LEMMA CreateSafe ==
  ASSUME Inv, Lasts, NEW n \in Name, Guarded(n), Safe(n), NEW m \in Name, Create(m), ~GoWild
  PROVE  Safe(n)'
  <1>1. PICK i \in Ino :
          /\ i \in ifree /\ ifree' = ifree \ {i} /\ bfree' = bfree
          /\ content' = [content EXCEPT ![InodeBlk][i] = << >>, ![Start][m] = i]
          /\ durable' = durable /\ saved' = saved /\ phase = "up"
    BY DEF Create, IsFirst, Call
  <1>2. content[4][m] = -1
    BY DEF Create, Root
  <1>3. OldIno(n) # i /\ n # m /\ Keeps(ifree', bfree', n)
    BY <1>1, <1>2 DEF Safe, Keeps, Holds, Guarded
  <1>4. /\ \A k \in Block \ {3, 4} : content'[k] = content[k]
        /\ content'[3] = [content[3] EXCEPT ![i] = << >>]
        /\ content'[4] = [content[4] EXCEPT ![m] = i]
    <2> DEFINE A == [content[3] EXCEPT ![i] = << >>]
               B == [content[4] EXCEPT ![m] = i]
    <2>1. content = [k \in Block |-> content[k]] /\ 3 \in Block /\ 4 \in Block /\ 3 # 4
      BY Sizes DEF Inv, Disk
    <2>2. content' = [content EXCEPT ![3] = A, ![4] = B]
      BY <1>1, UpdateIn
    <2> HIDE DEF A, B
    <2>3. \A k \in Block \ {3, 4} : content'[k] = content[k]
      BY <2>1, <2>2
    <2>4. content'[3] = A /\ content'[4] = B
      BY <2>1, <2>2
    <2> QED BY <2>3, <2>4 DEF A, B
  <1>5. /\ content[3] \in [Ino -> Seq(Blk)]
        /\ content[4] \in [Name \cup {"."} -> Ino \cup {-1}]
    BY DEF Inv, Disk
  <1>6. Holds(content', n)
    <2>1. OldIno(n) \in Ino /\ OldBlocks(n) \subseteq Block \ {3, 4}
      BY OldFile, Sizes
    <2>2. content'[4][n] = content[4][n]
      BY <1>3, <1>4, <1>5
    <2>3. content'[3][OldIno(n)] = content[3][OldIno(n)]
      BY <1>3, <1>4, <1>5, <2>1
    <2> QED BY <1>4, <2>1, <2>2, <2>3 DEF Safe, Holds
  <1>7. content'[1] = content[1] /\ content'[2] = content[2]
    BY <1>4, Sizes
  <1> QED BY <1>1, <1>3, <1>6, <1>7, CallSafe

LEMMA WriteSafe ==
  ASSUME Inv, Lasts, NEW n \in Name, Guarded(n), Safe(n), OldIno(n) \notin touched',
         NEW m \in Name, Write(m), ~GoWild
  PROVE  Safe(n)'
  <1>0. PICK i : i = Root[m]
    OBVIOUS
  <1>1. PICK b \in Blk :
          /\ b \in bfree /\ bfree' = bfree \ {b} /\ ifree' = ifree
          /\ content' = [content EXCEPT ![InodeBlk][i] = Append(@, b), ![b] = i]
          /\ durable' = durable /\ saved' = saved /\ phase = "up"
          /\ i \in touched' /\ i # -1
    BY <1>0 DEF Write, IsFirst, Call, Touch
  <1>2. i # OldIno(n) /\ b \notin OldBlocks(n) /\ Keeps(ifree', bfree', n)
    BY <1>1 DEF Safe, Keeps
  <1>3. b \in Block /\ b # 3 /\ b # 4 /\ b > 4
    BY <1>1, Sizes DEF Inv, Memory
  <1>4. /\ \A k \in Block \ {3, b} : content'[k] = content[k]
        /\ content'[3] = [content[3] EXCEPT ![i] = Append(@, b)]
    <2> DEFINE A == [content[3] EXCEPT ![i] = Append(@, b)]
    <2>1. content = [k \in Block |-> content[k]] /\ 3 \in Block
      BY Sizes DEF Inv, Disk
    <2>2. content' = [content EXCEPT ![3] = A, ![b] = i]
      BY <1>1, <1>3
    <2> HIDE DEF A
    <2>3. \A k \in Block \ {3, b} : content'[k] = content[k]
      BY <2>1, <2>2
    <2>4. content'[3] = A
      BY <1>3, <2>1, <2>2
    <2> QED BY <2>3, <2>4 DEF A
  <1>5. content[3] \in [Ino -> Seq(Blk)]
    BY DEF Inv, Disk
  <1>6. Holds(content', n)
    <2>1. OldIno(n) \in Ino /\ OldBlocks(n) \subseteq Block \ {3, b}
      BY <1>2, OldFile, Sizes
    <2>2. content'[4] = content[4]
      BY <1>3, <1>4, Sizes
    <2>3. content'[3][OldIno(n)] = content[3][OldIno(n)]
      BY <1>2, <1>4, <1>5, <2>1
    <2> QED BY <1>4, <2>1, <2>2, <2>3 DEF Safe, Holds
  <1>7. content'[1] = content[1] /\ content'[2] = content[2]
    BY <1>3, <1>4, Sizes
  <1> QED BY <1>1, <1>2, <1>6, <1>7, CallSafe

LEMMA UnlinkSafe ==
  ASSUME Inv, Lasts, NEW n \in Name, Guarded(n), Safe(n), OldIno(n) \notin touched',
         NEW m \in Name, Unlink(m)
  PROVE  Safe(n)'
  <1>0. PICK i : i = Root[m]
    OBVIOUS
  <1>1. /\ bfree' = bfree \cup Freed(Blocks(i)) /\ ifree' = ifree \cup {i}
        /\ content' = [content EXCEPT ![Start][m] = None]
        /\ durable' = durable /\ saved' = saved /\ phase = "up"
    BY <1>0 DEF Unlink, Call, Touch
  <1>2. i \in touched' /\ \A j \in Ino : Blocks(j) \cap Blocks(i) # {} => j \in touched'
    BY <1>0 DEF Unlink, Touch
  <1>3. OldIno(n) \in Ino /\ OldBlocks(n) \subseteq Block \ {4}
    BY OldFile, Sizes
  <1>4. Blocks(OldIno(n)) = OldBlocks(n)
    BY DEF Safe, Holds, Blocks, OldBlocks
  <1>5. i # OldIno(n) /\ n # m /\ Keeps(ifree', bfree', n)
    BY <1>0, <1>1, <1>2, <1>3, <1>4 DEF Safe, Holds, Keeps, Freed, Root
  <1>6. /\ \A k \in Block \ {4} : content'[k] = content[k]
        /\ content'[4] = [content[4] EXCEPT ![m] = -1]
    <2>1. content = [k \in Block |-> content[k]] /\ 4 \in Block
      BY Sizes DEF Inv, Disk
    <2> QED BY <1>1, <2>1
  <1>7. content[4] \in [Name \cup {"."} -> Ino \cup {-1}]
    BY DEF Inv, Disk
  <1>8. Holds(content', n)
    <2>1. content'[4][n] = content[4][n]
      BY <1>5, <1>6, <1>7
    <2>2. content'[3] = content[3]
      BY <1>6, Sizes
    <2> QED BY <1>3, <1>6, <2>1, <2>2 DEF Safe, Holds
  <1>9. content'[1] = content[1] /\ content'[2] = content[2]
    BY <1>6, Sizes
  <1> QED BY <1>1, <1>5, <1>8, <1>9, CallSafe

(* A block is written back, or one of the three that tiny_destroy saves.      *)
LEMMA DurableSafe ==
  ASSUME Disk(content), Disk(durable), Lasts, NEW n \in Name, Guarded(n), Safe(n),
         NEW m, m \in Block, durable' = [durable EXCEPT ![m] = content[m]],
         content' = content, saved' = saved, ifree' = ifree, bfree' = bfree, phase' = phase
  PROVE  Safe(n)'
  <1>1. OldIno(n)' = OldIno(n) /\ OldTable(n)' = OldTable(n) /\ OldBlocks(n)' = OldBlocks(n)
    BY SameOld
  <1>2. \A k \in Block : durable'[k] = content[k] \/ durable'[k] = durable[k]
    BY DEF Disk
  <1>3. OldBlocks(n) \subseteq Block
    BY OldFile, Sizes
  <1>4. Holds(content, n)' /\ Holds(durable, n)'
    BY <1>1, <1>2, <1>3, Sizes DEF Safe, Holds
  <1>5. /\ durable'[1] = content[1] \/ durable'[1] = durable[1]
        /\ durable'[2] = content[2] \/ durable'[2] = durable[2]
    BY <1>2, Sizes
  <1> QED BY <1>1, <1>4, <1>5 DEF Safe, Keeps

LEMMA SaveSafe ==
  ASSUME Inv, Lasts, NEW n \in Name, Guarded(n), Safe(n), SaveAll
  PROVE  Safe(n)'
  <1>1. /\ \/ content' = [content EXCEPT ![0] = super]
           \/ content' = [content EXCEPT ![1] = ifree]
           \/ content' = [content EXCEPT ![2] = bfree]
        /\ phase # "down" /\ durable' = durable /\ saved' = saved
        /\ ifree' = ifree /\ bfree' = bfree
    BY DEF SaveAll, Save, history
  <1>2. OldIno(n)' = OldIno(n) /\ OldTable(n)' = OldTable(n) /\ OldBlocks(n)' = OldBlocks(n)
    BY <1>1, SameOld
  <1>3. content = [k \in Block |-> content[k]]
    BY DEF Inv, Disk
  <1>4. \A k \in Block \ {0, 1, 2} : content'[k] = content[k]
    BY <1>1, <1>3
  <1>5. OldBlocks(n) \subseteq Block \ {0, 1, 2}
    BY OldFile, Sizes
  <1>6. Holds(content, n)' /\ Holds(durable, n)'
    BY <1>1, <1>2, <1>4, <1>5, Sizes DEF Safe, Holds
  <1>7. /\ content'[1] = content[1] \/ content'[1] = ifree
        /\ content'[2] = content[2] \/ content'[2] = bfree
    BY <1>1, <1>3, Sizes
  <1> QED BY <1>1, <1>2, <1>6, <1>7 DEF Safe, Keeps

(* What a process leaves behind, and what the next one loads.                 *)
LEMMA MountSafe ==
  ASSUME NEW n, Safe(n), saved' = saved, durable' = durable,
         content' = durable \/ content' = content,
         phase' # "down" => ifree' = durable[Ibitmap] /\ bfree' = durable[Dbitmap]
  PROVE  Safe(n)'
  <1>1. OldIno(n)' = OldIno(n) /\ OldTable(n)' = OldTable(n) /\ OldBlocks(n)' = OldBlocks(n)
    BY SameOld
  <1>2. Holds(content, n)' /\ Holds(durable, n)'
    BY <1>1 DEF Safe, Holds
  <1> QED BY <1>1, <1>2 DEF Safe, Keeps

LEMMA ExitSafe ==
  ASSUME Inv, Stages, Exit, NEW n \in Name, Guarded(n)'
  PROVE  Safe(n)'
  <1>1. /\ phase' = "down" /\ durable' = durable /\ content' = durable
        /\ saved' = [super |-> super, ifree |-> ifree, bfree |-> bfree, content |-> content]
        /\ phase = "sync" /\ dirty = {}
    BY DEF Exit, Gone, View
  <1>2. content = durable
    <2>1. /\ content = [k \in Block |-> content[k]]
          /\ durable = [k \in Block |-> durable[k]]
      BY DEF Inv, Disk
    <2>2. \A k \in Block : durable[k] = content[k]
      BY <1>1 DEF Inv, InStep
    <2> QED BY <2>1, <2>2
  <1>3. ifree = durable[1] /\ bfree = durable[2]
    BY <1>1, <1>2 DEF Stages
  <1>4. Holds(content, n)' /\ Holds(durable, n)'
    BY <1>1, <1>2 DEF Holds, OldIno, OldTable, OldBlocks
  <1>5. OldIno(n)' \notin durable[1] /\ OldBlocks(n)' \cap durable[2] = {}
    BY <1>1, <1>3 DEF Guarded
  <1> QED BY <1>1, <1>4, <1>5 DEF Safe

LEMMA NextLasts == Inv /\ Stages /\ Lasts /\ [Next]_vars => Lasts'
  <1> SUFFICES ASSUME Inv, Stages, Lasts, [Next]_vars, saved' # << >> PROVE Lasts'
    BY DEF Lasts
  <1>0. /\ content = [k \in Block |-> content[k]] /\ durable = [k \in Block |-> durable[k]]
        /\ 0 \in Block /\ 3 \in Block /\ 4 \in Block
    BY Sizes DEF Inv, Disk
  <1>1. CASE Exit
    <2>1. /\ durable' = durable /\ content' = durable /\ saved'.content = content
          /\ phase = "sync" /\ dirty = {}
      BY <1>1 DEF Exit, Gone, View
    <2>2. durable[0] = content[0] /\ content[0] = super /\ super.nblk > 0
      BY <1>0, <2>1 DEF Inv, InStep, Stages
    <2> QED BY <2>1, <2>2 DEF Inv, Lasts
  <1>2. ASSUME saved' = saved, durable'[0] = content[0] \/ durable'[0] = durable[0],
               \/ content'[0] = content[0] \/ content'[0] = durable[0]
               \/ (content'[0] = super /\ phase # "down")
        PROVE  Lasts'
    BY <1>2 DEF Lasts, Stages
  <1>3. ~Format
    <2>1. Format => saved # << >> /\ durable[0].nblk = 0
      BY DEF Format, history
    <2>2. saved # << >> => durable[0].nblk > 0
      BY DEF Lasts
    <2> QED BY <2>1, <2>2
  <1>4. ASSUME Load \/ GoWild \/ UNCHANGED vars PROVE Lasts'
    BY <1>2, <1>4 DEF Load, GoWild, vars, history
  <1>5. ASSUME NEW n \in Name, Create(n) \/ Unlink(n), ~GoWild PROVE Lasts'
    <2>1. saved' = saved /\ durable' = durable
      BY <1>5 DEF Create, Unlink, Touch
    <2>2. content'[0] = content[0]
      <3>1. \/ \E i : content' = [content EXCEPT ![3][i] = << >>, ![4][n] = i]
            \/ content' = [content EXCEPT ![4][n] = -1]
        BY <1>5 DEF Create, Unlink
      <3> QED BY <1>0, <3>1
    <2> QED BY <1>2, <2>1, <2>2
  <1>6. ASSUME NEW n \in Name, Write(n), ~GoWild PROVE Lasts'
    <2>1. saved' = saved /\ durable' = durable
      BY <1>6 DEF Write, Touch
    <2>2. content'[0] = content[0]
      <3>1. PICK b, i, q : b \in Blk /\ content' = [content EXCEPT ![3][i] = q, ![b] = i]
        BY <1>6 DEF Write
      <3>2. b # 0
        BY <3>1, Sizes
      <3> QED BY <1>0, <3>1, <3>2
    <2> QED BY <1>2, <2>1, <2>2
  <1>7. CASE Evict \/ SyncOne
    <2>1. PICK m : durable' = [durable EXCEPT ![m] = content[m]]
      BY <1>7 DEF Evict, SyncOne
    <2>2. content' = content /\ saved' = saved
      BY <1>7 DEF Evict, SyncOne, history
    <2>3. durable'[0] = content[0] \/ durable'[0] = durable[0]
      BY <1>0, <2>1
    <2> QED BY <1>2, <2>2, <2>3
  <1>8. CASE SaveAll
    <2>1. /\ \/ content' = [content EXCEPT ![0] = super]
             \/ content' = [content EXCEPT ![1] = ifree]
             \/ content' = [content EXCEPT ![2] = bfree]
          /\ phase # "down" /\ durable' = durable /\ saved' = saved
      BY <1>8 DEF SaveAll, Save, history
    <2>2. content'[0] = content[0] \/ content'[0] = super
      BY <1>0, <2>1
    <2> QED BY <1>2, <2>1, <2>2
  <1>9. CASE Crash
    BY <1>2, <1>9 DEF Crash, Gone
  <1> QED BY <1>1, <1>3, <1>4, <1>5, <1>6, <1>7, <1>8, <1>9 DEF Next

LEMMA NextSafe ==
  ASSUME Inv, Stages, Lasts, [Next]_vars, NEW n \in Name, Guarded(n) => Safe(n), Guarded(n)'
  PROVE  Safe(n)'
  <1>1. CASE Exit
    BY <1>1, ExitSafe
  <1>2. ~Exit => saved' = saved /\ touched \subseteq touched'
    <2>1. ASSUME NEW m \in Name, Create(m) \/ Write(m) \/ Unlink(m)
          PROVE  saved' = saved /\ touched \subseteq touched'
      BY <2>1 DEF Create, Write, Unlink, Touch, GoWild, history
    <2>2. Format \/ Load \/ Evict \/ SaveAll \/ SyncOne \/ Crash \/ UNCHANGED vars
            => saved' = saved /\ touched' = touched
      BY DEF Format, Load, Evict, SaveAll, Save, SyncOne, Crash, vars, history
    <2> QED BY <2>1, <2>2 DEF Next
  <1> SUFFICES ASSUME ~Exit PROVE Safe(n)'
    BY <1>1
  <1>3. Guarded(n) /\ Safe(n) /\ OldIno(n) \notin touched' /\ saved' = saved
    BY <1>2, SameOld DEF Guarded
  <1>4. ~Format
    <2>1. Format => durable[0].nblk = 0
      BY DEF Format
    <2>2. durable[0].nblk > 0
      BY <1>3 DEF Lasts, Guarded
    <2> QED BY <2>1, <2>2
  <1>5. CASE Load \/ Crash
    BY <1>3, <1>5, MountSafe DEF Load, LoadBitmaps, Crash, Gone
  <1>6. CASE GoWild \/ UNCHANGED vars
    <2>1. /\ content' = content /\ durable' = durable /\ phase' = phase
          /\ ifree' = ifree /\ bfree' = bfree
      BY <1>6 DEF GoWild, vars
    <2>2. OldIno(n)' = OldIno(n) /\ OldTable(n)' = OldTable(n) /\ OldBlocks(n)' = OldBlocks(n)
      BY <1>3, SameOld
    <2>3. Holds(content, n)' /\ Holds(durable, n)'
      BY <1>3, <2>1, <2>2 DEF Safe, Holds
    <2> QED BY <1>3, <2>1, <2>2, <2>3 DEF Safe, Keeps
  <1>7. ASSUME NEW m \in Name, Create(m) \/ Write(m) \/ Unlink(m) PROVE Safe(n)'
    BY <1>3, <1>6, <1>7, CreateSafe, WriteSafe, UnlinkSafe
  <1>8. CASE Evict \/ SyncOne
    <2>1. PICK m \in dirty : durable' = [durable EXCEPT ![m] = content[m]]
      BY <1>8 DEF Evict, SyncOne
    <2>2. /\ content' = content /\ phase' = phase /\ ifree' = ifree /\ bfree' = bfree
      BY <1>8 DEF Evict, SyncOne
    <2>3. m \in Block /\ Disk(content) /\ Disk(durable)
      BY <2>1 DEF Inv, Memory
    <2> QED BY <1>3, <2>1, <2>2, <2>3, DurableSafe
  <1>9. CASE SaveAll
    BY <1>3, <1>9, SaveSafe
  <1> QED BY <1>4, <1>5, <1>6, <1>7, <1>8, <1>9 DEF Next

LEMMA UntouchedKept == Inv /\ Untouched => CrashKeepsSaved
  <1> SUFFICES ASSUME Inv, Untouched, phase = "up", saved # << >>, NEW n \in Name,
                      OldIno(n) \notin touched, OldIno(n) # None, Sound(OldIno(n))
               PROVE  /\ Root[n] = OldIno(n) /\ OldIno(n) \notin ifree
                      /\ content[InodeBlk][OldIno(n)] = saved.content[InodeBlk][OldIno(n)]
                      /\ Blocks(OldIno(n)) \cap bfree = {}
                      /\ \A b \in Blocks(OldIno(n)) : content[b] = saved.content[b]
    BY DEF CrashKeepsSaved, OldIno
  <1>1. Guarded(n)
    BY DEF Guarded, Sound, OldBlocks, OldTable
  <1>2. Safe(n)
    BY <1>1 DEF Untouched
  <1>3. Blocks(OldIno(n)) = OldBlocks(n)
    BY <1>2 DEF Safe, Holds, Blocks, OldBlocks
  <1> QED BY <1>2, <1>3 DEF Safe, Holds, Keeps, Root, OldTable

(* A file that an unmount has saved in good order, and that no call has       *)
(* touched since, is there as it was after any number of sessions that die,   *)
(* also half-way through tiny_destroy, although by then bitmaps and super     *)
(* block of the image may be of different sessions (op_destroy.c).            *)
THEOREM CrashKeeps == Spec => []CrashKeepsSaved
  <1> DEFINE All == Inv /\ Stages /\ Untouched
  <1>1. Init => All
    <2>1. Init => Untouched
      BY DEF Init, Untouched, Lasts, Guarded
    <2> QED BY <2>1, InitInv, InitKept
  <1>2. All /\ [Next]_vars => All'
    BY InvStep, NextStages, NextLasts, NextSafe DEF Untouched
  <1>3. All => CrashKeepsSaved
    BY UntouchedKept
  <1> HIDE DEF All
  <1> QED BY <1>1, <1>2, <1>3, PTL DEF Spec
===============================================================================

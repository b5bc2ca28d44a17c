------------------------------- MODULE Library --------------------------------
(***************************************************************************)
(* The file system as a library (fs/FileSystem.c): descriptors, files and  *)
(* directories, called by one thread.  Buffers are left out: BufCache      *)
(* shows that the calls read what they wrote.  A path has one name or two, *)
(* a block of a file is written as a whole, and sizes are left out.        *)
(*                                                                         *)
(* The library goes on with -1 for a number when nothing is free, or when  *)
(* a name is longer than 59 characters: callers keep clear of both.        *)
(***************************************************************************)
EXTENDS Sequences, FiniteSetsExt, Integers

CONSTANTS Name,
          NIno, NBlk,  \* inodes, and blocks of the data region
          NFd,         \* the descriptors
          NDirent,     \* MAX_INDEX_OF_DIRBLK
          NDirect,     \* NUM_OF_INDIRECT_BLOCK
          MaxCall      \* calls of the library

ASSUME NameAssumption  == {"", ".", "..", "data"} \cap Name = {}
ASSUME CountAssumption == {NIno, NBlk, NFd, NDirect} \subseteq Nat \ {0}
ASSUME SlotAssumption  == NDirent \in Nat /\ NDirent > 2 /\ MaxCall \in Nat

Ino  == 0 .. NIno - 1
Blk  == 1 .. NBlk
Fd   == 0 .. NFd - 1
Slot == 1 .. NDirent
Path == {<<n>> : n \in Name} \cup (Name \X Name)
Root == 0
Super == 0   \* the block an unused i_block[] names

VARIABLES ino,       \* the inode list: type and i_block[0 .. blocks-1]
          blk,       \* the blocks, as ReadDirBlock takes them
          ibm, bbm,  \* inodes and blocks in use
          fdt,       \* fileDescTable, an offset counted in blocks
          calls,
          \* history
          odd        \* a call that the library takes and should not has been made

vars == <<ino, blk, ibm, bbm, fdt, calls, odd>>

Entry(n, i, d) == [name |-> n, ino |-> i, dir |-> d]
Empty   == Entry("", 0, FALSE)
Data    == [s \in Slot |-> Entry("data", 0, FALSE)]   \* a block a file was written to
Zeroes  == [s \in Slot |-> Empty]
NoInode == [dir |-> FALSE, i_block |-> <<>>]
Closed  == [valid |-> FALSE, offset |-> 0, inodeNo |-> 0]

-----------------------------------------------------------------------------
(* The first entry of an inode's blocks, in their order, among those at P: *)
(* a set with one place, or none.                                          *)
Places(i) == (1 .. Len(ino[i].i_block)) \X Slot
At(i, p)  == blk[ino[i].i_block[p[1]]][p[2]]
First(P)  == {p \in P : \A q \in P : p[1] < q[1] \/ (p[1] = q[1] /\ p[2] <= q[2])}

Named(i, n, dirs) == {p \in Places(i) : At(i, p).name = n /\ At(i, p).dir \in dirs}
Child(i, n) == {At(i, p).ino : p \in First(Named(i, n, {TRUE}))}

(* GetEntryPath: strstr cuts the path at the first place its last name is  *)
(* found, and "/a/a" is "/a".                                              *)
GetEntryPath(p) == IF p[1] = p[Len(p)] THEN <<>> ELSE SubSeq(p, 1, Len(p) - 1)

(* How the calls walk to a directory: one that is missing is passed over   *)
(* by OpenFile, and fails MakeDir, RemoveDir and EnumerateDirStatus.       *)
Walk(path) == IF path = <<>> THEN {Root} ELSE Child(Root, path[1])
WalkOver(path) == IF Walk(path) = {} THEN {Root} ELSE Walk(path)

(* GetFreeInode and GetFreeBlock; SetFreeToAlloc takes the one they name.  *)
FreeInode  == Min(Ino \ ibm)
FreeBlocks(k) == CHOOSE S \in SUBSET (Blk \ bbm) :
                   /\ Cardinality(S) = k
                   /\ \A b \in S, c \in (Blk \ bbm) \ S : b < c
FreeBlock  == Min(FreeBlocks(1))
NextBlock  == Max(FreeBlocks(2))
Room(i, b) == Cardinality(Ino \ ibm) >= i /\ Cardinality(Blk \ bbm) >= b

IsOpen(i) == \E f \in Fd : fdt[f].valid /\ fdt[f].inodeNo = i
Unused    == {f \in Fd : ~fdt[f].valid}

-----------------------------------------------------------------------------
(* OpenFile.  A file that some descriptor names, open or closed, gets that *)
(* descriptor as it is; valid_bit is set for a descriptor not seen before. *)
Reopened(i) == {f \in Fd : fdt[f].inodeNo = i}

(* Faulty: a file that is open already is given another descriptor.        *)
NewDescriptor(i) ==
  Unused # {} /\ fdt' = [fdt EXCEPT ![Min(Unused)] = [valid |-> TRUE, offset |-> 0, inodeNo |-> i]]

Descriptor(i) ==
  IF Reopened(i) # {} THEN fdt' = [fdt EXCEPT ![Min(Reopened(i))].offset = 0]
  ELSE fdt' = [fdt EXCEPT ![Min(Unused)] = [valid |-> TRUE, offset |-> 0, inodeNo |-> i]]

FileAt(p) == UNION {First(Named(d, p[Len(p)], {FALSE})) \X {d} : d \in WalkOver(GetEntryPath(p))}

OpenThere(p) ==
  \E f \in FileAt(p) :
    /\ Unused # {} \/ Reopened(At(f[2], f[1]).ino) # {}
    /\ Descriptor(At(f[2], f[1]).ino)
    /\ UNCHANGED <<ino, blk, ibm, bbm, odd>>

(* A file is created in a free entry.  The offset stays what it was.       *)
CreateInSlot(d, p, n) ==
  LET i == FreeInode IN
  /\ Room(1, 1) /\ Unused # {}
  /\ blk' = [blk EXCEPT ![ino[d].i_block[p[1]]][p[2]] = Entry(n, i, FALSE)]
  /\ ino' = [ino EXCEPT ![i] = [dir |-> FALSE, i_block |-> <<FreeBlock>>]]
  /\ ibm' = ibm \cup {i} /\ bbm' = bbm \cup {FreeBlock}
  /\ fdt' = [fdt EXCEPT ![Min(Unused)].valid = TRUE, ![Min(Unused)].inodeNo = i]
  /\ odd' = odd

(* The directory grows: the file's inode is not written and 0 is returned. *)
CreateInBlock(d, n) ==
  /\ Len(ino[d].i_block) < NDirect /\ Room(1, 1)
  /\ ino' = [ino EXCEPT ![d].i_block = Append(@, FreeBlock)]
  /\ blk' = [blk EXCEPT ![FreeBlock][1] = Entry(n, FreeInode, FALSE)]
  /\ ibm' = ibm \cup {FreeInode} /\ bbm' = bbm \cup {FreeBlock}
  /\ odd' = TRUE /\ UNCHANGED fdt

Create(p) ==
  /\ FileAt(p) = {}
  /\ \E d \in WalkOver(GetEntryPath(p)) :
       LET P == Named(d, "", BOOLEAN) IN
       \/ \E q \in First(P) : CreateInSlot(d, q, p[Len(p)])
       \/ P = {} /\ CreateInBlock(d, p[Len(p)])

OpenFile(p, create) == OpenThere(p) \/ (create /\ Create(p))

-----------------------------------------------------------------------------
(* WriteFile, of n whole blocks.  i_block[] is 0 beyond the last block.    *)
IBlock(i, k) == IF k < Len(ino[i].i_block) THEN ino[i].i_block[k + 1] ELSE Super

(* The first block is written where the offset is, and none is allocated   *)
(* for it; of the others, those that come right after the last one are.    *)
Grown(i, from, n) ==
  LET len == Len(ino[i].i_block) IN
  IF from + 1 > len THEN 0 ELSE Max({0, Min({from + n, NDirect}) - len})

(* A set of blocks as they come in the bitmap.                             *)
InOrder(S) == CHOOSE q \in [1 .. Cardinality(S) -> S] :
                \A j, k \in DOMAIN q : j < k => q[j] < q[k]

Written(i, from, n) == {IBlock(i, k) : k \in from .. Min({from + n, NDirect}) - 1}

WriteFile(f, n) ==
  LET i == fdt[f].inodeNo
      from == fdt[f].offset
      new  == FreeBlocks(Grown(i, from, n)) IN
  /\ fdt[f].valid /\ from < NDirect
  /\ Room(0, Grown(i, from, n))
  /\ ino' = [ino EXCEPT ![i].i_block = @ \o InOrder(new)]
  /\ bbm' = bbm \cup new
  /\ blk' = [b \in DOMAIN blk |-> IF b \in Written(i, from, n) \cup new THEN Data ELSE blk[b]]
  /\ fdt' = [fdt EXCEPT ![f].offset = Min({from + n, NDirect})]
  /\ UNCHANGED <<ibm, odd>>

(* ReadFile sets the offset to what it has read, wherever it read it.      *)
ReadFile(f, n) ==
  /\ fdt[f].offset < NDirect
  /\ fdt' = [fdt EXCEPT ![f].offset = Min({n, NDirect - @})]
  /\ UNCHANGED <<ino, blk, ibm, bbm, odd>>

CloseFile(f) ==
  /\ fdt' = [fdt EXCEPT ![f].valid = FALSE]
  /\ UNCHANGED <<ino, blk, ibm, bbm, odd>>

-----------------------------------------------------------------------------
(* RemoveFile looks in every directory of the path for the next one or for *)
(* the file, and where the file's blocks are looked through nothing is     *)
(* found.  An inode without blocks is not looked through: the last entry   *)
(* found stands.                                                           *)
Hits(i, c, n) == First(Named(i, c, {TRUE}) \cup Named(i, n, {FALSE})) \X {i}

(* Faulty: what is found in the first directory is the file.               *)
FirstHit(p) == Hits(Root, p[1], p[Len(p)])

Target(p) ==
  LET hit   == Hits(Root, p[1], p[Len(p)])
      below == IF hit = {} THEN {Root} ELSE {At(h[2], h[1]).ino : h \in hit}
  IN IF Len(p) = 1 THEN hit
     ELSE UNION {IF Places(i) = {} THEN hit ELSE Hits(i, p[2], p[2]) : i \in below}

(* Up to the first block that is free already, the blocks are freed; the   *)
(* inode is that of the first entry of the name in the same block.         *)
Freed(i) == LET B == ino[i].i_block IN
            {B[k] : k \in {m \in 1 .. Len(B) : \A l \in 1 .. m : B[l] \in bbm}}

SlotOf(b, n) == {s \in Slot : blk[b][s].name = n /\ \A t \in 1 .. s - 1 : blk[b][t].name # n}

RemoveFile(p) ==
  \E t \in Target(p) :
    LET i == At(t[2], t[1]).ino
        b == ino[t[2]].i_block[t[1][1]]
        S == IF Cardinality(Freed(i)) < Len(ino[i].i_block) THEN {}
             ELSE {s \in SlotOf(b, p[Len(p)]) : blk[b][s].ino \in ibm}
    IN /\ bbm' = bbm \ Freed(i)
       /\ ibm' = ibm \ {blk[b][s].ino : s \in S}
       /\ blk' = [blk EXCEPT ![b] = [s \in Slot |-> IF s \in S THEN Empty ELSE @[s]]]
       /\ odd' = (odd \/ ino[i].dir \/ IsOpen(i))
       /\ UNCHANGED <<ino, fdt>>

-----------------------------------------------------------------------------
(* MakeDir does not look if the name is there.  MakeDirentry writes "."    *)
(* and ".." over whatever the new block held.                              *)
Dots(i, parent) == [s \in Slot |-> IF s = 1 THEN Entry(".", i, TRUE)
                                  ELSE IF s = 2 THEN Entry("..", parent, TRUE) ELSE Empty]

(* Faulty: the new directory's ".." is the root.                           *)
RootAbove(d) == Root

Self(d) == blk[ino[d].i_block[1]][1].ino

MakeInSlot(d, p, n) ==
  LET i == FreeInode
      b == FreeBlock IN
  /\ Room(1, 1)
  /\ blk' = [blk EXCEPT ![ino[d].i_block[p[1]]][p[2]] = Entry(n, i, TRUE),
                        ![b] = [s \in Slot |-> IF s <= 2 THEN Dots(i, Self(d))[s] ELSE @[s]]]
  /\ ino' = [ino EXCEPT ![i] = [dir |-> TRUE, i_block |-> <<b>>]]
  /\ ibm' = ibm \cup {i} /\ bbm' = bbm \cup {b}

MakeInBlock(d, n) ==
  LET i == FreeInode IN
  /\ Len(ino[d].i_block) < NDirect /\ Room(1, 2)
  /\ ino' = [ino EXCEPT ![Self(d)].i_block = Append(@, FreeBlock),
                        ![i] = [dir |-> TRUE, i_block |-> <<NextBlock>>]]
  /\ blk' = [blk EXCEPT ![FreeBlock][1] = Entry(n, i, TRUE),
                        ![NextBlock] = Dots(i, Self(d))]
  /\ ibm' = ibm \cup {i} /\ bbm' = bbm \cup FreeBlocks(2)

MakeDir(p) ==
  /\ \E d \in Walk(GetEntryPath(p)) :
       LET P == Named(d, "", BOOLEAN) IN
       \/ \E q \in First(P) : MakeInSlot(d, q, p[Len(p)])
       \/ P = {} /\ MakeInBlock(d, p[Len(p)])
  /\ UNCHANGED <<fdt, odd>>

DirIsEmpty(i) ==
  /\ ino[i].dir
  /\ \A q \in Places(i) : At(i, q).name \in (IF q[1] = 1 THEN {"", ".", ".."} ELSE {""})

(* RemoveDir: of the directories of the name, the first that is empty.     *)
RemoveDir(p) ==
  \E d \in Walk(GetEntryPath(p)) :
    \E q \in First({r \in Named(d, p[Len(p)], {TRUE}) : DirIsEmpty(At(d, r).ino)}) :
      LET i == At(d, q).ino
          B == {ino[i].i_block[k] : k \in 1 .. Len(ino[i].i_block)} IN
      /\ blk' = [[b \in Blk |-> IF b \in B THEN Zeroes ELSE blk[b]]
                   EXCEPT ![ino[d].i_block[q[1]]][q[2]] = Empty]
      /\ bbm' = bbm \ B /\ ibm' = ibm \ {i}
      /\ ino' = [ino EXCEPT ![i] = NoInode]
      /\ UNCHANGED <<fdt, odd>>

(* Faulty: the listing ends at the first entry that is free.               *)
ListedToHole(i) == {q \in Places(i) : \A r \in Places(i) :
                      At(i, r).name = "" => q[1] < r[1] \/ (q[1] = r[1] /\ q[2] < r[2])}

(* EnumerateDirStatus, for room enough: the entries it copies.             *)
Listed(i) == {q \in Places(i) : At(i, q).name \notin {"", ".", ".."}}

-----------------------------------------------------------------------------
(* Mount of a disk that is formatted, and of one that was unmounted: all   *)
(* is as it was but for the descriptors.                                   *)
Init ==
  /\ ino = [i \in Ino |-> IF i = Root THEN [dir |-> TRUE, i_block |-> <<1>>] ELSE NoInode]
  /\ blk = [b \in Blk |-> IF b = 1 THEN [Zeroes EXCEPT ![1] = Entry(".", Root, TRUE)]
                                   ELSE Zeroes]
  /\ ibm = {Root} /\ bbm = {1}
  /\ fdt = [f \in Fd |-> Closed] /\ calls = 0 /\ odd = FALSE

Remount == fdt' = [f \in Fd |-> Closed] /\ UNCHANGED <<ino, blk, ibm, bbm, odd>>

Call ==
  \/ \E p \in Path : \/ \E create \in BOOLEAN : OpenFile(p, create)
                     \/ RemoveFile(p) \/ MakeDir(p) \/ RemoveDir(p)
  \/ \E f \in Fd : \/ \E n \in 1 .. NDirect : WriteFile(f, n) \/ ReadFile(f, n)
                   \/ CloseFile(f)
  \/ Remount

Next == calls < MaxCall /\ calls' = calls + 1 /\ Call

Spec == Init /\ [][Next]_vars

-----------------------------------------------------------------------------
Dirs      == {i \in ibm : ino[i].dir}
Blocks(i) == {ino[i].i_block[k] : k \in 1 .. Len(ino[i].i_block)}
Links     == {l \in UNION {{d} \X Places(d) : d \in Dirs} : At(l[1], l[2]).name \in Name}
Linked(l) == At(l[1], l[2]).ino

(* Unless a file was created in a full directory, removed while open, or   *)
(* was a directory: the inodes in use are those named, once each, and the  *)
(* blocks in use are theirs, each of one.                                  *)
BitmapsRight ==
  ~odd => /\ ibm = {Root} \cup {Linked(l) : l \in Links}
          /\ \A k, l \in Links : Linked(k) = Linked(l) => k = l
          /\ bbm = UNION {Blocks(i) : i \in ibm}
          /\ \A i, j \in ibm : i # j => Blocks(i) \cap Blocks(j) = {}

(* Then every directory knows itself and the one above it.                 *)
DotsRight ==
  ~odd => \A l \in Links : At(l[1], l[2]).dir =>
            LET b == blk[ino[Linked(l)].i_block[1]] IN
            b[1] = Entry(".", Linked(l), TRUE) /\ b[2] = Entry("..", l[1], TRUE)

(* Both: the inodes, blocks and directories on the disk are one tree.      *)
TreeRight == BitmapsRight /\ DotsRight

(* Then no two descriptors in use have one file, nor one a free inode.     *)
DescriptorsApart ==
  ~odd => \A f, g \in Fd :
            fdt[f].valid => /\ fdt[f].inodeNo \in ibm /\ ~ino[fdt[f].inodeNo].dir
                            /\ f # g /\ fdt[g].valid => fdt[f].inodeNo # fdt[g].inodeNo

(* Of a directory in the root, OpenFile finds the files EnumerateDirStatus *)
(* lists, but for a file that has the directory's name.                    *)
ListsWhatOpens ==
  \A d, n \in Name : \A i \in Child(Root, d) : n # d =>
    (FileAt(<<d, n>>) # {}) = (\E q \in Listed(i) : At(i, q).name = n /\ ~At(i, q).dir)

(* Then a write changes blocks of the file of a descriptor in use only, of *)
(* that whose offset moves.                                                *)
WritesItsOwn ==
  [][~odd => \A b \in Blk : blk[b] # Data /\ blk'[b] = Data =>
       \E f \in Fd : /\ fdt[f].valid /\ fdt'[f].offset > fdt[f].offset
                     /\ \E k \in 1 .. Len(ino'[fdt[f].inodeNo].i_block) :
                          ino'[fdt[f].inodeNo].i_block[k] = b]_vars

(* Then what RemoveFile takes away is the file OpenFile finds under that   *)
(* path, unless the path has one name twice.                               *)
RemovesWhatOpens ==
  [][\A p \in Path : RemoveFile(p) /\ ~odd' /\ (Len(p) = 1 \/ p[1] # p[2]) =>
       \E f \in FileAt(p) : ibm' = ibm \ {At(f[2], f[1]).ino}]_vars

(* Both: a call changes or removes the file its path or descriptor means.  *)
CallsHitTheirFile == WritesItsOwn /\ RemovesWhatOpens
===============================================================================

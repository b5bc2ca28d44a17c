-------------------------------- MODULE TinyFS --------------------------------
(***************************************************************************)
(* The names of FSinside (net/op_create.c, op_mkdir.c, op_unlink.c,        *)
(* op_rmdir.c, op_open.c, ops.c and the second half of fs.c): inodes,      *)
(* directory blocks and both bitmaps, one action per FUSE handler.         *)
(*                                                                         *)
(* Handlers run one at a time, the cache is a store of blocks (BufCache    *)
(* refines BlockStore), the allocator is first fit (SerialAllocation), and *)
(* of a file only its blocks matter.  The kernel resolves a path with      *)
(* getattr before it sends a call: it sends create and mkdir for names     *)
(* that are not there, unlink for files and rmdir for directories.  Four   *)
(* constants say what programs do, as not all of it works.                 *)
(*                                                                         *)
(* create, mkdir, unlink, write and truncate report what they did to the   *)
(* monitor before they return.  heard says of a call whether the monitor's *)
(* queue was there and took all its reports; if not, the handler ends with *)
(* a return that has no value.                                             *)
(***************************************************************************)
EXTENDS Paths, FiniteSets

CONSTANTS Ino, Blk,    \* inode numbers, 0 among them, and data block numbers
          Name,        \* names that programs use
          MaxDepth,    \* the length of the longest path they use
          MaxOpen,     \* the number of files they have open at a time
          NDirent,     \* NUM_OF_DIRENT_IN_1BLK
          NDirect,     \* TINY_N_DIRECT_BLOCKS
          Nested,      \* TRUE if programs make directories in directories
          Crowds,      \* TRUE if they fill directories up to the last block
          Stale,       \* TRUE if blocks come back with what looks like entries
          Strays       \* TRUE if they write to files whose create lost its value

ASSUME InoAssumption  == Ino \subseteq Nat /\ 0 \in Ino
ASSUME BlkAssumption  == Blk \subseteq Nat /\ Blk # {}
ASSUME NameAssumption == Name \cap {"", ".", "..", "junk"} = {}
ASSUME SizeAssumption == NDirent \in Nat /\ NDirent > 1 /\ {NDirect, MaxDepth} \subseteq Nat \ {0}
ASSUME CallAssumption == {Nested, Crowds, Stale, Strays} \subseteq BOOLEAN

Root == 0
Path == UNION {[1 .. n -> Name] : n \in 1 .. MaxDepth}

VARIABLES inode,   \* inode[i]: i_type and i_block of the inode, as last written
          data,    \* data[b]: the entries of block b, if it is read as one
          ifree, bfree,  \* the bits of the two bitmaps that are set
          opened,  \* the inode numbers in fi->fh of open files
          stray,   \* what is in fi->fh after creates that lost their value
          reply,   \* the last call on a name, its path, whether it answers that it
                   \* was done, and whether that answer was lost
          wild     \* TRUE once block number -1 is used for a directory

vars == <<inode, data, ifree, bfree, opened, stray, reply, wild>>

Reply(call, p, ok) == [call |-> call, path |-> p, ok |-> ok, lost |-> FALSE]
Lost(call, p)      == [call |-> call, path |-> p, ok |-> FALSE, lost |-> TRUE]

Dirent(n, i, t) == [name |-> n, ino |-> i, type |-> t]
Null    == Dirent("", 0, "file")
Empty   == [k \in 1 .. NDirent |-> Null]
Garbage == [k \in 1 .. NDirent |-> Dirent("junk", 0, "file")]

(* Faulty: a new directory is its own parent.                              *)
DotsOfRoot(entries, i, up) ==
  [entries EXCEPT ![1] = Dirent(".", i, "dir"), ![2] = Dirent("..", i, "dir")]

(* The first entries of a directory, "." and "..".                         *)
Dots(entries, i, up) ==
  [entries EXCEPT ![1] = Dirent(".", i, "dir"), ![2] = Dirent("..", up, "dir")]

Inode(t, blks) == [type |-> t, blk |-> blks]

TypeOK ==
  /\ \A i \in Ino : /\ inode[i].type \in {"file", "dir"}
                    /\ inode[i].blk \in Seq(Blk) /\ Len(inode[i].blk) <= NDirect
  /\ \A b \in Blk : /\ Len(data[b]) = NDirent
                    /\ \A k \in 1 .. NDirent :
                         /\ data[b][k].name \in Name \cup {"", ".", "..", "junk"}
                         /\ data[b][k].ino \in Ino
  /\ ifree \subseteq Ino /\ bfree \subseteq Blk
  /\ opened \subseteq Ino /\ stray \subseteq Ino
  /\ wild \in BOOLEAN

FirstFree(f) == CHOOSE x \in f : \A y \in f : x <= y

(* tiny_init has formatted the disk.                                       *)
Init ==
  LET b == FirstFree(Blk)
  IN  /\ inode = [i \in Ino |-> IF i = Root THEN Inode("dir", <<b>>)
                                            ELSE Inode("file", << >>)]
      /\ data  = [c \in Blk |-> IF c = b THEN Dots(Empty, Root, Root) ELSE Empty]
      /\ ifree = Ino \ {Root} /\ bfree = Blk \ {b}
      /\ opened = {} /\ stray = {} /\ wild = FALSE
      /\ reply = Reply("none", << >>, TRUE)

-----------------------------------------------------------------------------
(* The entries of a directory, block after block: entry k is in block      *)
(* InBlock(k), at AtIndex(k).                                              *)
InBlock(k) == ((k - 1) \div NDirent) + 1
AtIndex(k) == ((k - 1) % NDirent) + 1

EntryAt(d, k) == data[inode[d].blk[InBlock(k)]][AtIndex(k)]
Entries(d)    == [k \in 1 .. NDirent * Len(inode[d].blk) |-> EntryAt(d, k)]

(* The place of the first entry with name n, or 0.                         *)
Find(d, n) ==
  LET hits == {k \in 1 .. NDirent * Len(inode[d].blk) : EntryAt(d, k).name = n}
  IN  IF hits = {} THEN 0 ELSE Min(hits)

(* Entry k of directory d is replaced.                                     *)
WithEntry(d, k, e) == [data EXCEPT ![inode[d].blk[InBlock(k)]][AtIndex(k)] = e]

Has(d, n) == Find(d, n) # 0
Get(d, n) == EntryAt(d, Find(d, n))

(* The walk down a path: the directory it ends in and the one before it,   *)
(* both the root at the start.                                             *)
Step(w, n) ==
  IF ~w.ok \/ ~Has(w.dir, n) THEN [w EXCEPT !.ok = FALSE]
  ELSE LET e == Get(w.dir, n)
       IN  IF e.type = "file" THEN [w EXCEPT !.ok = FALSE]
           ELSE [ok |-> TRUE, dir |-> e.ino, up |-> w.dir]

Walk(p) ==
  LET w[k \in 0 .. Len(p)] == IF k = 0 THEN [ok |-> TRUE, dir |-> Root, up |-> Root]
                                       ELSE Step(w[k - 1], p[k])
  IN  w[Len(p)]

DirOf(p) == Walk(Front(p)).dir

Resolves(p) == Walk(Front(p)).ok /\ Has(DirOf(p), Last(p))
Target(p)   == Get(DirOf(p), Last(p))
IsNew(p)    == Walk(Front(p)).ok /\ ~Has(DirOf(p), Last(p))

(* A directory that has no room left, nor room for one more block.         *)
Full(d) == ~Has(d, "") /\ Len(inode[d].blk) = NDirect

-----------------------------------------------------------------------------
(* A call on a name is refused: nothing but the reply changes.             *)
Refuse(call, p) ==
  /\ reply' = Reply(call, p, FALSE)
  /\ UNCHANGED <<inode, data, ifree, bfree, opened, stray, wild>>

(* The answer of a handler that reports to the monitor.  Without a value,  *)
(* what it did stays done, and its caller takes what was left in a         *)
(* register for an answer: it says nothing, and neither does ok.           *)
Tells(call, p, ok, heard) == reply' = IF heard THEN Reply(call, p, ok) ELSE Lost(call, p)

(* A directory is to get block -1: what is read and written then is not    *)
(* known any more, and the model stops.                                    *)
GoWild == wild' = TRUE /\ UNCHANGED <<inode, data, ifree, bfree, opened, stray, reply>>

(* A directory without room gets one more block, which is not cleared.     *)
Grown(d, b) == [inode EXCEPT ![d].blk = Append(@, b)]

(* Without a value from __create_file, tiny_create takes what is left in   *)
(* the register (the positive result of printf, in an ordinary build) for  *)
(* the number of the inode, or fails.  A handle that is not written to     *)
(* does nothing, and is left out.                                          *)
Astray(p) ==
  /\ \/ Strays /\ \E i \in Ino \ {Root} : stray' = stray \cup {i}
     \/ UNCHANGED stray
  /\ reply' = Lost("create", p) /\ UNCHANGED opened

(* What the program gets as its handle of the file with inode t.           *)
Handle(t, p, heard) ==
  \/ /\ heard
     /\ opened' = opened \cup {t} /\ reply' = Reply("create", p, TRUE)
     /\ UNCHANGED stray
  \/ ~heard /\ Astray(p)

(* __create_file in directory d; a directory with no room left keeps its   *)
(* entries, the inode is given back, and its number returned all the same. *)
CreateFile(d, p, heard) ==
  LET n == Last(p)
      t == FirstFree(ifree)
      b == FirstFree(bfree)
      e == Dirent(n, t, "file")
  IN  \/ /\ Has(d, "")
         /\ data'  = WithEntry(d, Find(d, ""), e)
         /\ inode' = [inode EXCEPT ![t] = Inode("file", << >>)]
         /\ ifree' = ifree \ {t}
         /\ Handle(t, p, heard)
         /\ UNCHANGED <<bfree, wild>>
      \/ /\ ~Has(d, "") /\ ~Full(d) /\ bfree # {}
         /\ inode' = [Grown(d, b) EXCEPT ![t] = Inode("file", << >>)]
         /\ data'  = [data EXCEPT ![b][1] = e]
         /\ ifree' = ifree \ {t} /\ bfree' = bfree \ {b}
         /\ Handle(t, p, heard)
         /\ UNCHANGED wild
      \/ /\ ~Has(d, "") /\ ~Full(d) /\ bfree = {}
         /\ GoWild
      \/ /\ Full(d)
         /\ inode' = [inode EXCEPT ![t] = Inode("file", << >>)]
         /\ Handle(t, p, heard)
         /\ UNCHANGED <<data, ifree, bfree, wild>>

(* If there is no inode, __create_file makes its reports all the same.     *)
NoInode(p, heard) ==
  \/ heard /\ Refuse("create", p)
  \/ ~heard /\ Astray(p) /\ UNCHANGED <<inode, data, ifree, bfree, wild>>

Create(p, heard) ==
  /\ ~wild /\ IsNew(p) /\ Cardinality(opened) + Cardinality(stray) < MaxOpen
  /\ Crowds \/ ~Full(DirOf(p))
  /\ IF ifree = {} THEN NoInode(p, heard) ELSE CreateFile(DirOf(p), p, heard)

-----------------------------------------------------------------------------
(* Faulty: the new directory is written before its block is marked used.   *)
MakeDirentryKept(d, p, heard) ==
  LET t == FirstFree(ifree)
      b == FirstFree(bfree)
  IN  /\ Has(d, "") /\ ifree # {} /\ bfree # {}
      /\ data'  = [WithEntry(d, Find(d, ""), Dirent(Last(p), t, "dir"))
                     EXCEPT ![b] = Dots(data[b], t, d)]
      /\ inode' = [inode EXCEPT ![t] = Inode("dir", <<b>>)]
      /\ ifree' = ifree \ {t} /\ Tells("mkdir", p, TRUE, heard)
      /\ UNCHANGED <<bfree, opened, stray, wild>>

(* MakeDirentry in directory d.  A block found for the new directory keeps *)
(* what was in its other entries, unless d needed a block as well.  A      *)
(* directory with no room left is answered as success.  Nothing is         *)
(* reported of a directory that was not made.                              *)
MakeDirentry(d, p, heard) ==
  LET t == FirstFree(ifree)
      b == FirstFree(bfree)
      c == FirstFree(bfree \ {b})
      e == Dirent(Last(p), t, "dir")
  IN  \/ /\ Full(d)
         /\ reply' = Reply("mkdir", p, TRUE)
         /\ UNCHANGED <<inode, data, ifree, bfree, opened, stray, wild>>
      \/ /\ Has(d, "") /\ ifree = {}
         /\ Refuse("mkdir", p)
      \/ /\ Has(d, "") /\ ifree # {} /\ bfree # {}
         /\ data'  = [WithEntry(d, Find(d, ""), e) EXCEPT ![b] = Dots(data[b], t, d)]
         /\ inode' = [inode EXCEPT ![t] = Inode("dir", <<b>>)]
         /\ ifree' = ifree \ {t} /\ bfree' = bfree \ {b}
         /\ Tells("mkdir", p, TRUE, heard)
         /\ UNCHANGED <<opened, stray, wild>>
      \/ /\ ~Has(d, "") /\ ~Full(d) /\ bfree # {} /\ ifree = {}
         /\ inode' = Grown(d, b) /\ bfree' = bfree \ {b}
         /\ reply' = Reply("mkdir", p, FALSE)
         /\ UNCHANGED <<data, ifree, opened, stray, wild>>
      \/ /\ ~Has(d, "") /\ ~Full(d) /\ ifree # {} /\ Cardinality(bfree) > 1
         /\ data'  = [data EXCEPT ![b][1] = e, ![c] = Dots(Empty, t, d)]
         /\ inode' = [Grown(d, b) EXCEPT ![t] = Inode("dir", <<c>>)]
         /\ ifree' = ifree \ {t} /\ bfree' = bfree \ {b, c}
         /\ Tells("mkdir", p, TRUE, heard)
         /\ UNCHANGED <<opened, stray, wild>>
      \/ /\ ~Full(d) /\ (Has(d, "") => ifree # {})
         /\ Cardinality(bfree) < IF Has(d, "") \/ ifree = {} THEN 1 ELSE 2
         /\ GoWild

(* tiny_mkdir hands on the directory before the one the name belongs to.   *)
Mkdir(p, heard) ==
  /\ ~wild /\ IsNew(p)
  /\ Nested \/ Len(p) = 1
  /\ Crowds \/ ~Full(Walk(Front(p)).up)
  /\ MakeDirentry(Walk(Front(p)).up, p, heard)

-----------------------------------------------------------------------------
Blocks(i) == Range(inode[i].blk)

(* Entries with name n in block b of a directory are cleared.  The inode   *)
(* number and the type of an entry without a name are never looked at.     *)
Cleared(b, n) ==
  [k \in 1 .. NDirent |-> IF data[b][k].name = n THEN Null ELSE data[b][k]]

(* Faulty: the first block is given up, whichever is empty.                *)
WithoutFirst(blks, i) == Tail(blks)

(* i_block[i] = i_block[--i_nblk]                                          *)
Without(blks, i) == Front([blks EXCEPT ![i] = Last(blks)])

(* __find_dentry_and_remove, and what tiny_unlink does with the inode it   *)
(* finds, that of the last entry of that name in the block.  A block that  *)
(* is empty then is given back; its buffer is not marked dirty, and the    *)
(* block keeps its entry if the buffer is reused first.                    *)
Unlink(p, heard) ==
  LET d == DirOf(p)
      n == Last(p)
      k == InBlock(Find(d, n))
      b == inode[d].blk[k]
      t == data[b][SelectLastInSeq(data[b], LAMBDA e : e.name = n)].ino
  IN  /\ ~wild /\ Resolves(p) /\ Target(p).type = "file" /\ Target(p).ino \notin opened
      /\ ifree' = ifree \cup {t}
      /\ IF \A j \in 1 .. NDirent : Cleared(b, n)[j].name = ""
           THEN /\ bfree' = bfree \cup {b} \cup Blocks(t)
                /\ inode' = [inode EXCEPT ![d].blk = Without(@, k)]
                /\ \/ data' = [data EXCEPT ![b] = Cleared(b, n)]
                   \/ Stale /\ data' = data
           ELSE /\ bfree' = bfree \cup Blocks(t)
                /\ data' = [data EXCEPT ![b] = Cleared(b, n)]
                /\ UNCHANGED inode
      /\ Tells("unlink", p, TRUE, heard)
      /\ UNCHANGED <<opened, stray, wild>>

(* Faulty: only the first block of the directory is looked at.             *)
FirstBlockIsEmpty(i) ==
  /\ inode[i].type = "dir"
  /\ \A k \in 1 .. NDirent : data[inode[i].blk[1]][k].name \in {"", ".", ".."}

DirIsEmpty(i) ==
  /\ inode[i].type = "dir"
  /\ \A k \in 1 .. NDirent : data[inode[i].blk[1]][k].name \in {"", ".", ".."}
  /\ \A j \in 2 .. Len(inode[i].blk), k \in 1 .. NDirent :
       data[inode[i].blk[j]][k].name = ""

(* RemoveDirentry in directory d: the first directory of that name that is *)
(* empty.                                                                  *)
RemoveDirentry(d, p) ==
  LET k == SelectInSeq(Entries(d), LAMBDA e : /\ e.name = Last(p) /\ e.type = "dir"
                                             /\ DirIsEmpty(e.ino))
      t == Entries(d)[k].ino
  IN  IF k = 0 THEN Refuse("rmdir", p)
      ELSE /\ data'  = [b \in Blk |-> IF b \in Blocks(t) THEN Empty
                                     ELSE WithEntry(d, k, Null)[b]]
           /\ bfree' = bfree \cup Blocks(t)
           /\ inode' = [inode EXCEPT ![t] = Inode("file", << >>)]
           /\ ifree' = ifree \cup {t}
           /\ reply' = Reply("rmdir", p, TRUE)
           /\ UNCHANGED <<opened, stray, wild>>

Rmdir(p) ==
  /\ ~wild /\ Resolves(p) /\ Target(p).type = "dir"
  /\ RemoveDirentry(Walk(Front(p)).up, p)

-----------------------------------------------------------------------------
(* The other calls, as far as they touch inodes and blocks.  open and      *)
(* release report nothing.                                                 *)
Others(ok, heard) == Tells("other", << >>, ok, heard)

Open(p) ==
  /\ ~wild /\ Resolves(p) /\ Target(p).type = "file"
  /\ Cardinality(opened) + Cardinality(stray) < MaxOpen
  /\ opened' = opened \cup {Target(p).ino}
  /\ Others(TRUE, TRUE)
  /\ UNCHANGED <<inode, data, ifree, bfree, stray, wild>>

Release(i) ==
  /\ ~wild
  /\ \/ i \in opened /\ opened' = opened \ {i} /\ UNCHANGED stray
     \/ i \in stray  /\ stray' = stray \ {i} /\ UNCHANGED opened
  /\ Others(TRUE, TRUE)
  /\ UNCHANGED <<inode, data, ifree, bfree, wild>>

(* What programs write, if it is read as entries.                          *)
Payload == IF Stale THEN Garbage ELSE Empty

(* tiny_write of a block behind the last one, of whatever inode has the    *)
(* number in fi->fh.                                                       *)
Grow(i, heard) ==
  LET b == FirstFree(bfree)
  IN  /\ ~wild /\ i \in opened \cup stray /\ Len(inode[i].blk) < NDirect
      /\ IF bfree = {}
           THEN Others(FALSE, heard) /\ UNCHANGED <<inode, data, bfree>>
           ELSE /\ inode' = [inode EXCEPT ![i].blk = Append(@, b)]
                /\ data'  = [data EXCEPT ![b] = Payload]
                /\ bfree' = bfree \ {b}
                /\ Others(TRUE, heard)
      /\ UNCHANGED <<ifree, opened, stray, wild>>

(* tiny_write of a block that the inode has, or had when it was given      *)
(* back.  Of the inode of an open file that concerns nobody else.          *)
WriteOver(i, heard) ==
  /\ ~wild /\ i \in stray
  /\ \E b \in Blocks(i) : data' = [data EXCEPT ![b] = Payload]
  /\ Others(TRUE, heard)
  /\ UNCHANGED <<inode, ifree, bfree, opened, stray, wild>>

(* tiny_truncate to length 0, which leaves one block.                      *)
Truncate(p, heard) ==
  LET i == Target(p).ino
  IN  /\ ~wild /\ Resolves(p) /\ Target(p).type = "file" /\ Len(inode[i].blk) > 1
      /\ inode' = [inode EXCEPT ![i].blk = SubSeq(@, 1, 1)]
      /\ bfree' = bfree \cup Range(Tail(inode[i].blk))
      /\ Others(TRUE, heard)
      /\ UNCHANGED <<data, ifree, opened, stray, wild>>

(* After block -1 has been used nothing more is said.                      *)
Stopped == wild /\ UNCHANGED vars

Next ==
  \/ \E p \in Path, heard \in BOOLEAN : \/ Create(p, heard) \/ Mkdir(p, heard)
                                       \/ Unlink(p, heard) \/ Truncate(p, heard)
  \/ \E p \in Path : Rmdir(p) \/ Open(p)
  \/ \E i \in Ino, heard \in BOOLEAN : Grow(i, heard) \/ WriteOver(i, heard)
  \/ \E i \in Ino : Release(i)
  \/ Stopped

Spec == Init /\ [][Next]_vars

-----------------------------------------------------------------------------
Dirs  == {i \in Ino \ ifree : inode[i].type = "dir"}
Named(d) == {k \in 1 .. Len(Entries(d)) : Entries(d)[k].name \notin {"", ".", ".."}}
Links == {<<d, k>> : d \in Dirs, k \in 1 .. NDirent * NDirect}
           \cap UNION {{d} \X Named(d) : d \in Dirs}

(* Every block is free or belongs to one inode in use, in one place.       *)
BlocksOwned ==
  ~wild =>
    /\ bfree \cup UNION {Blocks(i) : i \in Ino \ ifree} = Blk
    /\ \A i \in Ino \ ifree : /\ Blocks(i) \cap bfree = {}
                             /\ \A j, k \in 1 .. Len(inode[i].blk) :
                                  inode[i].blk[j] = inode[i].blk[k] => j = k
    /\ \A i, j \in Ino \ ifree : i # j => Blocks(i) \cap Blocks(j) = {}

(* Every inode in use but the root has one name, in one directory, and a   *)
(* name there has an inode in use, of the type that the entry says.        *)
NamedOnce ==
  ~wild =>
    /\ \A l \in Links : LET e == Entries(l[1])[l[2]]
                         IN  e.ino \notin ifree /\ inode[e.ino].type = e.type
    /\ \A i \in Ino \ (ifree \cup {Root}) :
         \E l \in Links : /\ Entries(l[1])[l[2]].ino = i
                         /\ \A m \in Links : Entries(m[1])[m[2]].ino = i => m = l

(* A directory begins with entries for itself and for the directory that   *)
(* holds it.                                                               *)
DotsRight ==
  ~wild =>
    \A d \in Dirs, e \in Dirs \ {Root} :
      (\E k \in Named(d) : Entries(d)[k].ino = e) =>
        Entries(e)[1] = Dirent(".", e, "dir") /\ Entries(e)[2] = Dirent("..", d, "dir")

(* What a walk down path p finds there (tiny_getattr).                     *)
KindAt(p) ==
  LET w == Walk(Front(p))
  IN  IF w.ok /\ Has(w.dir, Last(p)) THEN Get(w.dir, Last(p)).type ELSE "none"

(* Programs that make directories in the root only, and do not fill them   *)
(* to the last block, see a tree of names; a call changes it in full or    *)
(* not at all, whether its answer is lost or not, and one that answers     *)
(* that it failed, with an answer that is not lost, changes nothing.       *)
Abstract == INSTANCE FileTree WITH kind <- [p \in Path |-> KindAt(p)]
ImplementsFileTree == Abstract!Spec

(* tiny_readdir of the directory at p, the root if p is empty: the entries *)
(* it lists.                                                               *)
Listed(p) ==
  IF Walk(p).ok THEN {k \in DOMAIN Entries(Walk(p).dir) : EntryAt(Walk(p).dir, k).name # ""}
  ELSE {}

(* A directory lists none of these names twice, and every name it lists    *)
(* can be looked up.                                                       *)
ListsOnce(names) ==
  ~wild => \A p \in {<< >>} \cup {q \in Path : Len(q) < MaxDepth} :
             LET name(k) == EntryAt(Walk(p).dir, k).name IN
             /\ \A j, k \in Listed(p) : name(j) = name(k) /\ name(j) \in names => j = k
             /\ \A k \in Listed(p) :
                  name(k) \in {".", ".."} \/ KindAt(Append(p, name(k))) # "none"

ListedOnce == ListsOnce(Name \cup {".", ".."})

(* All directories are in the root, whatever programs try.                 *)
DirsInRoot ==
  \A d \in Dirs \ {Root} : \A k \in Named(d) : Entries(d)[k].type # "dir"

(* Whatever becomes of other names, the root can be read: its inode and    *)
(* its first block are never given away.                                   *)
RootStays ==
  /\ Root \notin ifree /\ inode[Root].type = "dir"
  /\ inode[Root].blk[1] \notin bfree
  /\ \A i \in Ino \ {Root} : inode[Root].blk[1] \notin Blocks(i)
  /\ Entries(Root)[1] = Dirent(".", Root, "dir")

(* A directory that was made can be found under its name.                  *)
MkdirMakesIt ==
  ~wild /\ reply.call = "mkdir" /\ reply.ok /\ ~reply.lost => Resolves(reply.path)
===============================================================================

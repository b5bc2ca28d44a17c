------------------------------- MODULE EarlierFS -------------------------------
(***************************************************************************)
(* The earlier FUSE version (fs/fuse/), where it differs from net/: mkdir  *)
(* and rmdir walk to the directory a path names, truncate keeps no block   *)
(* too many, and there is a rename.  The other handlers are those of       *)
(* TinyFS.  rename changes entries in buffers that it does not mark dirty; *)
(* the blocks that programs use fit into the cache here.  There is no      *)
(* monitor, and no answer is lost.                                         *)
(*                                                                         *)
(* The kernel sends no rename of a name to itself, of a directory into     *)
(* itself, or of a file over a directory or the reverse.                   *)
(***************************************************************************)
EXTENDS TinyFS

CONSTANT Careless   \* TRUE if programs rename where it is known not to work

-----------------------------------------------------------------------------
EarlierMkdir(p) ==
  LET d == DirOf(p)
  IN  /\ ~wild /\ IsNew(p)
      /\ Crowds \/ ~Full(d)
      /\ IF Full(d) THEN Refuse("mkdir", p) ELSE MakeDirentry(d, p, TRUE)

(* The first directory of that name has to be empty.                       *)
EarlierRmdir(p) ==
  LET d == DirOf(p)
      k == SelectInSeq(Entries(d), LAMBDA e : /\ e.name = Last(p) /\ e.type = "dir"
                                             /\ inode[e.ino].type = "dir")
  IN  /\ ~wild /\ Resolves(p) /\ Target(p).type = "dir"
      /\ IF k # 0 /\ ~DirIsEmpty(EntryAt(d, k).ino) THEN Refuse("rmdir", p)
                                                   ELSE RemoveDirentry(d, p)

(* To length 0, which leaves no block.                                     *)
EarlierTruncate(p) ==
  LET i == Target(p).ino
  IN  /\ ~wild /\ Resolves(p) /\ Target(p).type = "file" /\ inode[i].blk # << >>
      /\ inode' = [inode EXCEPT ![i].blk = << >>]
      /\ bfree' = bfree \cup Blocks(i)
      /\ Others(TRUE, TRUE)
      /\ UNCHANGED <<data, ifree, opened, stray, wild>>

-----------------------------------------------------------------------------
(* What rename may go wrong with: a directory that is replaced is not      *)
(* looked into; of two entries with the new name in the old directory the  *)
(* first is removed, and an entry is added without a look at the name it   *)
(* has there.                                                              *)
Safe(p, q) ==
  IF Resolves(q)
    THEN /\ Target(q).type = "dir" => DirIsEmpty(Target(q).ino)
         /\ DirOf(p) = DirOf(q) \/ ~Has(DirOf(p), Last(q))
    ELSE DirOf(p) = DirOf(q) \/ ~Has(DirOf(q), Last(p))

KernelSends(p, q) ==
  /\ Resolves(p) /\ Walk(Front(q)).ok
  /\ ~IsPrefix(p, q) /\ ~IsPrefix(q, p)
  /\ Resolves(q) => /\ Target(q).type = Target(p).type /\ Target(q).ino # Target(p).ino
                    /\ Target(q).ino \notin opened

(* Where _remove_dentry finds name n in directory d as it was read before. *)
FirstPlace(dat, d, n) ==
  SelectInSeq([k \in 1 .. NDirent * Len(inode[d].blk) |->
                 dat[inode[d].blk[InBlock(k)]][AtIndex(k)]], LAMBDA e : e.name = n)

(* Faulty: the entry is left where it was.                                 *)
RemoveNothing(dat, ind, free, d, n) ==
  data' = dat /\ inode' = ind /\ bfree' = free

(* _remove_dentry, after the steps before it have made the blocks dat, the *)
(* inodes ind and the bitmap free: the block is given back if it is empty, *)
(* and the inode written as it was read at first.                          *)
RemoveDentry(dat, ind, free, d, n) ==
  LET k == FirstPlace(dat, d, n)
      b == inode[d].blk[InBlock(k)]
      left == [dat EXCEPT ![b][AtIndex(k)] = Null]
      empty == \A j \in 1 .. NDirent : left[b][j].name = ""
  IN  /\ data'  = left
      /\ inode' = IF empty THEN [ind EXCEPT ![d].blk = Without(inode[d].blk, InBlock(k))]
                           ELSE ind
      /\ bfree' = IF empty THEN free \cup {b} ELSE free

GiveInode(i) == ifree' = ifree \cup {i}

(* _overwrite_dentry: what has the new name is freed, and the entry of the *)
(* old one gets the new name where it is, and is copied.                   *)
Overwrite(p, q) ==
  LET e == Target(p)
      d == DirOf(p)
      k == Find(d, Last(p))
      renamed == WithEntry(d, k, [e EXCEPT !.name = Last(q)])
      l == Find(DirOf(q), Last(q))
      copied == [renamed EXCEPT ![inode[DirOf(q)].blk[InBlock(l)]][AtIndex(l)] =
                   [e EXCEPT !.name = Last(q)]]
  IN  /\ Resolves(q)
      /\ RemoveDentry(copied, inode, bfree \cup Blocks(Target(q).ino), d, Last(q))
      /\ GiveInode(Target(q).ino)
      /\ reply' = Reply("rename", q, TRUE)
      /\ UNCHANGED <<opened, stray, wild>>

(* _add_dentry: the entry is copied as it is, with its old name, to the    *)
(* first place without a name, or to one block more.                       *)
Add(p, q) ==
  LET e == Target(p)
      d == DirOf(q)
      b == FirstFree(bfree)
  IN  /\ ~Resolves(q)
      /\ \/ /\ Has(d, "")
            /\ RemoveDentry(WithEntry(d, Find(d, ""), e), inode, bfree, DirOf(p), Last(p))
            /\ reply' = Reply("rename", q, TRUE)
            /\ UNCHANGED <<ifree, opened, stray, wild>>
         \/ /\ ~Has(d, "") /\ ~Full(d) /\ bfree # {}
            /\ RemoveDentry([data EXCEPT ![b][1] = e], Grown(d, b), bfree \ {b},
                            DirOf(p), Last(p))
            /\ reply' = Reply("rename", q, TRUE)
            /\ UNCHANGED <<ifree, opened, stray, wild>>
         \/ /\ ~Has(d, "") /\ (Full(d) \/ bfree = {})
            /\ Refuse("rename", q)

Rename(p, q) ==
  /\ ~wild /\ KernelSends(p, q)
  /\ Careless \/ Safe(p, q)
  /\ Overwrite(p, q) \/ Add(p, q)

EarlierNext ==
  \/ \E p \in Path : \/ Create(p, TRUE) \/ EarlierMkdir(p) \/ Unlink(p, TRUE)
                     \/ EarlierRmdir(p) \/ Open(p) \/ EarlierTruncate(p)
                     \/ \E q \in Path : Rename(p, q)
  \/ \E i \in Ino : Release(i) \/ Grow(i, TRUE)
  \/ Stopped

EarlierSpec == Init /\ [][EarlierNext]_vars

-----------------------------------------------------------------------------
(* A directory that was renamed over leaves its ".." in the block it gives  *)
(* back, and one that takes the block lists it: every other name is listed *)
(* once.                                                                   *)
EarlierListedOnce == ListsOnce(Name)

(* A rename over a name puts the file or directory there.  A rename to a   *)
(* new name puts it into the directory of the new name under the name it   *)
(* had.  Either way it is gone from where it was.                          *)
RenameMoves ==
  reply'.call = "rename" /\ reply'.ok =>
    \A p, q \in Path : q = reply'.path /\ Rename(p, q) =>
      \E r \in Path :
        /\ r = (IF Resolves(q) THEN q ELSE Append(Front(q), Last(p)))
        /\ Resolves(r)' /\ Target(r)'.ino = Target(p).ino
        /\ r = p \/ ~Resolves(p)'
===============================================================================

-------------------------------- MODULE Mount --------------------------------
(***************************************************************************)
(* The life of a disk image over many mounts (net/op_init.c, op_destroy.c  *)
(* and the Dev functions of disk.c): formatting, loading and saving the    *)
(* super block and the bitmaps, and processes that die in between.         *)
(*                                                                         *)
(* Inodes and directory entries go to the image through the cache, block   *)
(* by block; the bitmaps and counters stay in memory until tiny_destroy.   *)
(* The cache is BlockStore with one thing more, which the order of the     *)
(* lists in BufCache gives: blocks become durable in the order of their    *)
(* last use.  All files are in the root, whose entries fit in one block.   *)
(***************************************************************************)
EXTENDS FiniteSetsExt, Sequences, Integers

CONSTANTS Name,    \* the names programs use
          NIno,    \* FS_INODE_COUNT; inode 0 is the root
          NBlk,    \* s_ndatablk, data blocks on the disk
          NBit,    \* bits in the block bitmap, which has room for more
          MaxBlk,  \* the blocks programs write to a file
          MaxCall  \* the calls they make, over all sessions

ASSUME SizeAssumption == /\ {NIno, NBlk, NBit, MaxBlk} \subseteq Nat \ {0}
                         /\ NBlk <= NBit
ASSUME CallAssumption == MaxCall \in Nat
ASSUME NameAssumption == "." \notin Name

None == -1

(* Block numbers: one block each for both bitmaps and for the inodes.      *)
Super == 0
Ibitmap == 1
Dbitmap == 2
InodeBlk == 3
Start == 4             \* s_datablk_start, the block of the root directory
Blk == Start .. Start + NBlk - 1
Bit == Start .. Start + NBit - 1
Block == Super .. Start + NBlk - 1
Ino == 0 .. NIno - 1

VARIABLES phase,    \* "down", "up", and the stages of tiny_destroy
          super,    \* tiny_superblk: s_nblk, s_disk_fd and the free counters
          ifree, bfree,  \* the bits set in s_ibitmap_ptr and s_dbitmap_ptr
          content,  \* content[n]: what the process reads from block n
          durable,  \* durable[n]: what the image holds of block n
          dirty,    \* the blocks whose buffers are dirty
          exists,   \* the image file is there
          fds,      \* the open descriptors: of the image, and of other files
          calls,    \* how many calls programs have made
          wild,     \* a block or inode number that is none has been used
          \* history
          saved,    \* what the last tiny_destroy that came to its end saved
          clean,    \* nothing was done since then
          touched,  \* inodes changed since then, or sharing a block with one
          cut       \* the process has died inside tiny_destroy

history == <<saved, clean, touched, cut>>
vars == <<phase, super, ifree, bfree, content, durable, dirty, exists, fds, calls, wild, history>>

Unset == [nblk |-> 0, fd |-> 0, nbfree |-> 0, nifree |-> 0]

(* A disk of zeroes: in a bitmap, a zero is a bit in use.                  *)
Zeroes == [n \in Block |->
             CASE n = Super -> Unset
               [] n \in {Ibitmap, Dbitmap} -> {}
               [] n = InodeBlk -> [i \in Ino |-> << >>]
               [] n = Start -> [m \in Name \cup {"."} |-> None]
               [] OTHER -> None]

View == [super |-> super, ifree |-> ifree, bfree |-> bfree, content |-> content]

(* Descriptors 0 to 2 and that of /dev/fuse are open when tiny_init runs.  *)
AtStart == [image |-> {}, other |-> 0 .. 3]

Init ==
  /\ phase = "down" /\ super = Unset /\ ifree = {} /\ bfree = {}
  /\ exists \in BOOLEAN /\ durable = Zeroes /\ content = Zeroes /\ dirty = {}
  /\ fds = AtStart /\ calls = 0 /\ wild = FALSE
  /\ saved = << >> /\ clean = FALSE /\ touched = {} /\ cut = FALSE

-----------------------------------------------------------------------------
(* open() takes the lowest descriptor that is not in use.                  *)
Opened(f) == LET k == CHOOSE x \in 0 .. 9 : /\ x \notin f.image \cup f.other
                                            /\ \A y \in 0 .. x - 1 : y \in f.image \cup f.other
             IN  [f EXCEPT !.image = @ \cup {k}]
DescriptorOf(f) == Max(Opened(f).image \ f.image)
Closed(f, k) == [image |-> f.image \ {k}, other |-> f.other \ {k}]

(* DevLoad, the first look at block 0, and DevRelease.  The copy of block  *)
(* 0 brings its own s_disk_fd with it, and that is what is closed.         *)
Probed(b0) == Closed(IF exists THEN Opened(fds) ELSE fds, b0.fd)

(* Faulty: the image is not opened again.                                  *)
LoadedOnce(b0) == Probed(b0)

(* The second DevLoad.                                                     *)
Loaded(b0) == Opened(Probed(b0))

(* Faulty: the block of the root is not counted.                           *)
FreshRootUncounted(k) == [nblk |-> 1, fd |-> k, nbfree |-> NBlk, nifree |-> NIno - 1]

(* The super block after the root has taken an inode and a block.          *)
Fresh(k) == [nblk |-> 1, fd |-> k, nbfree |-> NBlk - 1, nifree |-> NIno - 1]

(* The root: inode 0 in the first block, whose first entry is ".".         *)
Format ==
  /\ phase = "down" /\ durable[Super].nblk = 0
  /\ LET f == Probed(durable[Super])
     IN  /\ fds' = Opened(f)
         /\ super' = Fresh(DescriptorOf(f))
  /\ exists' = TRUE /\ durable' = Zeroes
  /\ ifree' = Ino \ {0} /\ bfree' = Bit \ {Start}
  /\ content' = [Zeroes EXCEPT ![InodeBlk][0] = <<Start>>, ![Start]["."] = 0]
  /\ dirty' = {InodeBlk, Start}
  /\ phase' = "up"
  /\ UNCHANGED <<calls, wild, history>>

(* Faulty: the bitmaps stay as they are set up before they are read.       *)
LoadedNothing == ifree' = {} /\ bfree' = {}

(* Faulty: they are set up as for a new disk.                              *)
LoadedAsNew == ifree' = Ino \ {0} /\ bfree' = Bit \ {Start}

LoadBitmaps == ifree' = durable[Ibitmap] /\ bfree' = durable[Dbitmap]

Load ==
  /\ phase = "down" /\ durable[Super].nblk > 0
  /\ super' = durable[Super]
  /\ fds' = Loaded(durable[Super])
  /\ LoadBitmaps
  /\ phase' = "up"
  /\ UNCHANGED <<content, durable, dirty, exists, calls, wild, history>>

-----------------------------------------------------------------------------
Root == content[Start]
Blocks(i) == {content[InodeBlk][i][k] : k \in 1 .. Len(content[InodeBlk][i])}

(* GetFreeEntry: first fit.                                                *)
IsFirst(x, f) == x \in f /\ \A y \in f : x <= y

Call == phase = "up" /\ ~wild /\ calls < MaxCall /\ calls' = calls + 1

Touch(i) == /\ clean' = FALSE
            /\ touched' = touched \cup {i} \cup {j \in Ino : Blocks(j) \cap Blocks(i) # {}}
            /\ UNCHANGED <<saved, cut>>

(* A counter says that something is free where no bit says so, or the bit  *)
(* is one behind the last block: the handler uses a number that is none.   *)
GoWild == /\ wild' = TRUE
          /\ UNCHANGED <<phase, super, ifree, bfree, content, durable, dirty, exists, fds, history>>

Create(n) ==
  /\ Call /\ Root[n] = None /\ super.nifree > 0
  /\ \/ ifree = {} /\ GoWild
     \/ \E i \in Ino :
          /\ IsFirst(i, ifree)
          /\ ifree' = ifree \ {i} /\ super' = [super EXCEPT !.nifree = @ - 1]
          /\ content' = [content EXCEPT ![InodeBlk][i] = << >>, ![Start][n] = i]
          /\ dirty' = dirty \cup {InodeBlk, Start}
          /\ clean' = FALSE /\ touched' = touched \cup {i}
          /\ UNCHANGED <<phase, bfree, durable, exists, fds, wild, saved, cut>>

(* tiny_write of one more block at the end of a file.                      *)
Write(n) ==
  LET i == Root[n]
  IN  /\ Call /\ i # None /\ super.nbfree > 0
      /\ Len(content[InodeBlk][i]) < MaxBlk
      /\ \/ (~\E b \in Blk : IsFirst(b, bfree)) /\ GoWild
         \/ \E b \in Blk :
              /\ IsFirst(b, bfree)
              /\ bfree' = bfree \ {b} /\ super' = [super EXCEPT !.nbfree = @ - 1]
              /\ content' = [content EXCEPT ![InodeBlk][i] = Append(@, b), ![b] = i]
              /\ dirty' = dirty \cup {InodeBlk, b}
              /\ Touch(i)
              /\ UNCHANGED <<phase, ifree, durable, exists, fds, wild>>

(* The blocks that SetBlockAllocToFree does not reject.                    *)
Freed(bs) == bs \ bfree

Unlink(n) ==
  LET i == Root[n]
      bs == Freed(Blocks(i))
      k == IF i \in ifree THEN 0 ELSE 1
  IN  /\ Call /\ i # None
      /\ bfree' = bfree \cup bs /\ ifree' = ifree \cup {i}
      /\ super' = [super EXCEPT !.nbfree = @ + Cardinality(bs), !.nifree = @ + k]
      /\ content' = [content EXCEPT ![Start][n] = None]
      /\ dirty' = dirty \cup {Start}
      /\ Touch(i)
      /\ UNCHANGED <<phase, durable, exists, fds, wild>>

(* BufGetNewBuffer writes a dirty block back.  Handlers read blocks in so  *)
(* many orders that any of them may be the least recently used.            *)
Evict ==
  /\ phase = "up" /\ ~wild
  /\ \E n \in dirty : durable' = [durable EXCEPT ![n] = content[n]] /\ dirty' = dirty \ {n}
  /\ UNCHANGED <<phase, super, ifree, bfree, content, exists, fds, calls, wild, history>>

-----------------------------------------------------------------------------
(* tiny_destroy: the super block, then the bitmaps are put into buffers.   *)
Save(from, to, n, d) ==
  /\ phase = from /\ ~wild /\ phase' = to
  /\ content' = [content EXCEPT ![n] = d] /\ dirty' = dirty \cup {n}
  /\ UNCHANGED <<super, ifree, bfree, durable, exists, fds, calls, wild, history>>

SaveAll ==
  \/ Save("up", "ibitmap", Super, super)
  \/ Save("ibitmap", "dbitmap", Ibitmap, ifree)
  \/ Save("dbitmap", "sync", Dbitmap, bfree)

(* Every other block was used before those that tiny_destroy writes, and   *)
(* so stands before them in the dirty list.                                *)
Oldest(n) == /\ n \in {Super, Ibitmap, Dbitmap} => \A m \in dirty : n <= m /\ m <= Dbitmap

(* One block more is durable: a turn of BufSync, or a buffer that one of   *)
(* the reads of tiny_destroy needed.                                       *)
SyncOne ==
  /\ phase \in {"ibitmap", "dbitmap", "sync"}
  /\ phase # "sync" => dirty \ {Super, Ibitmap} # {}
  /\ \E n \in dirty : /\ Oldest(n)
                      /\ durable' = [durable EXCEPT ![n] = content[n]]
                      /\ dirty' = dirty \ {n}
  /\ UNCHANGED <<phase, super, ifree, bfree, content, exists, fds, calls, wild, history>>

(* What was in memory only is gone.                                        *)
Gone == /\ phase' = "down" /\ fds' = AtStart
        /\ super' = Unset /\ ifree' = {} /\ bfree' = {}
        /\ content' = durable /\ dirty' = {}
        /\ UNCHANGED <<durable, exists, calls>>

(* BufSync has returned and the process ends.                              *)
Exit ==
  /\ phase = "sync" /\ dirty = {}
  /\ Gone
  /\ saved' = View /\ clean' = TRUE /\ touched' = {}
  /\ UNCHANGED <<wild, cut>>

(* The process dies: what is left is the image.                            *)
Crash ==
  /\ phase # "down" /\ Gone
  /\ wild' = FALSE
  /\ cut' = (cut \/ phase \in {"ibitmap", "dbitmap", "sync"})
  /\ UNCHANGED <<saved, clean, touched>>

Next ==
  \/ Format \/ Load
  \/ \E n \in Name : Create(n) \/ Write(n) \/ Unlink(n)
  \/ Evict \/ SaveAll \/ SyncOne \/ Exit \/ Crash

Spec == Init /\ [][Next]_vars

-----------------------------------------------------------------------------
(* What is mounted after a complete unmount is what was unmounted.         *)
CleanMountRestores ==
  clean /\ phase = "up" => /\ View = [saved EXCEPT !.super.fd = super.fd]
                           /\ Root["."] = 0

(* The disk is used through a descriptor of the image, although the copy   *)
(* of the super block brings the descriptor of an earlier process along.   *)
DescriptorRight == phase # "down" => super.fd \in fds.image

(* However sessions end, a mounted disk has a root directory: whatever was *)
(* written before the super block is durable before it.                    *)
RootThere ==
  phase = "up" => Root["."] = 0 /\ content[InodeBlk][0] = <<Start>> /\ 0 \notin ifree

(* Whatever is mounted can be used: both of the two above.                 *)
MountedRight == DescriptorRight /\ RootThere

(* A file that was saved in good order ...                                 *)
Sound(i) == /\ i \in Ino \ saved.ifree
            /\ LET s == saved.content[InodeBlk][i]
               IN  {s[k] : k \in 1 .. Len(s)} \subseteq Blk \ saved.bfree

(* ... and that nobody touched since is there as it was, through any       *)
(* number of sessions that do not come to their end.                       *)
CrashKeepsSaved ==
  phase = "up" /\ saved # << >> =>
    \A n \in Name : LET i == saved.content[Start][n]
                    IN  i \notin touched /\ i # None /\ Sound(i) =>
                          /\ Root[n] = i /\ i \notin ifree
                          /\ content[InodeBlk][i] = saved.content[InodeBlk][i]
                          /\ Blocks(i) \cap bfree = {}
                          /\ \A b \in Blocks(i) : content[b] = saved.content[b]

(* No number that is none is used unless an unmount was cut short.         *)
WildOnlyAfterCut == wild => cut
==============================================================================

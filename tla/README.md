# FSinside: a verification project

FSinside is a small Unix-like file system that runs in user space under FUSE
(`fsinside/net`), reports what it does to a terminal monitor (`fsinside/ui`)
over a System V message queue, and stores its blocks in the file `MY_DISK`
behind a buffer cache of 30 buffers. This directory holds TLA+ models of its
parts, the TLC runs that check them and the proofs that TLAPS checks.

Paths below are relative to `src/`; `net/` abbreviates `fsinside/net/` and
`ui/` abbreviates `fsinside/ui/`.

## 1. Inventory

| Component | State it keeps | Operations | Talks to |
|---|---|---|---|
| Block device (`net/disk.c`) | the image file, one shared file offset | `DevInit`, `DevLoad`, `DevReadBlock`, `DevWriteBlock` | called by the cache |
| Buffer cache (`net/buf.c`) | 30 buffers; lists Free, Clean, Dirty; hash chains | `Init`, `BufRead`, `BufWrite`, `BufSync`; `BufDelete` + `BufInsert` by hand | called by every handler, hands out pointers into its buffers |
| Allocation (`net/fs.c` 15-216) | inode and block bitmap, counters of the super block | `GetFreeX`, `SetXFreeToAlloc`, `SetXAllocToFree` | called by create, write, truncate, mkdir, unlink, rmdir |
| Directories and inodes (`net/fs.c` 217-590, `net/ops.c`) | inode blocks and directory blocks in the cache | `ReadInode`, `WriteInode`, `MakeDirentry`, `RemoveDirentry`, `__find_dentry` | cache, allocation |
| FUSE handlers (`net/op_*.c`) | what a call has on its stack; pointers into cached blocks | one per FUSE operation | all of the above, and the monitor queue |
| Mount (`net/op_init.c`, `net/op_destroy.c`) | the super block in memory and on the image | format or load at mount; save at unmount | cache |
| Monitor messages (`net/msglib`, `ui/messageQ`) | a System V queue, 8 messages per call at most | `SendMQ`, `RecvX`, `CreateMQ`, `OpenMQ`, `RemoveMQ` | between the two processes |
| User interface (`ui/`) | the bitmaps shown, a "changed" flag, a curses mutex | receiver thread, refresh thread, keyboard | the queue |
| Earlier FUSE version (`fsinside/fs/fuse`) | as `net/`, without the monitor | as `net/`, and `rename` | its own copies of cache and device |
| Stand-alone library (`fsinside/fs/FileSystem.c`); `tinyextfs` is a copy of it | inode list, bitmaps, a table of descriptors | `OpenFile`, `WriteFile`, `ReadFile`, `CloseFile`, `RemoveFile`, `MakeDir`, `RemoveDir`, `EnumerateDirStatus`, `Mount`, `Unmount` | a cache of its own |
| `fuse-ext2` | mount options; copies of inodes on the stack of a handler | one per FUSE operation | `libext2fs`, which keeps the volume |
| `test` | none | | exercises against FUSE, not part of the program |

What is hard in this code:

* **Concurrency without locks.** `net/debug` starts `tinyfs` without `-s`, so
  libfuse runs handlers in several threads. Nothing in `net/` takes a lock.
  The allocator finds a bit in one call and takes "the first free bit" in the
  next; the device seeks and transfers in two calls.
* **Pointers into the cache.** `BufRead` returns a pointer to a buffer that a
  later `BufRead` may evict and reuse.
* **Durability.** Dirty blocks, the bitmaps and the super block reach the image
  at eviction and at unmount only. A process may die anywhere before, or
  half-way through `BufSync`.
* **Limits.** A full disk, a full inode table, 12 direct blocks, 30 buffers, a
  message queue with a byte limit. Several callers do not look at the -1.
* **Copies that grow old.** Handlers of `fuse-ext2` and of the earlier version
  write back inodes they read before another call changed them.
* **One lock for a screen.** The monitor's threads share `curses_mutex`, but look
  at flags and the mode without it, and one of them waits for a key with it.
* **A protocol by position.** Messages to the monitor are pairs whose halves
  can only be told apart by where they stand in the queue.
* **Answers that hang on the monitor.** Most handlers report what they did before
  they return. If the queue is not there, or refuses a report, they end in a
  `return ;` from an `int` function: what was done stays, and what the caller gets
  is whatever was left in a register.

What makes each component correct:

* *Cache*: lists and chains agree; a block is in at most one buffer; a clean
  buffer equals the disk; no buffer is lost; what is read is what was last
  written; after `BufSync` returns, nothing is left that a crash could lose.
* *Allocation*: counters count the bitmap; a block has one owner, lies on the
  disk and is not free; nothing leaks.
* *Directories and handlers*: the namespace is a tree; each inode in use is
  named; a read returns what was written; sizes and block counts agree; a
  failing operation leaves no trace.
* *Mount*: what was unmounted is what is mounted; a crash loses no more than
  what was not synced.
* *Monitor*: the receiver stays in step; the file system never waits for it, and
  does the same with or without it (though it does not answer the same, see
  section 2); the screen catches up.
* *Screen*: a drawing shows one report; what has arrived is drawn; no thread waits
  for the lock for ever.
* *Library*: descriptors, directories and bitmaps agree; what is written, listed
  and removed is the file that a path or a descriptor names.
* *fuse-ext2*: link counts, bitmaps and `..` agree; a rename loses nothing.

`PROJECT.json` lists the hazards one by one, each at its line, with the
properties that watch over it.

## 2. Modules

| Module | Models | Kind |
|---|---|---|
| `BlockStore` | the promise of the cache: a store of blocks with a durable copy | abstract specification |
| `BufCache` | `net/buf.c` over `net/disk.c` | component; refines `BlockStore` |
| `BufLRU` | `BufCache` with a record, for each cached block, of the blocks used since it was | composition with a history variable |
| `BlockAlloc` | the allocator of `net/fs.c`, memory access by memory access | component |
| `MonitorQueue` | `net/msglib`, the reports of the handlers, `ui/messageQ` | component of two processes |
| `ByteFile` | the promise of a file: a sequence of bytes | abstract specification |
| `FileData` | `tiny_write`, `tiny_read`, `tiny_truncate` on one file | component; refines `ByteFile` |
| `FileTree` | the promise of the names: a tree of files and directories | abstract specification |
| `TinyFS` | create, mkdir, unlink, rmdir, open and the directory code of `net/fs.c` over inodes, blocks and bitmaps | component; refines `FileTree` |
| `EarlierFS` | mkdir, rmdir, truncate and rename of `fs/fuse`, with the other handlers of `TinyFS` | component; extends `TinyFS` |
| `Mount` | `op_init.c`, `op_destroy.c` and the image over many sessions and crashes | component, over the promise of the cache |
| `Screen` | the threads of `ui/` around `curses_mutex`, and the menu | component of four threads |
| `Library` | `fs/FileSystem.c` | component |
| `Ext2` | the handlers and mount options of `fuse-ext2` over `libext2fs` | component, over an external library |
| `BufCacheProofs`, `ThreadProofs` (of `BlockAlloc`, `MonitorQueue` and `Screen`), `FileDataProofs`, `MountProofs`, `TinyFSProofs`, `RootProofs` (of `TinyFS` and `EarlierFS` too), `Ext2Proofs`, `LibraryProofs` | theorems | proofs |
| `Paths` | `Front`, `Last`, `IsPrefix` and the two searches of `SequencesExt` that `TinyFS` uses | operators |
| `MCBufCache`, `MCBlockAlloc`, `MCMonitorQueue`, `MCFileData`, `MCTinyFS`, `MCMount`, `MCScreen`, `MCLibrary`, `MCExt2` | constants for TLC | instances |

Definitions marked *Faulty* in the modules are variants of the definition that
follows them, with a plausible bug. No specification uses them; they are the
mutants `PROJECT.json` names, each of which breaks the property it is listed
with.

### BufCache

| In the model | In the code |
|---|---|
| `list["free" / "clean" / "dirty"]` | `ppBufListHead[]`, a sequence, head first |
| `hash[i]` | `ppHashTable[i]`; a set, as the order within a chain is never observable once a block has one buffer (which is checked) |
| `blkno[b]`, `state[b]`, `mem[b]` | the fields of `Buf` |
| `pBuf` | the pointer the handler got from its last `BufRead`, which it may use long after |
| `BufReadHit`, `BufReadFree`, `BufReadClean`, `BufReadDirty` | the four ways through `BufRead` and `BufGetNewBuffer` |
| `BufWrite` | `BufWrite` of a whole block (the superblock and inode writes, which pass a shorter size, leave the rest of the block as read) |
| `WriteInPlace` | `memcpy` into `pMem`, `BufDelete`, `BufInsert` (`op_write.c`, `op_truncate.c`) |
| `BufSync`, `BufSyncOne`, `BufSyncReturn` | the call, one turn of its loop, its return |
| `Crash` | the process dies and starts again on the same image |

`BufSync` is split into turns of its loop so that a crash can fall between two
of them; calls do not otherwise overlap (see section 6). `BufRead(-1)` is
included, because callers make it: its content is whatever the file offset
happens to name. In the build kept with the sources the word before
`ppHashTable` is zero, so `BufFind(-1)` misses.

`BlockStore` keeps two functions, `content` (what the program sees) and
`durable` (what a crash leaves), and says that `BufSync` returns only when they
are equal. The refinement mapping takes a block's content from its buffer if
it has one and from the disk if not.

### BlockAlloc

One action per access to the bitmap or the counters, because that is where
threads interleave: `GetFreeBlock` (the counter), `Scan` (the bitmap),
`SetBlockFreeToAlloc` (the counter again), `IncUseBlock`, `Locate`, `Flip`, and
for freeing `SetBlockAllocToFree`, `Clear`, `DecUseBlock`. `slot[s]` is an
`i_block` entry of some inode; `Stop` is the caller that looks at -1
(`op_write.c:53`), going on without it the caller that does not
(`op_create.c:55`). The bitmap has `NBit >= NBlk` bits: it is rounded up to
whole blocks and all of its bits start as free, so that only the counter keeps
an allocation on the disk. An increment is one step, which is coarser than the
build. The inode allocator is the same code with `Start = 0`.

### MonitorQueue

`todo[h]` is what a handler still has to send, `queue` the kernel's queue,
`rpc` where the receiver is. `OpenMQ` is the start of a handler, `Send` one
`msgsnd`, `Refuse` a `msgsnd` that fails, after which the handler returns
without a value. The receiver's steps are `Loop`, `RecvCtrl`, `Load` and the
ways they fail. `RemoveMQ` and `Exit` are the two ways a monitor ends: the
receiver may or may not get to the top of its loop before `exit(0)`. The
history variable `torn` records that the two halves of a pair were separated.
Sizes are constants, because a message is accepted if it is not longer than the
structure it is received into. `SendMQ` itself ends without a value once a payload
is sent (`msglib.c:82`): in an ordinary build its caller gets the 1 that `SendMQ` has
just compared with 0, which is not negative, and the model takes it for success.
`Waits` and `Known` tell the monitor (which
waits, and knows four kinds) from the test server (which does not, and knows
three). `MCMonitorQueue` composes the two: whenever no receiver runs, either may
be started on what the last one left in the queue.

### FileData

One file, its inode and its blocks; other files take blocks and give them back
(`OtherTakes`, `OtherFrees`), and a block keeps the bytes of its last owner. The
loops of `tiny_write` and `tiny_truncate` are the same loop, `Loop`, whose
variables are the fields of the record `w` (`left` is `size`, `done` is
`nwrite`); it copies from the start of the buffer in every turn, as the code
does. `dead` is a `memcpy` with a negative length. Entries of `i_block` that
were never assigned are `Junk`: `op_create.c:16` writes an inode from an
uninitialised variable. The cache is left out, as it is a store of blocks
(`BufCache` refines `BlockStore`).

A call that reports to the monitor answers what `Returns` allows: its result, or
nothing (`Lost`), if the queue is missing or refuses one of the four reports
(`op_write.c:76`, `op_read.c:75`, `op_truncate.c:139`, `op_create.c:78`). Whether it
does is open for each call, as the monitor may come and go and the queue fill up.
What the program then sees is a number that means nothing; the properties leave it
out, and say that the bytes of the file are what the call makes of them all the
same. `ByteFile` is therefore a file whose answers may be lost. Calls that are
refused before anything is reported (a size beyond the largest, an error of a path)
do answer.

Not all that a program may ask for works, so the constant `Across` says whether
programs write across the end of a block, and one run shows what goes wrong.
With `Across` FALSE the file is the `ByteFile` it should be; the only script
that writes (`fsinside/fs/fuse/ibbal.sh:26`) does so a block of 512 bytes at a
time. Lengthening across the end of a block by at most a block is excluded with
it, as it is the same arithmetic. Programs write up to the end of the file only
(a hole makes `i_nblk` count a block in the wrong place) and read within it
(beyond the end `ntoread` is negative, is compared with a `size_t`,
`op_read.c:32`, and becomes the size asked for).

### TinyFS

| In the model | In the code |
|---|---|
| `inode[i]`, `data[b]` | the inode and the directory block as last written through the cache |
| `ifree`, `bfree` | the set bits of the bitmaps |
| `opened` | `fi->fh` of the files that are open |
| `Walk`, `Step` | the loops over `strtok`; `up` is `parent_inode` of `op_mkdir.c` and `op_rmdir.c` |
| `Find`, `Has`, `Get` | `__find_dentry` |
| `CreateFile`, `MakeDirentry`, `RemoveDirentry`, `DirIsEmpty` | the functions of that name, each with its branches as disjuncts |
| `Unlink` | `tiny_unlink` with `__find_dentry_and_remove` |
| `Grow`, `Truncate` | `tiny_write` and `tiny_truncate`, as far as blocks are concerned |
| `wild` | a directory has been given block -1; nothing more is said |
| `heard`, `Tells`, `Lost` | whether the queue was there and took all reports of a call, and what the call answers: its result, or nothing |
| `Handle`, `Astray`, `stray` | what `tiny_create` stores in `fi->fh`: the new inode, or, without a value from `__create_file`, some number but 0 |
| `WriteOver` | `tiny_write` through such a handle, of a block the inode has or had; of a file's own blocks it concerns nobody |

A handler is one action. The kernel looks a name up before it creates or removes
it, so that `Create` and `Mkdir` are asked for names that are not there, and
libfuse turns the removal of an open file into a rename.

create, mkdir, unlink, write and truncate report to the monitor, and may lose their
answer as described for `FileData`; rmdir, open and release report nothing. The
value that is not returned is, in an ordinary build, what `printf` returned for the
message about it, a positive number. `tiny_unlink` and `tiny_truncate` answer the
kernel with it, which is no success though the work is done; `tiny_mkdir` compares it
with -1 and answers success; and `tiny_create` takes it for the number of the new
inode. The model asks for less: `reply.lost` says that the answer means nothing, and
the handle is any inode but the root, or the call fails. `FileTree` allows for lost
answers of the calls that report, so what it promises is that a call is done in full
or not at all, and that an answer that is not lost is right.

Four constants say what programs do and what blocks hold: `Nested` (directories in
directories), `Crowds` (directories filled to the last block), `Stale` (a block comes
back with what looks like entries: a file's bytes, or an entry that `unlink` cleared
in a buffer it did not mark dirty), `Strays` (files are written through the handle of
a create that lost its value). With all four FALSE the handlers implement
`FileTree`. `Strays` FALSE does not say that the monitor is there: creates lose their
value all the same, and the program, which has opened a file successfully, does not
write to it before it opens it again by name. With `Strays` blocks are given to inodes
that are free or another file's, and are lost; one instance shows that the root
survives that. With `Nested` a new directory is not where it should be
(`names_mkdir`). With `Crowds` a create in a full directory returns the inode it
has given back, and a mkdir there reports success. With `Stale` a new directory
is not empty, and names of removed files come back. `Listed` are the places of a
directory that `tiny_readdir` goes through and lists, `KindAt` is what
`tiny_getattr` finds at a path. `MCTinyFS` runs several
instances side by side, of which the variable `programs` chooses one at the
start.

### EarlierFS

The handlers that `fs/fuse` has and `net/` has not, or has differently. Its
`mkdir` and `rmdir` walk to the directory a path names, so that nesting works. It has
no monitor, and so no call loses its answer (`heard` is TRUE in `EarlierNext`).
`Rename` is `tiny_rename` with its two branches: `Overwrite`
(`_overwrite_dentry`), which frees what has the new name and copies the entry
there, and `Add` (`_add_dentry`), which copies the entry as it is, with its old
name, to the first place that is free. Both end in `RemoveDentry`
(`_remove_dentry`), which searches for a name that `Overwrite` may have changed
and writes back the inode as it was read at first. `KernelSends` is what the
kernel sees to before it sends a rename. `Careless` says whether programs also
rename where it goes wrong (`Safe` names the cases). `Nested` says nothing about
these programs: they always make directories in directories. A directory that is
renamed over gives its block back with `..` still in it (`op_rename.c:85`), and a
directory that grows into that block lists `..` twice; `EarlierListedOnce` is
about all other names.

### Mount

| In the model | In the code |
|---|---|
| `super`, `ifree`, `bfree` | `tiny_superblk` with its counters and bitmaps, in memory only |
| `content`, `durable`, `dirty` | the blocks as the process reads them, as the image has them, and those whose buffers are dirty |
| `exists`, `fds` | the file `MY_DISK`, the open descriptors |
| `Format`, `Load` | the two branches of `tiny_init`; `Probed` and `Loaded` are its `DevLoad`, `DevRelease`, `DevLoad` |
| `Create`, `Write`, `Unlink` | the handlers, as far as bitmaps, counters and blocks are concerned, for files in the root |
| `Evict` | a dirty buffer is written back because its memory is needed |
| `SaveAll`, `SyncOne`, `Exit` | `tiny_destroy`: three blocks, the turns of `BufSync`, the end of the process |
| `Crash` | the process dies at any point |

The cache is what `BlockStore` promises, with one thing more that `BufLRU` shows:
`BufSync` goes through the blocks in the order of their last use. This is what
keeps a half-finished unmount harmless, as the super block, which alone tells the
next mount that the disk is formatted, comes after all that was used before.
`saved`, `clean`, `touched` and `cut` are history: what the last complete unmount
saved, which inodes were changed since (or share a block with one that was, after
a crash has left an entry to an inode that is free), and whether an unmount was
cut short. `wild` is a handler that uses a number that is none because counter
and bitmap disagree.

### Screen

| In the model | In the code |
|---|---|
| `lock` | `curses_mutex` |
| `ibm`, `bbm`, `marks` | the bitmaps and the flags of `blocks[]`; a bitmap has two parts, since a copy or a drawing of it is no single step |
| `changed`, `mode`, `about`, `bean` | `isDiskChanged`, `CURRENT_MODE`, `isAboutOpen`, the thread of the animation |
| `LoadSuperBlk`, `UpdateInodes`, `UpdateBlocks`, `UpdateBlocksForIO` | the receiver, `messageReceiver.c` and `controller.c` |
| `SeeChange`, `BeginRedraw`, `LookAgain`, `Draw`, `EndRedraw` | `refresh_bitmap_screen`, from the look at the flag to its reset |
| `Key`, `SetMode`, `SetFlag`, `OpenAbout`, `AnyKey`, `CloseAbout`, `Popup` | `input_select_menu`, `set_show_bitmap`, `about`, `exit_fsinside` |

A report is a number, an event and the blocks it names. `last` and `missed` are
history: what a report said of a block since it was last drawn, and that the mode
was set after the redraw under way had looked at it.

### Library

One thread calls the library. `ino`, `blk`, `ibm`, `bbm` and `fdt` are the inode
list, the blocks as directories, the bitmaps and the descriptors; an offset is
counted in blocks. A path has one name or two, which is enough for the two ways
the functions walk: `Walk` fails at a missing directory, `WalkOver` passes it
over. Three calls are taken that should not be (a file created in a directory
that has to grow, a file removed while open, a directory removed as a file);
`odd` records that one of them was made, and the invariants are about what
happens before. Callers keep clear of a full disk, where the library uses -1 as a
block number.

### Ext2

A handler is the composition of functions on the whole volume, in the order it
calls them; a copy of an inode is a value taken from an earlier volume. What
`libext2fs` does is external: a block of a directory has room for `NSlot` names,
free numbers are taken lowest first. `lost` is set when a hard link makes its
directory grow: `op_link.c:93` writes back the inode from before, and nothing
more is followed. `ParseOption` takes mount options one by one.

## 3. Runs

| Run | Question | Bound and why it is enough |
|---|---|---|
| `cache` | is the cache consistent, a block store, in order of last use, does `BufSync` end, and what does a read of block -1 cost? | 3 buffers, 4 blocks and -1, 2 chains, 2 contents: hits, misses into each list, collisions in a chain, a choice of victims, eviction and return of a block, a sync of up to 3 buffers, a pool drained to nothing |
| `alloc_serial` | are bitmap, counters and inodes in agreement? | 4 blocks, 6 bits, 5 entries: the disk fills up, an allocation fails, blocks come back in any order; entries are symmetric |
| `alloc_toggle` | "the bit is changed to in use" (`fs.c:44`) | two handlers; violated |
| `monitor` | what tears a pair apart, and what then? | 2 handlers, which may send at once, 2 kinds, one of which the test server does not know, room for 5 bytes of a report of 7: the queue fills up in the middle of a pair; monitor and test server follow each other in any order |
| `file_data` | is a file a sequence of bytes, and are its blocks its own? | blocks of 2 bytes, files of 2 blocks, a disk of 3: first, last and kept blocks, holes in the bitmap, a full disk; bytes 0 and 1 tell old bytes from zeroes |
| `file_across` | "Write should return exactly ..." (`fs/impl2.c:132`) across a block end | violated |
| `names` | is it a tree of names, who owns blocks and inodes, and what is left of it when programs ask for what does not work? | see below |
| `names_mkdir` | "Get inode of the parent directory" (`op_mkdir.c:28`) | violated by `mkdir n1`, `mkdir n1/n1` |
| `mount` | what does a mount find after any sequence of sessions, complete or not? | 2 files, 3 inodes, 2 blocks to a file, 3 blocks and a bit too many, 5 calls over all sessions: an inode and a block of a lost session are given to another file; the sessions themselves are not bounded |
| `screen` | does the screen show what has arrived, and does nobody wait for ever? | 2 reports, so that one comes during the redraw of the other; 3 menus and one the keyboard reaches by number, 2 places in the submenu |
| `library` | do descriptors, directories and bitmaps agree? | 6 calls, 2 names, 3 entries to a block, 2 blocks to a directory, 2 descriptors: a directory in the root is full with one name, the root with two; descriptors run out and are reused |
| `ext2` | are links, blocks and `..` right? | 6 calls, 2 names, 4 inodes, 5 blocks, a name to a block: every second name makes a directory grow; inodes and blocks run out; 3 mount options |

`names` has five kinds of programs. *tree*: 4 inodes, 4 blocks, 2 entries to a
block, 2 blocks to an inode, paths of 2 names out of 2, so that every directory
needs a second block and gives it back and inodes and blocks run out, and any call
that reports may lose its answer. *deep*: directories in directories, 3 inodes, 3
entries to a block; they end up in the root, with and without room there. *flat*:
paths of 1 name out of 2, with 2 entries to a block, so that both names go into the
root's second block, where one does not fit if old bytes are read as a name, blocks
that come back with old entries in them, and writes through a handle that may be any
inode's; with paths of two names an old entry could leave a directory without a
block, and what is read then is not defined. *earlier*: the earlier version, for
programs that rename where that works, with the sizes of *tree*, so that a directory
grows into a block that a rename has given back. *careless*: the earlier version for
programs that rename anything, with 3 inodes, 3 blocks and 3 entries to a block. One
file is open at a time. The two names are symmetric: the code compares names, and
has no order of them.

Calls are bounded in `library` and `ext2`, which stop there and do not check for
deadlock. The longest runs (`cache`, `names`) take less than three minutes.

A run that is violated shows a place where the code does not do what a comment
of the repository says; `PROJECT.json` quotes the comment under "findings".

The properties, in words:

* `ListsDisjoint`, `HashAgrees`, `OneBufferPerBlock`, `CleanIsOnDisk`:
  lists, chains, blocks and contents of the cache agree.
* `LostOnlyByInvalidRead`: a buffer leaves the pool only through a read of
  block -1.
* `SyncReturns`: `BufSync` ends, although it appends to one list while it walks
  another.
* `ImplementsBlockStore`: every behaviour of the cache is one of the abstract
  store, across crashes at any point.
* `ListsInLruOrder`, `EvictsOldestOfList`: order of replacement.
* `Accounted` (`CountersAgree` and `NoLeak`), `OneOwner`: the allocator between
  calls.
* `InStepUnlessTorn`: the causes of a desynchronised monitor are those listed
  in the module and no others. A torn pair is permanent:
  `WedgeOutlivesRestart`.
* `ImplementsByteFile`: what is read is what was written; what a file gets by
  lengthening is zero; a call whose answer is lost is done like any other.
  `BlocksRight`: no block of a file is lost, shared, or free and in use
  (`BlocksOwned`), and size and number of blocks never drift apart by more than the
  block a truncation leaves (`BlocksFitSize`).
* `OneOwnerEach`: on the whole disk no block is lost, shared, or free and in use
  (`BlocksOwned`), and every inode in use has exactly one name, of its type
  (`NamedOnce`), in both versions. `EachListedOnce`: a listing has every name once
  (but for `..` in the earlier version), and those only that can be opened.
* `TreeImplementsFileTree`: what each call does to the tree: all it should, or
  nothing; an answer that is not lost tells which.
* `DeepDirsRight` (`DirsInRoot`, `DotsRight`), `RootsStay`: what is left of the tree
  when programs do what does not work.
* `EarlierRenameMoves`: where a rename of the earlier version puts what it renames.
* `MountedRight`: the disk is used through a descriptor of the image, although the
  super block that is read brings the number of an earlier process along
  (`DescriptorRight`), and however sessions end, it has a root (`RootThere`).
  `CleanMountRestores`: what was unmounted is what is mounted. `CrashKeepsSaved`: a
  file that was saved and not touched since survives. `WildOnlyAfterCut`: counters
  and bitmaps only disagree after an unmount that was cut short.
* `DrawnRight`: a drawing is of one bitmap (`NoTornDrawing`) and in the end the
  current one (`NothingUndrawn`), but in two cases in which that does not hold: the
  report of a mount, and a mode that is set during a redraw. `MarksTellLast`: the
  marks of a block tell the last report. `NoneDangling`: the menu and the animation
  use what is there (`SubInRange`, `BeanHasWindow`). `NobodyWaitsForEver`: a change
  is drawn and a report taken, unless About is open or the user leaves.
* `TreeRight` of the library: inodes and blocks in use are those named
  (`BitmapsRight`), and directories know each other (`DotsRight`).
  `DescriptorsApart`: no two descriptors in use have one file. `ListsWhatOpens` and
  `CallsHitTheirFile` (`WritesItsOwn`, `RemovesWhatOpens`): listing, writing and
  removing are about the file that opening a path is about.
* `NothingLost` of `fuse-ext2`: links are counted (`LinksCounted`), inodes and
  blocks in use are those named (`NothingLeaks`), and `..` leads up
  (`DotDotRight`); `RenameLosesNothing`: nor does a rename lose a name.
  `ForcedOnly`: a volume is written to only if that was forced and the last word
  was not `ro`.
* `HandlersNeverWait`, `CatchesUp`: neither process holds up the other for
  ever.

### Fairness

`BufSync` is a loop with no wait in it, so its steps are weakly fair; no other
action of the cache is fair, and clients may stop at any time. A handler with
something to send goes on or is refused (`IPC_NOWAIT`), and the receiver's loop
runs on: each is weakly fair, as threads that are never blocked are scheduled.
No fairness is assumed of the user, of crashes, or of the start of a call.
`HandlersNeverWait` holds although the receiver may be absent.

In `Screen` the redraw is weakly fair: it runs on whenever it can, and so does the
end of a key's handling (`SetFlag`, `CloseAbout`) and of the animation. The
receiver is strongly fair where it waits for the lock: the redraw gives it back
and then sleeps for 5 ms, and a thread that waits for a mutex is woken and takes
it in that time. Without that the redraw could take the lock again every time.
The user may stop at any point, with About open or not.

## 4. Theorems

All are checked by TLAPS for every value of the constants, under the
assumptions the modules name (at least one buffer and one chain, block numbers
are natural numbers, `0 < NBlk <= NBit`, ...).

`BufCacheProofs`: `TypeCorrect`, `ListsStayDisjoint`, `HashStaysInStep`,
`NoBlockCachedTwice`, `CleanCanBeDropped`, `LostOnlyByInvalidRead` (as
`OnlyInvalidReadLoses`), `PoolStaysWhole` (for clients that never pass -1) and
the `Refinement` of `BlockStore`. None of the invariants is inductive alone: a
hit deletes a buffer from the list its *state* names, so lists, chains and
states have to agree; `OneBufferPerBlock` needs that a miss in one chain means
the block is in none; `CleanIsOnDisk` needs `OneBufferPerBlock`, as writing one
buffer back would make another stale. The inductive invariant is their
conjunction with two facts about `BufSync`: while it runs its walker is on
Dirty, and `pBuf` is a buffer on a list or one that was lost. The steps that
move a buffer are all instances of three lemmas (unlink, append at the tail,
take the head), proved once about sequences without duplicates. The refinement
adds that `durable` equals `content` when the walk is over, because every buffer
behind the walker has been moved to Clean, where `CleanIsOnDisk` holds.
`ListsStayInOrder` and `OldestIsEvicted` are about `BufLRU`, whose history is
the relation `since`, "used after", on the cached blocks: taking a buffer out of a
list keeps the order of the others, a use puts its block behind all that are
cached, and the head of a list that is in order is the oldest of it.

`ThreadProofs`, of the allocator: `SerialAllocation`, for one handler: `AllocTypeOK`,
`CountersAgree`, `OneOwner` and `NoLeak`, and so `Accounted`, as
`SerialAccounts`. The inductive invariant says at each
program counter by how much counter, bitmap and inodes are apart. The key step
is that first fit names the same bit in `Scan` and in `Locate`, and that this
bit lies on the disk as long as the counter is not 0.

`ThreadProofs`, of the queue: `MonitorTypeCorrect`, `InStepUnlessPairTorn` and
`WedgeStays`, for any number of handlers, kinds and sizes and for either
receiver. `InStep` alone is not inductive: what a handler sends next has to fit
what the queue ends with. The invariant adds that a report alternates control
message and payload (`TodoOK`), that without a queue nobody is connected to one
(`ExistsOK`), and, as long as nothing is torn, that the queue ends with a whole
pair, or with the announcement of the one handler that is half-way through a
pair (`EndOK`). That a wedge stays rests on a payload being longer than `Msg_t`
(`SizeAssumption`), which is why a receiver that waits for a control message
cannot take it.

`MountProofs`: `MountIsRight`, `MountRestores` and `WildIsAfterCut`, for any
number of inodes, blocks, names and calls. All rest on `Inv`: the blocks of the
image are well formed (`Disk`, with inode 0 and its block never free), what is
not dirty is durable, and the super block and the bitmaps are not dirty before
`tiny_destroy` has put them into buffers (`InStep`). That a mounted disk has a
root then follows from the order of the dirty list: the super block becomes
durable only when the inodes and the directory are (`Rooted`). Descriptor 0 is
right by a detour: the first `DevRelease` closes the 0 that the copy of the super
block brings along, and the second `open` gets it (`OpensAs0`). `MountRestores`
adds what each stage of `tiny_destroy` has put away (`Stages`) and that the image
is what was saved as long as nothing is done (`Kept`); `WildIsAfterCut` adds that
counters agree with bitmaps both in memory and in the image (`Counted`), which
only a death between two of the stages can undo. `CrashKeeps` proves
`CrashKeepsSaved`: the name, the inode and the blocks of a file that is saved and
not touched are the same in memory and in the image, whatever mix of old and new
bitmaps a crash leaves; no handler takes a block of it, as its blocks are in use
in the old bitmaps and in the new ones; and an image that was once saved is never
formatted again.

`FileDataProofs`: `BlocksAreRight`, for programs of either kind, and
`FileOfBytes`, the refinement of `ByteFile` for programs that do not write across
the end of a block. The loops are recursive functions; that a property is kept
by every turn of a loop is carried to its end by the least turn that breaks it
(`First`, `Climb`). The invariant of a turn (`Base`, `Live`, `Ready`) is about
the blocks the file owns, the number of them, and where the loop is: a write that
crosses the end of a block puts it off course, but never into a block that is not
the file's. Neither theorem assumes that the monitor runs: any call that reports may
lose its answer, and the refinement has a lost answer wherever `ByteFile` has one.
For the refinement, a loop copies from the start of its buffer in
every turn, so it writes the right bytes only because it has one turn or all bytes
of the buffer are alike (`Alike`, the zeroes of `tiny_truncate`); and a read,
which does advance, gathers what the blocks hold.

`ThreadProofs`, of the screen: `ScreenIsRight`, `MarksAreRight` and
`NothingDangles`, for any number of reports and any menu. Who holds `curses_mutex`
is read off the program counters (`Locks`), so that no bitmap changes during a
redraw; a bitmap is of one report but while the receiver is half-way through it
(`WholeBitmaps`), and a redraw has drawn what the bitmaps hold so far
(`DrawnSoFar`).

`TinyFSProofs`: `OwnersAreRight`, for both versions, under `~Nested`, `~Crowds`,
`~Stale`, `~Strays` and `~Careless`: each of the five is there because
`OneOwnerEach` is false without it, as section 2 says. None says that the monitor
runs: answers are lost at will. The inductive invariant `TreeOK` is stated of
inodes, blocks and bitmaps given as arguments, so that a handler can be taken apart
into steps that each keep it: `TakeBlock` and `GiveBlocks` (a block gets or loses
its owner), `NewEntry`, `DropEntry` and `MovedEntry` (a name is written, cleared, or
goes elsewhere), `DropBlock` (a directory gives a block up and moves its last one
there). Neither `BlocksOwned` nor `NamedOnce` is inductive alone: a name may only be
cleared with its inode because no other entry names that inode (`LinkedOnce`); a
block may only be given back when it is empty because names are found in blocks of
directories in use and nowhere else (`Housed`), so that a free block, which is taken
without being cleared, holds none; and a directory keeps its first block because `.`
is in it (`Headed`). That `__find_dentry` and the removals of `op_unlink.c` and
`op_rename.c` mean the same entry rests on no directory having a name twice
(`Distinct`). The walk down a path is a recursive function; that it stays in
directories is carried to its end as in `FileDataProofs`.

`NamesAreATree`, under `~Nested`, `~Crowds`, `~Stale` and `~Strays`, is the
refinement of `FileTree`, whose answers may be lost, by the handlers of `net/`, and
`ListingsAreRight` proves `EachListedOnce` of both versions. A walk is tied to
`TreeOK` by two facts that every step keeps: `FlatIn`, directories are in the root
(so that the directory above the one a path names is the root, which is where
`tiny_mkdir` and `tiny_rmdir` work), and `NeatIn`, `.` and `..` are the first two
entries of a directory and nowhere else, also in blocks that are free (a directory
that is removed has its blocks emptied, so that the next directory gets no second
`..`). What a directory holds is then a set of entries (`Holds`), and what a handler
does is one of three things to it: `Gains` an entry, `Loses` one, or leaves it the
`Same` (`StepTells`). A path leads to one directory and to one entry in it at most,
and two paths to different entries (`OnePath`), so that one entry more or less is
one path more or less (`GainsOne`, `LosesOne`), which is what `FileTree` says of the
call that is answered. That `rmdir` refuses exactly when the tree has something
below the path is `NothingBelow`.

`RenamesMove` proves `EarlierRenameMoves`, under `~Crowds`, `~Stale` and `~Careless`
and for paths of every length. `_overwrite_dentry` and `_add_dentry` are first shown
to do one thing to what directories hold (`Moves`, `HoldsMoved`): the entry that is
moved and the one that is replaced are gone, and one entry is in the new directory.
A path of any depth is tied to `Holds` by the inodes it leads through (`Chain`): a
path resolves exactly when it has a chain, and to its end (`LooksRight`). No inode
has two paths, as at every step up to the root there is one entry that names it
(`OneChain`). So the way to the new directory does not lead through what is moved or
replaced, as the kernel sends no rename of a name into itself, and stays
(`ChainStays`); and if the old path still resolved it would lead through the new place
(`MovedChain`), which is that the new path begins the old one, or that the new directory
had the old name, which `Safe` rules out.

`Ext2Proofs`: `NothingIsLost`, `RenameKeepsNames` and `OnlyForcedMountsWrite`, for
volumes of any size and any number of calls. The inductive invariant is `Sound`
of the volume as long as no link has made a directory grow (`~lost`): every block
in use is in one inode in use (`Disk`); the root has no name, every other inode has
one, a directory only in the directory its `..` leads to, and no directory has a
name twice (`Linked`); and the links of an inode are what its names, or the
directories in it, come to (`Counted`). `NothingLost` alone is not inductive: that
a name is in its directory once is what makes `op_unlink` take one name away for
one link, and that names lead to inodes in use is what keeps `op_rmdir` from
freeing an inode twice. A handler calls `libext2fs` several times, and the volume
is not `Sound` in between; so each call has a lemma that says what it does to the
blocks (`Disk` holds after every one of them), to the names (`Gains`, `Loses`) and to
the links (`Relinked`, `Killed`, `Taken`), and six lemmas say of a whole handler that
names and links have changed together (`NewFile`, `NewDir`, `NewLink`, `DropFile`,
`DropDir`, `MoveName`). The hypothesis `~lost` is used in one place, `LinkIs`, where
`op_link.c` writes back the directory as it was read before `ext2fs_expand_dir`.
`RenameKeepsNames` follows from what the move does to the names (`Moves`), and the
last of the three from what one more option does to a list of them.

`LibraryProofs`: `TreeIsRight`, `ListingOpens`, `DescriptorsStayApart` and
`CallsHit`, for any number of names, inodes, blocks, descriptors and calls and
blocks of three entries or more (a directory's first has two that are not names).
The inductive invariant is `Typed /\ Known /\ (~odd => Tree)`, which TLC was asked
about first, for six and for eight calls. `Known` says that an entry with a name
leads to an inode in use that is not the root and that no other entry names, and it
survives the three calls that should not be made; `ListingOpens` needs no more,
and so holds after them too. `Tree` is the rest, until one of them: a block in use is in one
inode in use, once (`Owned`); names are in blocks of directories in use, every inode
in use but the root has one, and `.` and `..` are what the names say (`NamesRight`);
descriptors in use are of files in use, each of its own (`Apart`). `TreeRight` is
not inductive: it says nothing of entries in blocks that are not in use, of which
`MakeDirentry` clears the first two only (`Housed` says that such blocks hold no
name), nor that an inode in use has a block, without which `RemoveFile` would take a
directory for the file (`Owned`). What a call does is first shown to be one of a few
relations between two states that know nothing of paths (`FileMade`, `FileAdded`,
`FileWritten`, `FileRemoved`, `DirMade`, `DirAdded`, `DirRemoved`), and what walks and
searches find, the first entry of a kind, is dealt with there. Then each
relation is shown to keep `Known`, and to keep `Tree`. `NamesRight` is kept by one
argument for all of them (`NamesStay`): a step that adds one name at most, to a block
of a directory and for an inode that was free, and takes none away without its inode,
keeps it. `CallsHit` is two action properties. A write puts its blocks into the inode
of its descriptor, which is a file (`Apart`). `RemoveFile` empties the first entry of
the name in the block where it found one and frees the inode named there; that this is
the inode whose blocks it gave up, and the file `OpenFile` finds, holds as it
found the first entry of that name in the directory (`HitsFile`) and no two entries
name one inode (`Known`).

`RootProofs`: `RootIsKept` proves `RootsStay`, of programs for which the tree is not
right: those of `net/` that fill the root and are given blocks that look like directories
(`Flat`), and those of the earlier version that rename where that loses names
(`Anyhow`). `TreeOK` is false of them, so the invariant is a smaller one that asks
nothing of other names. `RootKept` says of the block `r` that the root began with:
the root is a directory whose first block is `r`, and no other inode has `r` (`Held`,
`Beside`); no entry with a name of a program leads to the root, in any block, free ones
included, and `r` begins with the `.` of the root (`Begins`, `Plain`, `RootDot`); and
neither the root nor `r` is free, nor is the root open, or in a handle that a create
without a value has left. `RootsStay` is not inductive
without the second part: a file or directory that is removed, replaced or truncated is
found by its entry, and one that led to the root would free it. That `Plain` speaks of
free blocks too is what makes it survive blocks that come back as they were left. What a
handler does is put together from a few changes of an array (`PutBlock`, `PutEntry`,
`PutNode`, `PutBlocks`, `PutMany`), each with a lemma; then there is one lemma to a
handler, for each of the two instances. The theorem has the bounds of `MCTinyFS` where
they are part of the instances: three inodes, and two names (`Flat`) or three blocks
(`Anyhow`); the number of open files, the size of `i_block`, and the depth of paths in
the earlier version are any. It assumes of the names only that none is one the
handlers write themselves (`TwoNames`).

Left to TLC: liveness (`SyncReturns`, `HandlersNeverWait`, `CatchesUp`,
`NobodyWaitsForEver`), which the provers do not do; and `DeepDirsRight`, of
directories in directories: `TreeOK` is false of them, as `rmdir` and `mkdir` change
the root for the directory above, and what remains of it would have to be proved again
for every handler.

## 5. Plan

What the project could gain next:

1. Handlers that keep a pointer into a buffer over other reads, and two handlers
   that share the file offset of the device: a composition of `BufCache` with its
   clients (hazards at `op_truncate.c:59` and `disk.c:36`).
2. `DeepDirsRight` as a theorem: it is about programs for which `TreeOK` is false,
   and needs an invariant of its own.
3. The composition of `MonitorQueue` with `Screen`, whose receiver takes every
   report whole.

## 6. Not modelled, and why

* Data races on the links of the cache and on `++`: calls of the cache are
  atomic in `BufCache`, an increment is atomic in `BlockAlloc`. The outcomes of
  the races are undefined and would drown what the modules are about; the races
  themselves are listed as hazards.
* Failing device writes: `DevWriteBlock` ignores the result of `write`.
* The answers of getattr and readdir, which report too and lose theirs without a
  queue (`op_getattr.c:75`, `op_readdir.c:57`): a kernel that gets no answer to a
  lookup does not send the call that follows it. The models are of the calls that are
  sent; `Listed` and `KindAt` are what the two find. The value of `tiny_init`, which
  ends in the same way, is used by nobody.
* What `curses` does with the terminal, and the threads that write to it without
  the lock (the clock, the list of events).
* Where a block is drawn. The drawing of blocks stops at `bbm.size`, which counts
  bytes (`screen_middle_left.c:143`), so that of every eight blocks seven are never
  drawn; `Screen` has each part of a bitmap drawn.
* What reaches the image of `fuse-ext2` before it is closed, which is up to
  `libext2fs`.
* Sizes of files in the library, times, owners and modes in `fuse-ext2`, and the
  handlers that change nothing else.
* `tinyextfs`, whose `FileSystem.c` differs from the one `Library` models in the
  `static` of its globals; the cache, the allocator and the other handlers of the
  earlier version, which are those of `net/` without the messages.
* The FUSE library, `libext2fs` and the kernel beyond what the code relies on; the
  exercises in `test`.

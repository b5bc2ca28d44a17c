------------------------------ MODULE BufCache ------------------------------
(***************************************************************************)
(* The buffer cache of FSinside (fsinside/net/buf.c over disk.c): a fixed  *)
(* pool of buffers, each on one of the lists Free, Clean and Dirty, and a  *)
(* hash table from block number to buffer.  Clean and Dirty are kept in    *)
(* LRU order: a buffer moves to the tail each time it is used.             *)
(*                                                                         *)
(* The client is a file-system handler: it calls BufRead and then uses the *)
(* returned pointer pBuf, either through BufWrite or by writing into pMem  *)
(* and re-inserting the buffer itself.  BufSync is modelled buffer by      *)
(* buffer, so that the process may die half-way through it.                *)
(***************************************************************************)
EXTENDS SequencesExt, Integers

CONSTANTS NBuf,      \* how many buffers Init() allocates (30 in the code)
          HashSize,  \* HASH_TBL_SIZE (8 in the code)
          Block,     \* the block numbers of the disk
          CallNo,    \* the block numbers clients pass to BufRead
          Data,      \* what a block can hold
          Zero       \* the content memset gives a new buffer

Buf     == 1 .. NBuf
NULL    == 0        \* the null pointer, no element of Buf
INVALID == -1       \* BLKNO_INVALID

ASSUME NBufAssumption  == NBuf \in Nat \ {0}
ASSUME HashAssumption  == HashSize \in Nat \ {0}
ASSUME BlockAssumption == Block \subseteq Nat
ASSUME CallAssumption  == CallNo \subseteq Block \cup {INVALID}
ASSUME DataAssumption  == Zero \in Data

ListName == {"free", "clean", "dirty"}
Index    == 0 .. HashSize - 1

VARIABLES disk,     \* disk[n]: block n of the disk image
          blkno,    \* blkno[b], state[b], mem[b]: the fields of a Buf
          state,
          mem,
          list,     \* ppBufListHead: the three lists, head first
          hash,     \* ppHashTable: each chain, as the set of its buffers
          pBuf,     \* the pointer the client got from its last BufRead
          syncing,  \* TRUE while BufSync is running
          pWalker   \* the buffer BufSync visits next

vars == <<disk, blkno, state, mem, list, hash, pBuf, syncing, pWalker>>

TypeOK ==
  /\ disk \in [Block -> Data]
  /\ blkno \in [Buf -> Block \cup {INVALID}]
  /\ state \in [Buf -> {"clean", "dirty", "wrong"}]
  /\ mem \in [Buf -> Data]
  /\ list \in [ListName -> Seq(Buf)]
  /\ hash \in [Index -> SUBSET Buf]
  /\ pBuf \in Buf \cup {NULL}
  /\ syncing \in BOOLEAN
  /\ pWalker \in Buf \cup {NULL}

-----------------------------------------------------------------------------
(* The pool as Init() builds it.                                           *)
NewPool == [l \in ListName |-> IF l = "free" THEN [i \in 1 .. NBuf |-> i]
                                             ELSE << >>]

Init ==
  /\ disk \in [Block -> Data]
  /\ blkno = [b \in Buf |-> INVALID]
  /\ state = [b \in Buf |-> "wrong"]
  /\ mem   = [b \in Buf |-> Zero]
  /\ list  = NewPool
  /\ hash  = [i \in Index |-> {}]
  /\ pBuf  = NULL
  /\ syncing = FALSE
  /\ pWalker = NULL

Cached == ToSet(list["clean"]) \cup ToSet(list["dirty"])
OnList == Cached \cup ToSet(list["free"])

-----------------------------------------------------------------------------
(* BufDelete(pBuf) takes a buffer out of its chain and of the list its     *)
(* state names (Dirty for WRONG_VALUE); it returns TRUE if it was there.   *)
ListOf(b) == IF state[b] = "clean" THEN "clean" ELSE "dirty"

Position(s, b) == CHOOSE i \in 1 .. Len(s) : s[i] = b
Unlink(s, b)   == RemoveAt(s, Position(s, b))

Deletable(b)   == b \in ToSet(list[ListOf(b)])

(* Faulty: the buffer keeps its link in the list, or its link in the chain. *)
KeepLink(b)    == list
KeepChain(b)   == hash

ListWithout(b) == [list EXCEPT ![ListOf(b)] = Unlink(@, b)]
HashWithout(b) == [hash EXCEPT ![blkno[b] % HashSize] = @ \ {b}]

(* Faulty: block 0 is taken for an invalid number.                         *)
InsertNotZero(b, n, l, ls, h) ==
  /\ blkno' = [blkno EXCEPT ![b] = n]
  /\ list'  = IF n <= 0 THEN ls ELSE [ls EXCEPT ![l] = Append(@, b)]
  /\ hash'  = IF n <= 0 THEN h ELSE [h EXCEPT ![n % HashSize] = @ \cup {b}]
  /\ state' = IF n <= 0 THEN state ELSE [state EXCEPT ![b] = l]

(* Faulty: the buffer is linked at the head of its list.                   *)
InsertAtHead(b, n, l, ls, h) ==
  /\ blkno' = [blkno EXCEPT ![b] = n]
  /\ list'  = IF n < 0 THEN ls ELSE [ls EXCEPT ![l] = <<b>> \o @]
  /\ hash'  = IF n < 0 THEN h ELSE [h EXCEPT ![n % HashSize] = @ \cup {b}]
  /\ state' = IF n < 0 THEN state ELSE [state EXCEPT ![b] = l]

(* BufInsert(pBuf, l) of a buffer numbered n, into lists ls and chains h:  *)
(* nothing at all for a negative number.                                   *)
BufInsert(b, n, l, ls, h) ==
  /\ blkno' = [blkno EXCEPT ![b] = n]
  /\ \/ /\ n < 0
        /\ list' = ls
        /\ hash' = h
        /\ UNCHANGED state
     \/ /\ n >= 0
        /\ list'  = [ls EXCEPT ![l] = Append(@, b)]
        /\ hash'  = [h EXCEPT ![n % HashSize] = @ \cup {b}]
        /\ state' = [state EXCEPT ![b] = l]

(* Faulty: the chain after the one of n is searched.                       *)
FindNextChain(n) == {b \in hash[(n + 1) % HashSize] : blkno[b] = n}

(* The buffers BufFind(n) can return.  BufFind(-1) indexes the word before *)
(* ppHashTable, which is zero in the build kept with the sources: a miss.  *)
BufFind(n) == {b \in hash[n % HashSize] : blkno[b] = n}

(* What DevReadBlock(n) can deliver: for n = -1 the seek fails and read    *)
(* continues wherever the shared file offset happens to be.                *)
DevReadBlock(n) == IF n \in Block THEN {disk'[n]} ELSE Data

(* Faulty: the write does not reach the disk.                              *)
DevWriteNothing(n, d) == disk' = disk

DevWriteBlock(n, d) == disk' = [disk EXCEPT ![n] = d]

-----------------------------------------------------------------------------
(* Faulty: a hit leaves the buffer where it is.                            *)
HitInPlace(n) ==
  \E b \in BufFind(n) :
    /\ ~syncing
    /\ pBuf' = b
    /\ UNCHANGED <<disk, blkno, state, mem, list, hash, syncing, pWalker>>

(* BufRead(n), the block being in the cache: the buffer moves to the tail  *)
(* of its list.                                                            *)
BufReadHit(n) ==
  \E b \in BufFind(n) :
    /\ ~syncing
    /\ Deletable(b)
    /\ BufInsert(b, n, state[b], ListWithout(b), HashWithout(b))
    /\ pBuf' = b
    /\ UNCHANGED <<disk, mem, syncing, pWalker>>

(* BufRead(n), the block not being in the cache, once BufGetNewBuffer has  *)
(* taken buffer b and left lists ls and chains h.                          *)
Fill(b, n, ls, h) ==
  /\ ~syncing
  /\ BufFind(n) = {}
  /\ \E d \in DevReadBlock(n) : mem' = [mem EXCEPT ![b] = d]
  /\ BufInsert(b, n, "clean", ls, h)
  /\ pBuf' = b
  /\ UNCHANGED <<syncing, pWalker>>

(* BufGetNewBuffer takes the head of Free, else of Clean, else of Dirty,   *)
(* which it writes to the disk first.                                      *)
BufReadFree(n) ==
  /\ list["free"] # << >>
  /\ UNCHANGED disk
  /\ Fill(Head(list["free"]), n, [list EXCEPT !["free"] = Tail(@)], hash)

BufReadClean(n) ==
  /\ list["free"] = << >> /\ list["clean"] # << >>
  /\ UNCHANGED disk
  /\ LET b == Head(list["clean"]) IN Fill(b, n, ListWithout(b), HashWithout(b))

BufReadDirty(n) ==
  /\ list["free"] = << >> /\ list["clean"] = << >> /\ list["dirty"] # << >>
  /\ LET b == Head(list["dirty"])
     IN  /\ DevWriteBlock(blkno[b], mem[b])
         /\ Fill(b, n, ListWithout(b), HashWithout(b))

(* BufWrite(pBuf, d, BLOCK_SIZE).  A buffer on no list makes it fail.      *)
BufWrite(d) ==
  /\ ~syncing /\ pBuf # NULL
  /\ Deletable(pBuf)
  /\ mem' = [mem EXCEPT ![pBuf] = d]
  /\ BufInsert(pBuf, blkno[pBuf], "dirty", ListWithout(pBuf), HashWithout(pBuf))
  /\ UNCHANGED <<disk, pBuf, syncing, pWalker>>

(* A client that writes into pMem, then calls BufDelete and BufInsert and  *)
(* does not look at what BufDelete returned.                               *)
WriteInPlace(d) ==
  /\ ~syncing /\ pBuf # NULL
  /\ mem' = [mem EXCEPT ![pBuf] = d]
  /\ \/ /\ Deletable(pBuf)
        /\ BufInsert(pBuf, blkno[pBuf], "dirty",
                     ListWithout(pBuf), HashWithout(pBuf))
     \/ /\ ~Deletable(pBuf)
        /\ BufInsert(pBuf, blkno[pBuf], "dirty", list, hash)
  /\ UNCHANGED <<disk, pBuf, syncing, pWalker>>

-----------------------------------------------------------------------------
(* BufSync walks the Dirty list.  It reads the link of a buffer before it  *)
(* moves that buffer to Clean.                                             *)
(* Faulty: an empty list has no null pointer for its first buffer; the      *)
(* link of a buffer is read once it is at the tail of Clean; or is not read. *)
FirstOrInvalid(s) == IF s = << >> THEN INVALID ELSE Head(s)
AfterMove(s, b)   == NULL
SameAgain(s, b)   == b

FirstOf(s)   == IF s = << >> THEN NULL ELSE Head(s)
After(s, b)  == LET i == Position(s, b)
                IN  IF i = Len(s) THEN NULL ELSE s[i + 1]

BufSync ==
  /\ ~syncing
  /\ syncing' = TRUE
  /\ pWalker' = FirstOf(list["dirty"])
  /\ UNCHANGED <<disk, blkno, state, mem, list, hash, pBuf>>

BufSyncOne ==
  /\ syncing /\ pWalker # NULL
  /\ DevWriteBlock(blkno[pWalker], mem[pWalker])
  /\ BufInsert(pWalker, blkno[pWalker], "clean",
               ListWithout(pWalker), HashWithout(pWalker))
  /\ pWalker' = After(list["dirty"], pWalker)
  /\ UNCHANGED <<mem, pBuf, syncing>>

BufSyncReturn ==
  /\ syncing /\ pWalker = NULL
  /\ syncing' = FALSE
  /\ UNCHANGED <<disk, blkno, state, mem, list, hash, pBuf, pWalker>>

(* The process dies (or is killed) and is started again on the same image. *)
Crash ==
  /\ blkno' = [b \in Buf |-> INVALID]
  /\ state' = [b \in Buf |-> "wrong"]
  /\ mem'   = [b \in Buf |-> Zero]
  /\ list'  = NewPool
  /\ hash'  = [i \in Index |-> {}]
  /\ pBuf'  = NULL
  /\ syncing' = FALSE
  /\ pWalker' = NULL
  /\ UNCHANGED disk

Next ==
  \/ \E n \in CallNo :
       BufReadHit(n) \/ BufReadFree(n) \/ BufReadClean(n) \/ BufReadDirty(n)
  \/ \E d \in Data : BufWrite(d) \/ WriteInPlace(d)
  \/ BufSync \/ BufSyncOne \/ BufSyncReturn
  \/ Crash

Spec == Init /\ [][Next]_vars

(* BufSync is a plain loop with no wait in it: once called it runs on.     *)
FairSpec == Spec /\ WF_vars(BufSyncOne) /\ WF_vars(BufSyncReturn)

-----------------------------------------------------------------------------
(* No buffer is linked twice: not on one list, not on two.                 *)
ListsDisjoint ==
  /\ \A l \in ListName : IsInjective(list[l])
  /\ \A l, m \in ListName : l # m => ToSet(list[l]) \cap ToSet(list[m]) = {}

(* The hash table holds exactly the buffers of Clean and Dirty, each in    *)
(* the chain of its number, and the state of a buffer names its list.      *)
HashAgrees ==
  /\ \A i \in Index :
       hash[i] = {b \in Cached : blkno[b] % HashSize = i}
  /\ \A l \in {"clean", "dirty"} : \A b \in ToSet(list[l]) : state[b] = l
  /\ \A b \in Cached : blkno[b] \in Block

(* A block is never in two buffers, where an update of one would miss the  *)
(* other.                                                                  *)
OneBufferPerBlock ==
  \A b, c \in Cached : blkno[b] = blkno[c] => b = c

(* A buffer on Clean holds what the disk holds, so dropping it is safe.    *)
CleanIsOnDisk ==
  \A b \in ToSet(list["clean"]) : mem[b] = disk[blkno[b]]

(* Every buffer Init() allocated is still on a list.                       *)
PoolWhole == OnList = Buf

(* "Clean and Dirty are never both empty: with nothing on the two, there   *)
(* is a buffer on Free" (comment in BufGetNewBuffer, buf.c:95-96).         *)
SomeBufferLeft == OnList # {}

(* A buffer leaves the lists only through a BufRead(-1), which hands it out *)
(* and never takes it back.                                                *)
LostOnlyByInvalidRead ==
  [][\/ OnList \subseteq OnList'
     \/ pBuf' # NULL /\ blkno'[pBuf'] = INVALID]_vars

(* BufSync returns: it does not loop on buffers it has moved already.      *)
SyncReturns == syncing ~> ~syncing

-----------------------------------------------------------------------------
(* The refinement: block n holds what its buffer holds, and what the disk  *)
(* holds when it has none.                                                 *)
BufferOf(n) == CHOOSE b \in Cached : blkno[b] = n
IsCached(n) == \E b \in Cached : blkno[b] = n
Content     == [n \in Block |-> IF IsCached(n) THEN mem[BufferOf(n)]
                                              ELSE disk[n]]
Cur         == IF pBuf \in Cached THEN blkno[pBuf] ELSE INVALID

Abstract == INSTANCE BlockStore WITH content <- Content, durable <- disk,
                                     cur <- Cur, Nowhere <- INVALID

(* The cache behaves as a store of blocks: a fetched block holds what was  *)
(* last stored in it, the disk never holds anything else than a value the  *)
(* block had, and BufSync returns with everything on the disk.             *)
ImplementsBlockStore == Abstract!Spec
=============================================================================

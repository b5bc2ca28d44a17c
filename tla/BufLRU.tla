------------------------------- MODULE BufLRU -------------------------------
(***************************************************************************)
(* The replacement order of the buffer cache.  A history variable records  *)
(* for each cached block which of them were used since it was; the lists   *)
(* of BufCache keep no such record, only the order of their links.         *)
(***************************************************************************)
EXTENDS BufCache

VARIABLES since,   \* since[n]: the cached blocks used after cached block n
          synced   \* TRUE once BufSync has moved a buffer

lruVars == <<vars, since, synced>>

(* The blocks in the cache.                                                *)
CachedNo == {blkno[b] : b \in Cached}

LruInit == Init /\ since = << >> /\ synced = FALSE

(* The client uses block n: n becomes the most recent of what is cached,   *)
(* which the block -1 never is.                                            *)
Use(n) ==
  since' = [m \in CachedNo' |-> IF m = n THEN {} ELSE (since[m] \cup {n}) \cap CachedNo']

LruNext ==
  \/ /\ \E n \in CallNo : /\ \/ BufReadHit(n) \/ BufReadFree(n)
                             \/ BufReadClean(n) \/ BufReadDirty(n)
                          /\ Use(n)
     /\ UNCHANGED synced
  \/ /\ \E d \in Data : BufWrite(d) \/ WriteInPlace(d)
     /\ Use(blkno[pBuf])
     /\ UNCHANGED synced
  \/ /\ BufSync \/ BufSyncReturn
     /\ UNCHANGED <<since, synced>>
  \/ BufSyncOne /\ synced' = TRUE /\ UNCHANGED since
  \/ Crash /\ since' = << >> /\ synced' = FALSE

LruSpec == LruInit /\ [][LruNext]_lruVars

(* With the fairness of BufCache.                                          *)
LruFairSpec == LruSpec /\ WF_vars(BufSyncOne) /\ WF_vars(BufSyncReturn)

-----------------------------------------------------------------------------
UsedBefore(m, n) == n \in since[m]

InLruOrder(s) ==
  \A i, j \in 1 .. Len(s) : i < j => UsedBefore(blkno[s[i]], blkno[s[j]])

(* Both lists are ordered by last use, so that the head of a list is the   *)
(* buffer LRU replaces ("LRU(Least Recently Used)", buf.c:57): Dirty       *)
(* always, Clean as long as BufSync has not merged Dirty into it.          *)
ListsInLruOrder ==
  /\ InLruOrder(list["dirty"])
  /\ ~synced => InLruOrder(list["clean"])

(* The blocks a step takes out of the cache, other than by a crash.        *)
Evicted == IF pBuf' = NULL THEN {} ELSE CachedNo \ CachedNo'

OldestOf(l, n) ==
  \A b \in ToSet(list[l]) : blkno[b] # n => UsedBefore(n, blkno[b])

(* A buffer that is evicted is the least recently used of its list, and a  *)
(* dirty one is evicted only when there is no clean one.                   *)
EvictsOldestOfList ==
  [][\A n \in Evicted :
       IF state[BufferOf(n)] = "dirty"
       THEN list["clean"] = << >> /\ OldestOf("dirty", n)
       ELSE synced \/ OldestOf("clean", n)]_lruVars
=============================================================================

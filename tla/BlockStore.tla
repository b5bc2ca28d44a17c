----------------------------- MODULE BlockStore -----------------------------
(***************************************************************************)
(* What the buffer cache of FSinside promises the file system above it: a  *)
(* store of numbered blocks in which a block read back holds what was last *)
(* written to it, and which becomes durable when BufSync returns.          *)
(*                                                                         *)
(* The abstraction keeps two copies of the disk: the one the running       *)
(* program sees and the one a crash would leave behind.  BufCache.tla      *)
(* implements this module.                                                 *)
(***************************************************************************)
CONSTANTS Block,    \* the block numbers of the disk
          Data,     \* what a block can hold
          Nowhere   \* where a client is that holds no block (none of Block)

VARIABLES content,  \* content[n]: what the program reads from block n
          durable,  \* durable[n]: what the disk holds of block n
          cur,      \* the block the client fetched last
          syncing   \* TRUE while BufSync is running

vars == <<content, durable, cur, syncing>>

TypeOK ==
  /\ content \in [Block -> Data]
  /\ durable \in [Block -> Data]
  /\ cur \in Block \cup {Nowhere}
  /\ syncing \in BOOLEAN

Init ==
  /\ durable \in [Block -> Data]
  /\ content = durable
  /\ cur = Nowhere
  /\ syncing = FALSE

(* A fetch may have to make room, which makes one other block durable.     *)
WriteBackOne ==
  \/ UNCHANGED durable
  \/ \E m \in Block : durable' = [durable EXCEPT ![m] = content[m]]

Fetch(n) ==
  /\ ~syncing
  /\ WriteBackOne
  /\ cur' = n
  /\ UNCHANGED <<content, syncing>>

Store(d) ==
  /\ ~syncing /\ cur \in Block
  /\ content' = [content EXCEPT ![cur] = d]
  /\ UNCHANGED <<durable, cur, syncing>>

BeginSync ==
  /\ ~syncing
  /\ syncing' = TRUE
  /\ UNCHANGED <<content, durable, cur>>

SyncOne ==
  /\ syncing
  /\ \E m \in Block : durable' = [durable EXCEPT ![m] = content[m]]
  /\ UNCHANGED <<content, cur, syncing>>

(* BufSync returns only when nothing is left that a crash could lose.      *)
EndSync ==
  /\ syncing /\ durable = content
  /\ syncing' = FALSE
  /\ UNCHANGED <<content, durable, cur>>

(* The process dies: only what is durable survives.                        *)
Crash ==
  /\ content' = durable
  /\ cur' = Nowhere
  /\ syncing' = FALSE
  /\ UNCHANGED durable

Next ==
  \/ \E n \in Block \cup {Nowhere} : Fetch(n)
  \/ \E d \in Data : Store(d)
  \/ BeginSync \/ SyncOne \/ EndSync
  \/ Crash

Spec == Init /\ [][Next]_vars
=============================================================================

----------------------------- MODULE BlockAlloc -----------------------------
(***************************************************************************)
(* The block allocator of FSinside (fsinside/net/fs.c): a bitmap in which  *)
(* a 1 is a free block, two counters in the super block, and the protocol  *)
(* its callers follow: GetFreeBlock() names the first free block and       *)
(* SetBlockFreeToAlloc(), a second call, takes the first free block.  The  *)
(* inode allocator is the same code with Start = 0.                        *)
(*                                                                         *)
(* No lock is held anywhere, and FUSE runs its handlers in threads: each   *)
(* access to the bitmap or to the counters is a step.  An increment of a   *)
(* counter is one step here, which is coarser than the build.              *)
(***************************************************************************)
EXTENDS Integers, FiniteSets

CONSTANTS Thread,   \* the threads that run file-system handlers
          Slot,     \* the i_block entries of the inodes
          NBlk,     \* s_ndatablk: how many data blocks the disk has
          NBit,     \* how many bits s_dbitmap_size blocks of bitmap hold
          Start     \* s_datablk_start: the number of the first data block

WRONG == -1         \* WRONG_VALUE
NONE  == -2         \* an i_block entry at or beyond i_nblk

ASSUME DiskAssumption  == NBlk \in Nat \ {0} /\ NBit \in Nat /\ NBlk <= NBit
ASSUME StartAssumption == Start \in Nat

Bit  == 0 .. NBit - 1
Used == 0 .. NBlk - 1     \* the bits that stand for a block of the disk

VARIABLES free,   \* s_dbitmap_ptr: the bits that are 1
          nuse,   \* s_nblk_use
          nfree,  \* s_nblk_free
          slot,   \* slot[s]: the block an inode records in entry s
          pc,     \* pc[h]: where handler h is
          mine,   \* mine[h]: the entry h is working on
          got,    \* got[h]: what GetFreeBlock() returned to h
          bit     \* bit[h]: the bitLocation of SetFreeToAlloc()

allocVars == <<free, nuse, nfree, slot, pc, mine, got, bit>>

Place  == {"idle", "scan", "got", "inc", "locate", "flip", "clear", "dec"}
Number == Start - 1 .. Start + NBit - 1   \* what Start + GetFreeEntry() can be

AllocTypeOK ==
  /\ free \subseteq Bit
  /\ nuse \in 0 .. NBlk /\ nfree \in 0 .. NBlk
  /\ slot \in [Slot -> Number \cup {WRONG, NONE}]
  /\ pc \in [Thread -> Place]
  /\ mine \in [Thread -> Slot]
  /\ got \in [Thread -> Number \cup {WRONG}]
  /\ bit \in [Thread -> Bit]

(* A formatted disk: every bit set, no block used.                         *)
AllocInit ==
  /\ free  = Bit
  /\ nuse  = 0
  /\ nfree = NBlk
  /\ slot  = [s \in Slot |-> NONE]
  /\ pc    = [h \in Thread |-> "idle"]
  /\ mine  \in [Thread -> Slot]
  /\ got   = [h \in Thread |-> WRONG]
  /\ bit   = [h \in Thread |-> 0]

-----------------------------------------------------------------------------
(* Faulty: the scan starts at bit 1; the bit of a block is one too high.   *)
ScanFromOne   == IF free \ {0} = {} THEN WRONG
                 ELSE CHOOSE b \in free \ {0} : \A c \in free \ {0} : b <= c
NextBit(b)    == b - Start + 1

(* GetFreeEntry(): the first bit that is 1.                                *)
GetFreeEntry == IF free = {} THEN WRONG
                ELSE CHOOSE b \in free : \A c \in free : b <= c

BitOf(b)  == b - Start
Toggle(b) == IF b \in free THEN free \ {b} ELSE free \cup {b}     \* ^=

Goto(h, p) == pc' = [pc EXCEPT ![h] = p]

(* The handler is done: the inode records block b in its entry.            *)
Record(h, b) ==
  /\ slot' = [slot EXCEPT ![mine[h]] = b]
  /\ Goto(h, "idle")

(* GetFreeBlock() looks at the counter ...                                 *)
GetFreeBlock(h, s) ==
  /\ pc[h] = "idle" /\ slot[s] = NONE
  /\ \A g \in Thread : pc[g] # "idle" => mine[g] # s
  /\ mine' = [mine EXCEPT ![h] = s]
  /\ \/ nfree = 0 /\ got' = [got EXCEPT ![h] = WRONG] /\ Goto(h, "got")
     \/ nfree # 0 /\ UNCHANGED got /\ Goto(h, "scan")
  /\ UNCHANGED <<free, nuse, nfree, slot, bit>>

(* ... and then at the bitmap.                                             *)
Scan(h) ==
  /\ pc[h] = "scan"
  /\ got' = [got EXCEPT ![h] = Start + GetFreeEntry]
  /\ Goto(h, "got")
  /\ UNCHANGED <<free, nuse, nfree, slot, mine, bit>>

(* tiny_write and tiny_truncate stop at a negative number.  __create_file  *)
(* and MakeDirentry do not look at it: they go on below.                   *)
Stop(h) ==
  /\ pc[h] = "got" /\ got[h] < 0
  /\ Goto(h, "idle")
  /\ UNCHANGED <<free, nuse, nfree, slot, mine, got, bit>>

(* SetBlockFreeToAlloc(), whose result no caller looks at.                 *)
SetBlockFreeToAlloc(h) ==
  /\ pc[h] = "got"
  /\ \/ nfree = 0 /\ Record(h, got[h])
     \/ nfree # 0 /\ Goto(h, "inc") /\ UNCHANGED slot
  /\ UNCHANGED <<free, nuse, nfree, mine, got, bit>>

IncUseBlock(h) ==
  /\ pc[h] = "inc"
  /\ nuse'  = IF 0 < nfree THEN nuse + 1 ELSE nuse
  /\ nfree' = IF 0 < nfree THEN nfree - 1 ELSE nfree
  /\ Goto(h, "locate")
  /\ UNCHANGED <<free, slot, mine, got, bit>>

(* SetFreeToAlloc() looks for the first free bit again ...  Its caller     *)
(* passes a size in blocks that it multiplies by BLOCK_SIZE twice: with no *)
(* bit set in the bitmap it goes on into the memory behind it, where it    *)
(* finds none or toggles one that is nobody's block.                       *)
Locate(h) ==
  /\ pc[h] = "locate"
  /\ IF GetFreeEntry = WRONG
     THEN Record(h, got[h]) /\ UNCHANGED bit
     ELSE bit' = [bit EXCEPT ![h] = GetFreeEntry] /\ Goto(h, "flip")
                                                  /\ UNCHANGED slot
  /\ UNCHANGED <<free, nuse, nfree, mine, got>>

(* ... and toggles it.                                                     *)
Flip(h) ==
  /\ pc[h] = "flip"
  /\ free' = Toggle(bit[h])
  /\ Record(h, got[h])
  /\ UNCHANGED <<nuse, nfree, mine, got, bit>>

(* Faulty: the first block of the data region is taken for an invalid one. *)
RejectsFirst(b) == nuse = 0 \/ b <= Start \/ BitOf(b) \in free

(* SetBlockAllocToFree(b) rejects a number below the region, or a free     *)
(* block.                                                                  *)
Rejects(b) == nuse = 0 \/ b < Start \/ BitOf(b) \in free

SetBlockAllocToFree(h, s) ==
  /\ pc[h] = "idle" /\ slot[s] # NONE
  /\ \A g \in Thread : pc[g] # "idle" => mine[g] # s
  /\ mine' = [mine EXCEPT ![h] = s]
  /\ \/ Rejects(slot[s]) /\ slot' = [slot EXCEPT ![s] = NONE] /\ UNCHANGED pc
     \/ ~Rejects(slot[s]) /\ UNCHANGED slot /\ Goto(h, "clear")
  /\ UNCHANGED <<free, nuse, nfree, got, bit>>

Clear(h) ==
  /\ pc[h] = "clear"
  /\ free' = Toggle(BitOf(slot[mine[h]]))
  /\ Goto(h, "dec")
  /\ UNCHANGED <<nuse, nfree, slot, mine, got, bit>>

DecUseBlock(h) ==
  /\ pc[h] = "dec"
  /\ nuse'  = IF 0 < nuse THEN nuse - 1 ELSE nuse
  /\ nfree' = IF 0 < nuse THEN nfree + 1 ELSE nfree
  /\ Record(h, NONE)
  /\ UNCHANGED <<free, mine, got, bit>>

AllocNext ==
  \E h \in Thread :
    \/ \E s \in Slot : GetFreeBlock(h, s) \/ SetBlockAllocToFree(h, s)
    \/ Scan(h) \/ Stop(h)
    \/ SetBlockFreeToAlloc(h) \/ IncUseBlock(h) \/ Locate(h) \/ Flip(h)
    \/ Clear(h) \/ DecUseBlock(h)

AllocSpec == AllocInit /\ [][AllocNext]_allocVars

-----------------------------------------------------------------------------
Held == {s \in Slot : slot[s] >= 0}
AtRest == \A h \in Thread : pc[h] = "idle"

(* The counters of the super block, which the monitor shows and which are  *)
(* all that stops an allocation on a full disk, count the bitmap.          *)
CountersAgree ==
  AtRest => /\ nfree = Cardinality(free \cap Used)
            /\ nuse = NBlk - nfree

(* A block is recorded in one place only, is a block of the disk, and is   *)
(* not free: no two files write into each other.                           *)
OneOwner ==
  /\ \A s, t \in Held : slot[s] = slot[t] => s = t
  /\ \A s \in Held : BitOf(slot[s]) \in Used
  /\ \A s \in Held : (\A h \in Thread : pc[h] = "idle" \/ mine[h] # s)
                       => BitOf(slot[s]) \notin free

(* Every block in use is recorded somewhere: unlinking every file gives    *)
(* the whole disk back.                                                    *)
NoLeak == AtRest => Bit \ free = {BitOf(slot[s]) : s \in Held}

(* Both: the counters, the bitmap and what is recorded tell the same.      *)
Accounted == CountersAgree /\ NoLeak

(* "The bit is changed to in use (0)" (postcondition of SetFreeToAlloc,    *)
(* fs.c:44).                                                               *)
SetLeavesInUse ==
  [][\A h \in Thread : pc[h] = "flip" /\ pc'[h] = "idle"
                          => bit[h] \notin free']_allocVars
=============================================================================

----------------------------- MODULE ThreadProofs -----------------------------
(* What threads do to the state they share.  First BlockAlloc with one        *)
(* handler at a time, as under FUSE's option -s: the counters count, no block *)
(* has two owners and none is lost, for every size of disk and every number   *)
(* of i_block entries.  Then MonitorQueue for any number of handlers, kinds   *)
(* and sizes, and for either receiver: the state has its type, and the two    *)
(* halves of a pair are only ever parted in the ways that set torn.  Then     *)
(* Screen for any number of reports and any size of the menus: what the       *)
(* threads of the monitor do to each other around curses_mutex.               *)
EXTENDS BlockAlloc, MonitorQueue, Screen, SequenceTheorems, FiniteSetTheorems,
        WellFoundedInduction, TLAPS

-----------------------------------------------------------------------------
(* Every nonempty set of bits has a first one.                              *)
LEMMA FirstBit ==
  ASSUME NEW S \in SUBSET Bit, S # {}
  PROVE  \E b \in S : \A c \in S : b <= c
  <1> DEFINE R == {ss \in Nat \X Nat : ss[1] < ss[2]}
  <1>1. IsWellFoundedOn(R, Nat)
    BY NatLessThanWellFounded DEF OpToRel
  <1>2. S \subseteq Nat
    BY DiskAssumption DEF Bit
  <1>3. PICK b \in S : \A c \in S : ~(<<c, b>> \in R)
    <2> HIDE DEF R
    <2> QED BY <1>1, <1>2, WFMin
  <1>4. ASSUME NEW c \in S PROVE b <= c
    <2>1. c \in Nat /\ b \in Nat
      BY <1>2
    <2>2. <<c, b>> \in Nat \X Nat /\ ~(<<c, b>> \in R)
      BY <2>1, <1>3
    <2>3. ~(c < b)
      BY <2>2
    <2> QED BY <2>1, <2>3
  <1> QED BY <1>4

(* As long as a block of the disk is free, GetFreeEntry() names one: first  *)
(* fit prefers it to the bits beyond the disk.                              *)
LEMMA FirstFit ==
  ASSUME free \subseteq Bit, free \cap Used # {}
  PROVE  GetFreeEntry \in free \cap Used
  <1>1. free # {} /\ \E b \in free : \A c \in free : b <= c
    BY FirstBit
  <1>2. GetFreeEntry \in free /\ \A c \in free : GetFreeEntry <= c
    BY <1>1 DEF GetFreeEntry
  <1>3. PICK c \in free : c \in Used
    OBVIOUS
  <1>4. GetFreeEntry <= c /\ c <= NBlk - 1 /\ GetFreeEntry \in Nat
    BY <1>2, <1>3, DiskAssumption DEF Used, Bit
  <1> QED BY <1>2, <1>4, <1>3, DiskAssumption DEF Used, Bit

(* The blocks of the disk are finitely many.                                *)
LEMMA UsedFinite ==
  IsFiniteSet(Used) /\ Cardinality(Used) = NBlk
  BY FS_Interval, DiskAssumption DEF Used

(* Toggling a bit changes the count of the free blocks by one.              *)
LEMMA ToggleCount ==
  ASSUME NEW S \in SUBSET Bit, NEW b \in Used
  PROVE  /\ b \in S => Cardinality((S \ {b}) \cap Used)
                         = Cardinality(S \cap Used) - 1
         /\ b \notin S => Cardinality((S \cup {b}) \cap Used)
                            = Cardinality(S \cap Used) + 1
         /\ Cardinality(S \cap Used) \in 0 .. NBlk
  <1>1. IsFiniteSet(S \cap Used) /\ Cardinality(S \cap Used) \in 0 .. NBlk
    <2>1. S \cap Used \in SUBSET Used
      OBVIOUS
    <2>2. IsFiniteSet(S \cap Used) /\ Cardinality(S \cap Used) <= NBlk
      BY <2>1, UsedFinite, FS_Subset
    <2> QED BY <2>2, FS_CardinalityType, DiskAssumption
  <1>2. (S \ {b}) \cap Used = (S \cap Used) \ {b}
    OBVIOUS
  <1>3. (S \cup {b}) \cap Used = (S \cap Used) \cup {b}
    OBVIOUS
  <1>4. b \in S => Cardinality((S \cap Used) \ {b}) = Cardinality(S \cap Used) - 1
    BY <1>1, FS_RemoveElement
  <1>5. b \notin S =>
          Cardinality((S \cap Used) \cup {b}) = Cardinality(S \cap Used) + 1
    BY <1>1, FS_AddElement
  <1> QED BY <1>1, <1>2, <1>3, <1>4, <1>5

-----------------------------------------------------------------------------
(* The inductive invariant of the one handler h.  Between the two halves of *)
(* an allocation or a release the counters are one ahead of the bitmap, and *)
(* the entry h works on is empty or holds a block already given back.       *)
Ahead(h) == IF pc[h] \in {"locate", "flip", "dec"} THEN 1 ELSE 0

Counted(h) ==
  /\ nfree + Ahead(h) = Cardinality(free \cap Used)
  /\ nuse = NBlk - nfree
  /\ Bit \ Used \subseteq free

(* The entries whose block is in use.                                       *)
InUse(h) == {s \in Slot : slot[s] >= 0 /\ ~(pc[h] = "dec" /\ s = mine[h])}

Owned(h) ==
  /\ \A s, t \in Held : slot[s] = slot[t] => s = t
  /\ \A s \in Held : BitOf(slot[s]) \in Used
  /\ \A b \in Used : b \notin free <=> \E s \in InUse(h) : BitOf(slot[s]) = b

Working(h) ==
  /\ pc[h] \in {"scan", "got", "inc", "locate", "flip"} => slot[mine[h]] = NONE
  /\ pc[h] \in {"scan", "inc"} => nfree # 0
  /\ pc[h] = "got" => \/ nfree = 0 /\ got[h] = WRONG
                      \/ nfree # 0 /\ got[h] = Start + GetFreeEntry
  /\ pc[h] \in {"inc", "locate", "flip"} => got[h] = Start + GetFreeEntry
  /\ pc[h] = "flip" => bit[h] = GetFreeEntry
  /\ pc[h] \in {"clear", "dec"} => slot[mine[h]] >= 0 /\ nuse # 0
  /\ pc[h] = "dec" => BitOf(slot[mine[h]]) \in free

AllocInv(h) == AllocTypeOK /\ Counted(h) /\ Owned(h) /\ Working(h)

(* A formatted disk satisfies it.                                           *)
LEMMA AllocInvStarts ==
  ASSUME NEW h, Thread = {h}
  PROVE  AllocInit => AllocInv(h)
  <1> SUFFICES ASSUME AllocInit PROVE AllocInv(h)
    OBVIOUS
  <1>1. Bit \cap Used = Used /\ 0 \in Bit
    BY DiskAssumption DEF Bit, Used
  <1>2. AllocTypeOK
    BY <1>1, DiskAssumption DEF AllocInit, AllocTypeOK, Place
  <1>3. Counted(h)
    BY <1>1, UsedFinite, DiskAssumption DEF AllocInit, Counted, Ahead
  <1>4. Owned(h) /\ Working(h)
    BY <1>1 DEF AllocInit, Owned, Working, Held, InUse, NONE
  <1> QED BY <1>2, <1>3, <1>4 DEF AllocInv

(* What the invariant says of the bitmap when the counter is not zero.      *)
LEMMA SomeFree ==
  ASSUME NEW h \in Thread, AllocInv(h), nfree + Ahead(h) # 0
  PROVE  GetFreeEntry \in free \cap Used
  <1>1. Cardinality(free \cap Used) # 0
    BY DEF AllocInv, Counted
  <1>2. free \cap Used # {}
    BY <1>1, FS_EmptySet
  <1> QED BY <1>2, FirstFit DEF AllocInv, AllocTypeOK

(* GetFreeBlock() and its scan change nothing but h's own variables.        *)
LEMMA GetInv ==
  ASSUME NEW h, Thread = {h}, AllocInv(h),
         NEW s \in Slot, GetFreeBlock(h, s)
  PROVE  AllocInv(h)'
  <1> USE DEF GetFreeBlock, Goto
  <1>1. /\ pc[h] = "idle" /\ slot[s] = NONE /\ mine' = [mine EXCEPT ![h] = s]
        /\ pc'[h] \in {"got", "scan"}
        /\ UNCHANGED <<free, nuse, nfree, slot, bit>>
    BY DEF AllocInv, AllocTypeOK
  <1>2. AllocTypeOK'
    BY DEF AllocInv, AllocTypeOK, Place
  <1>3. Counted(h)'
    BY <1>1 DEF AllocInv, Counted, Ahead
  <1>4. Owned(h)'
    BY <1>1 DEF AllocInv, Owned, Held, InUse, BitOf
  <1>5. Working(h)'
    BY <1>1 DEF AllocInv, AllocTypeOK, Working, GetFreeEntry, BitOf
  <1> QED BY <1>2, <1>3, <1>4, <1>5 DEF AllocInv

(* The scan finds a block of the disk.                                      *)
LEMMA ScanInv ==
  ASSUME NEW h, Thread = {h}, AllocInv(h), Scan(h)
  PROVE  AllocInv(h)'
  <1> USE DEF Scan, Goto
  <1>1. nfree # 0 /\ nfree \in Nat
    BY DEF AllocInv, AllocTypeOK, Working
  <1>2. GetFreeEntry \in Used
    BY <1>1, SomeFree DEF Ahead
  <1>3. AllocTypeOK'
    BY <1>2, DiskAssumption, StartAssumption
       DEF AllocInv, AllocTypeOK, Place, Used, Number
  <1>4. Counted(h)' /\ Owned(h)'
    BY DEF AllocInv, AllocTypeOK, Counted, Ahead, Owned, Held, InUse, BitOf
  <1>5. Working(h)'
    BY <1>1 DEF AllocInv, AllocTypeOK, Working, GetFreeEntry, BitOf
  <1> QED BY <1>3, <1>4, <1>5 DEF AllocInv

(* A caller that stops has recorded nothing.                                *)
LEMMA StopInv ==
  ASSUME NEW h, Thread = {h}, AllocInv(h), Stop(h)
  PROVE  AllocInv(h)'
  BY DEF Stop, Goto, AllocInv, AllocTypeOK, Place, Counted, Ahead, Owned, Held, InUse,
         BitOf, Working

(* On a full disk the caller that goes on records WRONG_VALUE.              *)
LEMMA SetInv ==
  ASSUME NEW h, Thread = {h}, AllocInv(h), SetBlockFreeToAlloc(h)
  PROVE  AllocInv(h)'
  <1> USE DEF SetBlockFreeToAlloc, Goto
  <1>1. CASE nfree = 0 /\ Record(h, got[h])
    <2>1. got[h] = WRONG /\ slot[mine[h]] = NONE /\ mine[h] \in Slot
      BY <1>1 DEF AllocInv, AllocTypeOK, Working
    <2>2. /\ slot' = [slot EXCEPT ![mine[h]] = WRONG]
          /\ pc' = [pc EXCEPT ![h] = "idle"]
      BY <1>1, <2>1 DEF Record
    <2>3. AllocTypeOK'
      BY <2>1, <2>2 DEF AllocInv, AllocTypeOK, Place
    <2>4. Counted(h)'
      BY <2>2 DEF AllocInv, AllocTypeOK, Counted, Ahead
    <2>5. \A s \in Slot : /\ s # mine[h] => slot'[s] = slot[s]
                          /\ s = mine[h] => slot'[s] = -1 /\ slot[s] = -2
      BY <2>1, <2>2 DEF AllocInv, AllocTypeOK, WRONG, NONE
    <2>6. Held' = Held /\ InUse(h)' = InUse(h) /\ mine[h] \notin Held
      BY <2>2, <2>5 DEF Held, InUse, AllocInv, AllocTypeOK
    <2>7. Owned(h)'
      BY <2>5, <2>6 DEF AllocInv, Owned, Held, InUse, BitOf
    <2>8. Working(h)'
      BY <2>2 DEF AllocInv, AllocTypeOK, Working
    <2> QED BY <2>3, <2>4, <2>7, <2>8 DEF AllocInv
  <1>2. CASE nfree # 0 /\ pc' = [pc EXCEPT ![h] = "inc"] /\ UNCHANGED slot
    BY <1>2 DEF AllocInv, AllocTypeOK, Place, Counted, Ahead, Owned, Held, InUse,
                BitOf, Working, GetFreeEntry
  <1> QED BY <1>1, <1>2

(* The counters move first ...                                              *)
LEMMA IncInv ==
  ASSUME NEW h, Thread = {h}, AllocInv(h), IncUseBlock(h)
  PROVE  AllocInv(h)'
  <1> USE DEF IncUseBlock, Goto
  <1>1. nfree \in 1 .. NBlk /\ nuse = NBlk - nfree /\ NBlk \in Nat
    BY DiskAssumption DEF AllocInv, AllocTypeOK, Working, Counted
  <1>2. nuse' = nuse + 1 /\ nfree' = nfree - 1
    BY <1>1
  <1>3. AllocTypeOK'
    BY <1>1, <1>2 DEF AllocInv, AllocTypeOK, Place
  <1>4. Counted(h)'
    BY <1>1, <1>2 DEF AllocInv, AllocTypeOK, Counted, Ahead
  <1>5. Owned(h)' /\ Working(h)'
    BY DEF AllocInv, AllocTypeOK, Owned, Held, InUse, BitOf, Working, GetFreeEntry
  <1> QED BY <1>3, <1>4, <1>5 DEF AllocInv

(* ... then the same bit is found again ...                                 *)
LEMMA LocateInv ==
  ASSUME NEW h, Thread = {h}, AllocInv(h), Locate(h)
  PROVE  AllocInv(h)'
  <1> USE DEF Locate, Goto
  <1>1. GetFreeEntry \in Used /\ GetFreeEntry # WRONG /\ GetFreeEntry \in Bit
    <2>1. nfree \in Nat /\ nfree + 1 # 0 /\ Ahead(h) = 1
      BY DEF AllocInv, AllocTypeOK, Ahead
    <2>2. GetFreeEntry \in free \cap Used
      BY <2>1, SomeFree
    <2> QED BY <2>2 DEF Used, WRONG, AllocInv, AllocTypeOK
  <1>2. bit' = [bit EXCEPT ![h] = GetFreeEntry] /\ slot' = slot
        /\ pc' = [pc EXCEPT ![h] = "flip"]
    BY <1>1
  <1>3. AllocTypeOK'
    BY <1>1, <1>2 DEF AllocInv, AllocTypeOK, Place
  <1>4. Counted(h)' /\ Owned(h)' /\ Working(h)'
    BY <1>2 DEF AllocInv, AllocTypeOK, Counted, Ahead, Owned, Held, InUse, BitOf,
                Working, GetFreeEntry
  <1> QED BY <1>3, <1>4 DEF AllocInv

(* ... and taken, and the inode records the block it stands for.            *)
LEMMA FlipInv ==
  ASSUME NEW h, Thread = {h}, AllocInv(h), Flip(h)
  PROVE  AllocInv(h)'
  <1> DEFINE b == bit[h]
             m == mine[h]
  <1>1. /\ pc[h] = "flip" /\ free' = Toggle(b)
        /\ slot' = [slot EXCEPT ![m] = got[h]]
        /\ pc' = [pc EXCEPT ![h] = "idle"]
        /\ UNCHANGED <<nuse, nfree, mine, got, bit>>
    BY DEF Flip, Record, Goto
  <1>2. b \in free \cap Used /\ got[h] = Start + b
    <2>1. nfree \in Nat /\ nfree + 1 # 0 /\ Ahead(h) = 1
      BY <1>1 DEF AllocInv, AllocTypeOK, Ahead
    <2> QED BY <2>1, <1>1, SomeFree DEF AllocInv, Working
  <1>3. free' = free \ {b}
    BY <1>1, <1>2 DEF Toggle
  <1>4. /\ BitOf(got[h]) = b /\ got[h] >= 0 /\ got[h] \in Number
        /\ m \in Slot /\ slot[m] = -2 /\ NBlk \in Nat
    BY <1>1, <1>2, DiskAssumption, StartAssumption
       DEF AllocInv, AllocTypeOK, Working, BitOf, Used, Number, NONE
  <1>5. AllocTypeOK'
    BY <1>1, <1>3, <1>4 DEF AllocInv, AllocTypeOK, Place
  <1>6. Counted(h)'
    <2>1. Cardinality((free \ {b}) \cap Used) = Cardinality(free \cap Used) - 1
      BY <1>2, ToggleCount DEF AllocInv, AllocTypeOK
    <2>2. nfree + 1 = Cardinality(free \cap Used) /\ nfree \in Nat
      BY <1>1 DEF AllocInv, AllocTypeOK, Counted, Ahead
    <2>3. Ahead(h)' = 0
      BY <1>1 DEF Ahead, AllocInv, AllocTypeOK
    <2> QED BY <1>1, <1>2, <1>3, <2>1, <2>2, <2>3 DEF AllocInv, Counted
  <1>7. /\ \A s \in Slot : s # m => slot'[s] = slot[s]
        /\ slot'[m] = got[h]
    BY <1>1, <1>4 DEF AllocInv, AllocTypeOK
  <1>8. Held' = Held \cup {m} /\ m \notin Held /\ InUse(h)' = Held'
        /\ InUse(h) = Held
    BY <1>1, <1>4, <1>7 DEF Held, InUse, AllocInv, AllocTypeOK
  <1>9. \A s \in Held : BitOf(slot[s]) # b /\ slot[s] # got[h]
    BY <1>2, <1>4, <1>8 DEF AllocInv, Owned
  <1>10. Owned(h)'
    <2>1. \A s, t \in Held' : slot'[s] = slot'[t] => s = t
      BY <1>7, <1>8, <1>9 DEF AllocInv, Owned, Held
    <2>2. \A s \in Held' : BitOf(slot'[s]) \in Used
      BY <1>2, <1>4, <1>7, <1>8 DEF AllocInv, Owned, Held, BitOf
    <2>3. ASSUME NEW c \in Used
          PROVE  c \notin free' <=> \E s \in Held' : BitOf(slot'[s]) = c
      <3>1. CASE c = b
        BY <3>1, <1>3, <1>4, <1>7, <1>8
      <3>2. CASE c # b
        <4>1. c \notin free' <=> \E s \in Held : BitOf(slot[s]) = c
          BY <3>2, <1>3, <1>8 DEF AllocInv, Owned
        <4>2. \A s \in Held : s \in Slot /\ s # m /\ slot'[s] = slot[s]
          BY <1>7, <1>8 DEF Held
        <4> QED BY <3>2, <4>1, <4>2, <1>4, <1>7, <1>8
      <3> QED BY <3>1, <3>2
    <2> QED BY <2>1, <2>2, <2>3, <1>8 DEF Owned, BitOf
  <1>11. Working(h)'
    BY <1>1 DEF Working, AllocInv, AllocTypeOK
  <1> QED BY <1>5, <1>6, <1>10, <1>11 DEF AllocInv

(* Only WRONG_VALUE is rejected: a recorded block is in use.                *)
LEMMA ReleaseInv ==
  ASSUME NEW h, Thread = {h}, AllocInv(h),
         NEW s \in Slot, SetBlockAllocToFree(h, s)
  PROVE  AllocInv(h)'
  <1> USE DEF SetBlockAllocToFree, Goto
  <1>1. /\ pc[h] = "idle" /\ slot[s] # NONE /\ mine' = [mine EXCEPT ![h] = s]
        /\ UNCHANGED <<free, nuse, nfree, got, bit>>
    OBVIOUS
  <1>2. InUse(h) = Held
    BY <1>1 DEF InUse, Held
  <1>3. /\ slot[s] \in Int /\ nuse \in Nat /\ NBlk \in Nat
        /\ nfree + 0 = Cardinality(free \cap Used)
    BY <1>1, DiskAssumption, StartAssumption
       DEF AllocInv, AllocTypeOK, Number, WRONG, NONE, Counted, Ahead
  <1>4. slot[s] >= 0 => ~Rejects(slot[s])
    <2> SUFFICES ASSUME slot[s] >= 0 PROVE ~Rejects(slot[s])
      OBVIOUS
    <2>1. s \in Held /\ BitOf(slot[s]) \in Used /\ BitOf(slot[s]) \notin free
      BY <1>2 DEF AllocInv, Owned, Held
    <2>2. ~(slot[s] < Start)
      BY <2>1, <1>3, StartAssumption, DiskAssumption DEF BitOf, Used
    <2>3. nuse # 0
      <3> SUFFICES ASSUME nuse = 0 PROVE FALSE
        OBVIOUS
      <3>1. Cardinality(free \cap Used) = NBlk
        BY <1>3, DiskAssumption DEF AllocInv, Counted, AllocTypeOK
      <3>2. free \cap Used = Used
        <4>1. free \cap Used \in SUBSET Used
          OBVIOUS
        <4> QED BY <4>1, <3>1, UsedFinite, FS_Subset
      <3> QED BY <2>1, <3>2
    <2> QED BY <2>1, <2>2, <2>3 DEF Rejects
  <1>5. CASE Rejects(slot[s]) /\ slot' = [slot EXCEPT ![s] = NONE]
             /\ UNCHANGED pc
    <2>1. \A t \in Slot : /\ t # s => slot'[t] = slot[t]
                          /\ t = s => slot'[t] = -2 /\ ~(slot[t] >= 0)
      BY <1>4, <1>5 DEF AllocInv, AllocTypeOK, NONE
    <2>2. Held' = Held /\ s \notin Held /\ InUse(h)' = Held'
      BY <1>1, <1>5, <2>1 DEF Held, InUse
    <2>3. Owned(h)'
      BY <1>1, <1>2, <2>1, <2>2 DEF AllocInv, Owned, Held, BitOf
    <2>4. AllocTypeOK'
      BY <1>1, <1>5 DEF AllocInv, AllocTypeOK
    <2>5. Counted(h)' /\ Working(h)'
      BY <1>1, <1>5 DEF AllocInv, Counted, Ahead, Working
    <2> QED BY <2>3, <2>4, <2>5 DEF AllocInv
  <1>6. CASE ~Rejects(slot[s]) /\ UNCHANGED slot
             /\ pc' = [pc EXCEPT ![h] = "clear"]
    <2>1. slot[s] >= 0 /\ nuse # 0
      BY <1>3, <1>6, StartAssumption DEF Rejects
    <2>2. AllocTypeOK' /\ pc'[h] = "clear" /\ mine'[h] = s
      BY <1>1, <1>6 DEF AllocInv, AllocTypeOK, Place
    <2>3. Counted(h)' /\ Working(h)'
      BY <1>1, <1>6, <2>1, <2>2 DEF AllocInv, Counted, Ahead, Working
    <2>4. Owned(h)'
      BY <1>1, <1>2, <1>6, <2>2 DEF AllocInv, Owned, Held, InUse, BitOf
    <2> QED BY <2>2, <2>3, <2>4 DEF AllocInv
  <1> QED BY <1>5, <1>6

(* A release sets the bit first ...                                         *)
LEMMA ClearInv ==
  ASSUME NEW h, Thread = {h}, AllocInv(h), Clear(h)
  PROVE  AllocInv(h)'
  <1> DEFINE m == mine[h]
             b == BitOf(slot[m])
  <1>1. /\ pc[h] = "clear" /\ free' = Toggle(b)
        /\ pc' = [pc EXCEPT ![h] = "dec"]
        /\ UNCHANGED <<nuse, nfree, slot, mine, got, bit>>
    BY DEF Clear, Goto
  <1>2. m \in Held /\ slot[m] >= 0 /\ nuse # 0
    BY <1>1 DEF AllocInv, AllocTypeOK, Working, Held
  <1>3. InUse(h) = Held /\ InUse(h)' = Held \ {m} /\ Held' = Held
    BY <1>1 DEF InUse, Held, AllocInv, AllocTypeOK
  <1>4. b \in Used /\ b \notin free /\ b \in Bit
    BY <1>2, <1>3, DiskAssumption DEF AllocInv, Owned, Used, Bit
  <1>5. free' = free \cup {b}
    BY <1>1, <1>4 DEF Toggle
  <1>6. AllocTypeOK'
    BY <1>1, <1>4, <1>5 DEF AllocInv, AllocTypeOK, Place
  <1>7. Counted(h)'
    <2>1. Cardinality((free \cup {b}) \cap Used) = Cardinality(free \cap Used) + 1
      BY <1>4, ToggleCount DEF AllocInv, AllocTypeOK
    <2>2. nfree + 0 = Cardinality(free \cap Used) /\ nfree \in Nat
      BY <1>1 DEF AllocInv, AllocTypeOK, Counted, Ahead
    <2>3. Ahead(h)' = 1
      BY <1>1 DEF Ahead, AllocInv, AllocTypeOK
    <2> QED BY <1>1, <1>5, <2>1, <2>2, <2>3 DEF AllocInv, Counted
  <1>8. \A s \in Held : s # m => BitOf(slot[s]) # b
    <2>1. \A s \in Held : slot[s] \in Int
      BY StartAssumption, DiskAssumption
         DEF AllocInv, AllocTypeOK, Held, Number, WRONG, NONE
    <2>2. \A s \in Held : s # m => slot[s] # slot[m]
      BY <1>2 DEF AllocInv, Owned
    <2> QED BY <2>1, <2>2, <1>2, StartAssumption DEF BitOf
  <1>9. Owned(h)'
    BY <1>1, <1>3, <1>4, <1>5, <1>8 DEF AllocInv, Owned, BitOf
  <1>10. Working(h)'
    BY <1>1, <1>2, <1>5 DEF Working, AllocInv, AllocTypeOK, BitOf
  <1> QED BY <1>6, <1>7, <1>9, <1>10 DEF AllocInv

(* ... and moves the counters last.                                         *)
LEMMA DecInv ==
  ASSUME NEW h, Thread = {h}, AllocInv(h), DecUseBlock(h)
  PROVE  AllocInv(h)'
  <1> DEFINE m == mine[h]
  <1>1. /\ pc[h] = "dec" /\ nuse # 0 /\ slot[m] >= 0 /\ m \in Slot
        /\ nuse \in Nat /\ nfree \in Nat /\ NBlk \in Nat
        /\ nfree + 1 = Cardinality(free \cap Used)
    BY DiskAssumption
       DEF DecUseBlock, AllocInv, AllocTypeOK, Working, Counted, Ahead
  <1>2. /\ nuse' = nuse - 1 /\ nfree' = nfree + 1
        /\ slot' = [slot EXCEPT ![m] = NONE]
        /\ pc' = [pc EXCEPT ![h] = "idle"]
        /\ UNCHANGED <<free, mine, got, bit>>
    BY <1>1 DEF DecUseBlock, Record, Goto
  <1>3. Counted(h)'
    BY <1>1, <1>2 DEF AllocInv, AllocTypeOK, Counted, Ahead
  <1>4. AllocTypeOK'
    <2>1. nfree' \in 0 .. NBlk
      BY <1>1, <1>2, ToggleCount, UsedFinite, DiskAssumption
         DEF AllocInv, AllocTypeOK, Counted
    <2> QED BY <1>1, <1>2, <2>1 DEF AllocInv, AllocTypeOK, Place
  <1>5. /\ \A s \in Slot : s # m => slot'[s] = slot[s]
        /\ slot'[m] = -2
    BY <1>1, <1>2 DEF AllocInv, AllocTypeOK, NONE
  <1>6. Held' = Held \ {m} /\ InUse(h) = Held \ {m} /\ InUse(h)' = Held'
    BY <1>1, <1>2, <1>5 DEF Held, InUse, AllocInv, AllocTypeOK
  <1>7. Owned(h)'
    BY <1>2, <1>5, <1>6 DEF AllocInv, Owned, Held, BitOf
  <1>8. Working(h)'
    BY <1>2 DEF Working, AllocInv, AllocTypeOK
  <1> QED BY <1>3, <1>4, <1>7, <1>8 DEF AllocInv

(* The invariant is inductive.                                              *)
LEMMA AllocInvKept ==
  ASSUME NEW h, Thread = {h}, AllocInv(h), [AllocNext]_allocVars
  PROVE  AllocInv(h)'
  <1>1. CASE UNCHANGED allocVars
    BY <1>1 DEF allocVars, AllocInv, AllocTypeOK, Counted, Ahead, Owned, Held, InUse, Working,
                GetFreeEntry, BitOf
  <1>2. ASSUME NEW s \in Slot, GetFreeBlock(h, s) \/ SetBlockAllocToFree(h, s)
        PROVE  AllocInv(h)'
    BY <1>2, GetInv, ReleaseInv
  <1>3. CASE Scan(h)
    BY <1>3, ScanInv
  <1>4. CASE Stop(h)
    BY <1>4, StopInv
  <1>5. CASE SetBlockFreeToAlloc(h)
    BY <1>5, SetInv
  <1>6. CASE IncUseBlock(h)
    BY <1>6, IncInv
  <1>7. CASE Locate(h)
    BY <1>7, LocateInv
  <1>8. CASE Flip(h)
    BY <1>8, FlipInv
  <1>9. CASE Clear(h)
    BY <1>9, ClearInv
  <1>10. CASE DecUseBlock(h)
    BY <1>10, DecInv
  <1> QED BY <1>1, <1>2, <1>3, <1>4, <1>5, <1>6, <1>7, <1>8, <1>9, <1>10
          DEF AllocNext

(* What it says of the properties the runs check.                           *)
LEMMA Consequences ==
  ASSUME NEW h, Thread = {h}, AllocInv(h)
  PROVE  AllocTypeOK /\ CountersAgree /\ OneOwner /\ NoLeak
  <1>1. CountersAgree
    BY DEF AllocInv, AllocTypeOK, Counted, Ahead, CountersAgree, AtRest
  <1>2. OneOwner
    <2>1. ASSUME NEW s \in Held, pc[h] = "idle" \/ mine[h] # s
          PROVE  BitOf(slot[s]) \notin free
      <3>1. s \in InUse(h) /\ BitOf(slot[s]) \in Used
        BY <2>1 DEF Held, InUse, AllocInv, Owned
      <3> QED BY <3>1 DEF AllocInv, Owned
    <2> QED BY <2>1 DEF OneOwner, AllocInv, Owned
  <1>3. NoLeak
    <2> SUFFICES ASSUME pc[h] = "idle"
                 PROVE  Bit \ free = {BitOf(slot[s]) : s \in Held}
      BY DEF NoLeak, AtRest
    <2>1. InUse(h) = Held
      BY DEF InUse, Held
    <2>2. Bit \ free \subseteq Used /\ Used \subseteq Bit
      BY DiskAssumption DEF AllocInv, Counted, Used, Bit
    <2> QED BY <2>1, <2>2 DEF AllocInv, Owned
  <1> QED BY <1>1, <1>2, <1>3 DEF AllocInv

(* With one handler at a time the counters count the bitmap whenever no     *)
(* handler runs, a block never has two owners, is always one of the disk    *)
(* and in use, and no block is lost.                                        *)
THEOREM SerialAllocation ==
  ASSUME NEW h, Thread = {h}
  PROVE  AllocSpec => [](AllocTypeOK /\ CountersAgree /\ OneOwner /\ NoLeak)
  <1>1. AllocInit => AllocInv(h)
    BY AllocInvStarts
  <1>2. AllocInv(h) /\ [AllocNext]_allocVars => AllocInv(h)'
    BY AllocInvKept
  <1>3. AllocInv(h) => AllocTypeOK /\ CountersAgree /\ OneOwner /\ NoLeak
    BY Consequences
  <1> QED BY <1>1, <1>2, <1>3, PTL DEF AllocSpec

(* So what a handler finds in the super block is true, and whatever is      *)
(* unlinked comes back: Accounted, for every size of disk.                  *)
THEOREM SerialAccounts ==
  ASSUME NEW h, Thread = {h}
  PROVE  AllocSpec => []Accounted
  <1>1. AllocSpec => [](AllocTypeOK /\ CountersAgree /\ OneOwner /\ NoLeak)
    BY SerialAllocation
  <1>2. AllocTypeOK /\ CountersAgree /\ OneOwner /\ NoLeak => Accounted
    BY DEF Accounted
  <1> QED BY <1>1, <1>2, PTL

-------------------------------------------------------------------------------
(* The queue of messages.                                                     *)

(* Handler h is half-way through a pair that goes into the queue.            *)
Live(h) == qid[h] = "live" /\ MidPair(h)

(* What h has to send is pair after pair, of which the first may be begun.   *)
Alternates(h, t) ==
  /\ \A i \in 1 .. Len(t) : t[i] = Ctrl(h, t[i].of) \/ t[i] = Payload(h, t[i].of)
  /\ \A i \in 1 .. Len(t) : t[i].kind = "ctrl" =>
                              i < Len(t) /\ t[i + 1] = Payload(h, t[i].of)
  /\ \A i \in 1 .. Len(t) - 1 : t[i].kind # "ctrl" => t[i + 1].kind = "ctrl"

TodoOK == \A h \in Handler : Alternates(h, todo[h])

(* The queue ends with a whole pair, or with the announcement of what h is   *)
(* about to send; the receiver may have taken that announcement already.     *)
Closed    == IF queue = << >> THEN rpc \notin Kind
                              ELSE queue[Len(queue)].kind # "ctrl"
OpenBy(h) == IF queue = << >> THEN rpc = todo[h][1].of
                              ELSE queue[Len(queue)] = Ctrl(h, todo[h][1].of)

EndOK == /\ \A h \in Handler : Live(h) => OpenBy(h)
         /\ (\A h \in Handler : ~Live(h)) => Closed
         /\ \A g, h \in Handler : Live(g) /\ Live(h) => g = h

(* Without a queue there is no message, no receiver and nothing to send to.  *)
ExistsOK == ~exists => /\ queue = << >> /\ rpc = "off"
                       /\ \A h \in Handler : qid[h] # "live"

Inv == TypeOK /\ TodoOK /\ ExistsOK /\ (~torn => InStep /\ EndOK)

-----------------------------------------------------------------------------
AllPaired(s) == \A i \in 1 .. Len(s) : Paired(s, i)

(* The kind of a message tells a payload from a control message.             *)
LEMMA KindOfMessage ==
  ASSUME NEW h \in Handler, NEW k \in Kind
  PROVE  /\ Ctrl(h, k) \in Message /\ Payload(h, k) \in Message
         /\ Ctrl(h, k).kind = "ctrl" /\ Ctrl(h, k).of = k /\ Ctrl(h, k).from = h
         /\ Payload(h, k).kind = k /\ k # "ctrl"
  BY KindAssumption DEF Ctrl, Payload, Message

(* Behind a control message taken from a paired queue stands its payload,    *)
(* and behind that the rest of the queue is paired.                          *)
LEMMA PairedAfterCtrl ==
  ASSUME NEW s \in Seq(Message), s # << >>, AllPaired(s)
  PROVE  /\ Head(s).kind = "ctrl"
         /\ Tail(s) # << >> => /\ Head(Tail(s)).kind = Head(s).of
                               /\ AllPaired(Tail(Tail(s)))
  <1> DEFINE n == Len(s)
             t == Tail(Tail(s))
  <1>1. n \in Nat /\ n >= 1 /\ s[1] \in Message
    OBVIOUS
  <1>2. s[1].kind = "ctrl" /\ (1 < n => s[2] = Payload(s[1].from, s[1].of))
    BY <1>1 DEF AllPaired, Paired
  <1>3. ASSUME Tail(s) # << >>
        PROVE  Head(Tail(s)).kind = Head(s).of /\ AllPaired(t)
    <2>1. n >= 2 /\ Head(Tail(s)) = s[2] /\ Head(s) = s[1]
      BY <1>1, <1>3
    <2>2. s[2] = Payload(s[1].from, s[1].of) /\ s[2].kind = s[1].of
      BY <2>1, <1>2 DEF Payload
    <2>3. s[2].kind # "ctrl"
      BY <2>2, <1>1, KindAssumption DEF Message
    <2>4. t \in Seq(Message) /\ Len(t) = n - 2
          /\ \A i \in 1 .. n - 2 : t[i] = s[i + 2]
      BY <1>1, <2>1, <1>3
    <2>5. ASSUME NEW i \in 1 .. Len(t) PROVE Paired(t, i)
      <3>1. i + 2 \in 1 .. n /\ t[i] = s[i + 2] /\ Paired(s, i + 2)
        BY <2>4, <1>1 DEF AllPaired
      <3>2. CASE s[i + 2].kind = "ctrl"
                 /\ (i + 2 < n => s[i + 3] = Payload(s[i + 2].from, s[i + 2].of))
        <4>1. i < Len(t) => t[i + 1] = s[i + 3] /\ i + 2 < n
          BY <2>4, <1>1
        <4> QED BY <3>1, <3>2, <4>1 DEF Paired
      <3>3. CASE s[i + 1].kind = "ctrl"
                 /\ s[i + 2] = Payload(s[i + 1].from, s[i + 2].of)
        <4>1. i > 1
          BY <3>3, <2>3, <2>4
        <4>2. t[i - 1] = s[i + 1]
          BY <4>1, <2>4
        <4> QED BY <3>1, <3>3, <4>1, <4>2 DEF Paired
      <3>4. (i + 2) + 1 = i + 3 /\ (i + 2) - 1 = i + 1
        BY <2>4
      <3>5. \/ /\ s[i + 2].kind = "ctrl"
               /\ i + 2 < n => s[i + 3] = Payload(s[i + 2].from, s[i + 2].of)
            \/ /\ s[i + 1].kind = "ctrl"
               /\ s[i + 2] = Payload(s[i + 1].from, s[i + 2].of)
        BY <3>1, <3>4, Zenon DEF Paired
      <3> QED BY <3>2, <3>3, <3>5
    <2> QED BY <2>1, <2>2, <2>5 DEF AllPaired
  <1> QED BY <1>2, <1>3

(* A control message may follow a whole pair ...                             *)
LEMMA PairedWithCtrl ==
  ASSUME NEW s \in Seq(Message), AllPaired(s), NEW h \in Handler, NEW k \in Kind,
         s # << >> => s[Len(s)].kind # "ctrl"
  PROVE  AllPaired(Append(s, Ctrl(h, k)))
  <1> DEFINE t == Append(s, Ctrl(h, k))
             n == Len(s)
  <1>1. /\ n \in Nat /\ Len(t) = n + 1
        /\ t[n + 1] = Ctrl(h, k) /\ Ctrl(h, k).kind = "ctrl"
        /\ \A i \in 1 .. n : t[i] = s[i]
    BY KindOfMessage
  <1> HIDE DEF t
  <1>2. ASSUME NEW i \in 1 .. n PROVE Paired(t, i)
    <2>1. Paired(s, i) /\ t[i] = s[i]
      BY <1>1 DEF AllPaired
    <2>2. CASE s[i].kind = "ctrl"
               /\ (i < n => s[i + 1] = Payload(s[i].from, s[i].of))
      <3>1. i < n
        BY <2>2, <1>1
      <3>2. t[i + 1] = s[i + 1]
        BY <3>1, <1>1
      <3> QED BY <3>1, <3>2, <2>2, <2>1 DEF Paired
    <2>3. CASE i > 1 /\ s[i - 1].kind = "ctrl"
               /\ s[i] = Payload(s[i - 1].from, s[i].of)
      <3>1. t[i - 1] = s[i - 1]
        BY <2>3, <1>1
      <3> QED BY <3>1, <2>3, <2>1 DEF Paired
    <2> QED BY <2>1, <2>2, <2>3, <1>1 DEF Paired
  <1>3. Paired(t, n + 1)
    BY <1>1 DEF Paired
  <1> QED BY <1>1, <1>2, <1>3 DEF AllPaired, t

(* ... and a payload its own control message.                                *)
LEMMA PairedWithPayload ==
  ASSUME NEW s \in Seq(Message), AllPaired(s), NEW h \in Handler, NEW k \in Kind,
         s # << >>, s[Len(s)] = Ctrl(h, k)
  PROVE  AllPaired(Append(s, Payload(h, k)))
  <1> DEFINE t == Append(s, Payload(h, k))
             n == Len(s)
  <1>1. /\ n \in Nat /\ n >= 1 /\ Len(t) = n + 1
        /\ t[n + 1] = Payload(h, k)
        /\ \A i \in 1 .. n : t[i] = s[i]
    OBVIOUS
  <1>2. /\ s[n].kind = "ctrl" /\ s[n].from = h /\ s[n].of = k
        /\ Payload(h, k).of = k
    BY DEF Ctrl, Payload
  <1> HIDE DEF t
  <1>3. ASSUME NEW i \in 1 .. n PROVE Paired(t, i)
    <2>1. Paired(s, i) /\ t[i] = s[i]
      BY <1>1 DEF AllPaired
    <2>2. CASE s[i].kind = "ctrl"
               /\ (i < n => s[i + 1] = Payload(s[i].from, s[i].of))
      <3>1. CASE i < n
        <4>1. t[i + 1] = s[i + 1]
          BY <3>1, <1>1
        <4> QED BY <3>1, <4>1, <2>2, <2>1 DEF Paired
      <3>2. CASE i = n
        BY <3>2, <1>1, <1>2, <2>1, <2>2 DEF Paired
      <3> QED BY <3>1, <3>2, <1>1
    <2>3. CASE i > 1 /\ s[i - 1].kind = "ctrl"
               /\ s[i] = Payload(s[i - 1].from, s[i].of)
      <3>1. t[i - 1] = s[i - 1]
        BY <2>3, <1>1
      <3> QED BY <3>1, <2>3, <2>1 DEF Paired
    <2> QED BY <2>1, <2>2, <2>3, <1>1 DEF Paired
  <1>4. Paired(t, n + 1)
    <2>1. t[(n + 1) - 1] = s[n] /\ n + 1 > 1
      BY <1>1
    <2> QED BY <2>1, <1>1, <1>2 DEF Paired
  <1> QED BY <1>1, <1>3, <1>4 DEF AllPaired, t

-----------------------------------------------------------------------------
(* A report is made of whole pairs.                                          *)
LEMMA ReportAlternates ==
  ASSUME NEW h \in Handler, NEW ks \in Seq(Kind)
  PROVE  /\ Messages(h, ks) \in Seq(Message) /\ Alternates(h, Messages(h, ks))
         /\ Messages(h, ks) # << >> => Head(Messages(h, ks)).kind = "ctrl"
  <1> DEFINE n == Len(ks)
             t == Messages(h, ks)
             k(i) == ks[(i + 1) \div 2]
  <1>1. n \in Nat
    OBVIOUS
  <1>2. ASSUME NEW i \in 1 .. 2 * n
        PROVE  (i + 1) \div 2 \in 1 .. n /\ k(i) \in Kind
    <2>1. (i + 1) \div 2 \in 1 .. n
      BY <1>1
    <2> QED BY <2>1
  <1>3. /\ t = [i \in 1 .. 2 * n |-> IF i % 2 = 1 THEN Ctrl(h, k(i))
                                                 ELSE Payload(h, k(i))]
        /\ 2 * n \in Nat
    BY <1>1 DEF Messages
  <1>4. ASSUME NEW i \in 1 .. 2 * n
        PROVE  /\ t[i] = IF i % 2 = 1 THEN Ctrl(h, k(i)) ELSE Payload(h, k(i))
               /\ t[i] \in Message /\ t[i].of = k(i)
               /\ t[i].kind = "ctrl" <=> i % 2 = 1
    <2>1. t[i] = IF i % 2 = 1 THEN Ctrl(h, k(i)) ELSE Payload(h, k(i))
      BY <1>3
    <2>2. k(i) \in Kind
      BY <1>2
    <2> HIDE DEF k, t
    <2>3. Ctrl(h, k(i)).of = k(i) /\ Payload(h, k(i)).of = k(i)
      BY DEF Ctrl, Payload
    <2> QED BY <2>1, <2>2, <2>3, KindOfMessage
  <1>5. t \in Seq(Message) /\ Len(t) = 2 * n
    <2> HIDE DEF k
    <2> QED BY <1>3, <1>4
  <1>6. ASSUME NEW i \in 1 .. 2 * n, i % 2 = 1
        PROVE  i < 2 * n /\ i + 1 \in 1 .. 2 * n /\ (i + 1) % 2 # 1
               /\ k(i + 1) = k(i)
    <2>1. i < 2 * n /\ i + 1 \in 1 .. 2 * n /\ (i + 1) % 2 # 1
      BY <1>1, <1>6
    <2>2. (i + 2) \div 2 = (i + 1) \div 2 /\ (i + 1) + 1 = i + 2
      BY <1>6
    <2> QED BY <2>1, <2>2
  <1>7. ASSUME NEW i \in 1 .. 2 * n - 1, i % 2 # 1
        PROVE  i \in 1 .. 2 * n /\ i + 1 \in 1 .. 2 * n /\ (i + 1) % 2 = 1
    BY <1>1, <1>7
  <1> HIDE DEF k, t
  <1>8. \A i \in 1 .. Len(t) :
          t[i] = Ctrl(h, t[i].of) \/ t[i] = Payload(h, t[i].of)
    BY <1>4, <1>5
  <1>9. \A i \in 1 .. Len(t) : t[i].kind = "ctrl" =>
          i < Len(t) /\ t[i + 1] = Payload(h, t[i].of)
    BY <1>4, <1>5, <1>6
  <1>10. \A i \in 1 .. Len(t) - 1 : t[i].kind # "ctrl" => t[i + 1].kind = "ctrl"
    BY <1>4, <1>5, <1>7
  <1>11. t # << >> => Head(t).kind = "ctrl"
    <2>1. t # << >> => 1 \in 1 .. 2 * n /\ Head(t) = t[1]
      BY <1>5
    <2>2. 1 % 2 = 1
      OBVIOUS
    <2> QED BY <2>1, <2>2, <1>4
  <1> QED BY <1>5, <1>8, <1>9, <1>10, <1>11 DEF Alternates, t

(* tiny_init's report, without the last kind, is a report as well.           *)
LEMMA ReportFront == Report \in Seq(Kind) /\ Front(Report) \in Seq(Kind)
  <1>1. Len(Report) \in Nat /\ Len(Report) >= 1
    BY ReportAssumption
  <1>2. Front(Report) = [i \in 1 .. Len(Report) - 1 |-> Report[i]]
    BY <1>1, ReportAssumption DEF Front
  <1>3. Front(Report) \in Seq(Kind)
    BY <1>1, <1>2, ReportAssumption
  <1> QED BY <1>3, ReportAssumption

(* What is left of a report once its first message is sent.                  *)
LEMMA RestAlternates ==
  ASSUME NEW h \in Handler, NEW t \in Seq(Message), t # << >>, Alternates(h, t)
  PROVE  /\ Tail(t) \in Seq(Message) /\ Alternates(h, Tail(t))
         /\ Head(t) = Ctrl(h, Head(t).of) \/ Head(t) = Payload(h, Head(t).of)
         /\ Head(t).kind = "ctrl" =>
              Tail(t) # << >> /\ Head(Tail(t)) = Payload(h, Head(t).of)
         /\ Head(t).kind # "ctrl" /\ Tail(t) # << >> =>
              Head(Tail(t)).kind = "ctrl"
  <1> DEFINE r == Tail(t)
             n == Len(t)
  <1>1. /\ n \in Nat /\ n >= 1 /\ r \in Seq(Message) /\ Len(r) = n - 1
        /\ \A i \in 1 .. n - 1 : r[i] = t[i + 1]
        /\ Head(t) = t[1] /\ (r # << >> => n >= 2 /\ Head(r) = t[2])
        /\ n >= 2 => r # << >>
    OBVIOUS
  <1> HIDE DEF r
  <1>2. \A i \in 1 .. Len(r) : r[i] = Ctrl(h, r[i].of) \/ r[i] = Payload(h, r[i].of)
    BY <1>1 DEF Alternates
  <1>3. ASSUME NEW i \in 1 .. Len(r), r[i].kind = "ctrl"
        PROVE  i < Len(r) /\ r[i + 1] = Payload(h, r[i].of)
    <2>1. i + 1 \in 1 .. n /\ t[i + 1] = r[i]
      BY <1>1
    <2>2. i + 1 < n /\ t[(i + 1) + 1] = Payload(h, t[i + 1].of)
      BY <2>1, <1>3 DEF Alternates
    <2>3. i + 1 \in 1 .. n - 1 /\ i < Len(r)
      BY <2>2, <1>1
    <2> QED BY <2>1, <2>2, <2>3, <1>1
  <1>4. ASSUME NEW i \in 1 .. Len(r) - 1, r[i].kind # "ctrl"
        PROVE  r[i + 1].kind = "ctrl"
    <2>1. i + 1 \in 1 .. n - 1 /\ t[i + 1] = r[i] /\ t[(i + 1) + 1] = r[i + 1]
      BY <1>1
    <2> QED BY <2>1, <1>4 DEF Alternates
  <1>5. Alternates(h, r)
    BY <1>2, <1>3, <1>4 DEF Alternates
  <1> QED BY <1>1, <1>5 DEF Alternates, r

(* The invariant InStep, of the queue without a payload that is awaited.     *)
Rest == IF rpc \in Kind /\ queue # << >> THEN Tail(queue) ELSE queue

LEMMA InStepOfRest ==
  InStep <=> /\ rpc \in Kind /\ queue # << >> => Head(queue).kind = rpc
             /\ AllPaired(Rest)
  BY DEF InStep, AllPaired, Rest

-----------------------------------------------------------------------------
LEMMA InitInv == Init => Inv
  <1> SUFFICES ASSUME Init PROVE Inv
    OBVIOUS
  <1>1. TypeOK /\ TodoOK /\ ExistsOK
    <2>1. TypeOK
      <3>1. << >> \in Seq(Message)
        OBVIOUS
      <3> HIDE DEF Message
      <3> QED BY <3>1 DEF Init, TypeOK
    <2>2. TodoOK
      BY DEF Init, TodoOK, Alternates
    <2>3. ExistsOK
      BY DEF Init, ExistsOK
    <2> QED BY <2>1, <2>2, <2>3
  <1>2. InStep
    BY KindAssumption, InStepOfRest DEF Init, AllPaired, Rest
  <1>3. EndOK
    BY KindAssumption DEF Init, EndOK, Closed, Live
  <1> QED BY <1>1, <1>2, <1>3 DEF Inv

(* Every step keeps the types, and a report a row of pairs.                  *)
LEMMA NextTypeOK ==
  ASSUME TypeOK, TodoOK, [Next]_vars
  PROVE  TypeOK' /\ TodoOK'
  <1> USE DEF TypeOK, TodoOK
  <1>0. \A h \in Handler : Alternates(h, << >>)
    BY DEF Alternates
  <1>1. ASSUME NEW h \in Handler, OpenMQ(h) PROVE TypeOK' /\ TodoOK'
    <2>1. PICK ks \in {Report, Front(Report)} :
            todo' = [todo EXCEPT ![h] = Messages(h, ks)]
      BY <1>1 DEF OpenMQ
    <2>2. ks \in Seq(Kind)
      BY <2>1, ReportFront
    <2>3. Messages(h, ks) \in Seq(Message) /\ Alternates(h, Messages(h, ks))
      BY <2>2, ReportAlternates
    <2> QED BY <1>1, <2>1, <2>3 DEF OpenMQ
  <1>2. ASSUME NEW h \in Handler, Send(h) PROVE TypeOK' /\ TodoOK'
    <2>1. Tail(todo[h]) \in Seq(Message) /\ Alternates(h, Tail(todo[h]))
      BY <1>2, RestAlternates DEF Send
    <2>2. queue' \in Seq(Message)
      BY <1>2 DEF Send
    <2>3. torn' \in BOOLEAN
      BY <1>2 DEF Send
    <2> QED BY <1>2, <2>1, <2>2, <2>3 DEF Send
  <1>3. ASSUME NEW h \in Handler, Refuse(h) PROVE TypeOK' /\ TodoOK'
    BY <1>3, <1>0 DEF Refuse
  <1>4. CASE CreateMQ
    BY <1>4 DEF CreateMQ
  <1>5. CASE Loop
    BY <1>5 DEF Loop
  <1>6. CASE RecvCtrl
    <2>1. queue' \in Seq(Message) /\ torn' \in BOOLEAN
      BY <1>6 DEF RecvCtrl
    <2>2. rpc' \in {"off", "top", "ctrl"} \cup Kind
      BY <1>6, KnownAssumption DEF RecvCtrl
    <2> QED BY <1>6, <2>1, <2>2 DEF RecvCtrl
  <1>7. CASE RecvCtrlTooBig
    BY <1>7 DEF RecvCtrlTooBig
  <1>8. CASE Load
    BY <1>8 DEF Load
  <1>9. CASE LoadTooBig
    BY <1>9 DEF LoadTooBig
  <1>10. CASE RecvNothing
    BY <1>10 DEF RecvNothing
  <1>11. CASE RemoveMQ
    <2>1. qid' \in [Handler -> {"none", "live", "stale"}]
      BY <1>11 DEF RemoveMQ
    <2>2. UNCHANGED todo /\ queue' = << >> /\ exists' = FALSE
          /\ torn' = FALSE /\ rpc' = "off"
      BY <1>11 DEF RemoveMQ
    <2>3. << >> \in Seq(Message)
      OBVIOUS
    <2>4. TypeOK'
      BY <2>1, <2>2, <2>3
    <2> QED BY <2>2, <2>4
  <1>12. CASE Exit
    BY <1>12 DEF Exit
  <1>13. CASE Crash
    BY <1>13, <1>0 DEF Crash
  <1>14. CASE UNCHANGED vars
    BY <1>14 DEF vars
  <1> QED BY <1>1, <1>2, <1>3, <1>4, <1>5, <1>6, <1>7, <1>8, <1>9, <1>10,
             <1>11, <1>12, <1>13, <1>14 DEF Next, Receive

(* Without a queue nothing is in it, nobody reads it and nobody writes.      *)
LEMMA NextExistsOK ==
  ASSUME TypeOK, ExistsOK, [Next]_vars
  PROVE  ExistsOK'
  <1> USE DEF TypeOK, ExistsOK
  <1>1. ASSUME NEW h \in Handler, OpenMQ(h) PROVE ExistsOK'
    BY <1>1 DEF OpenMQ
  <1>2. ASSUME NEW h \in Handler, Send(h) PROVE ExistsOK'
    BY <1>2 DEF Send
  <1>3. ASSUME NEW h \in Handler, Refuse(h) PROVE ExistsOK'
    BY <1>3 DEF Refuse
  <1>4. CASE CreateMQ
    BY <1>4 DEF CreateMQ
  <1>5. CASE Receive
    BY <1>5, KindAssumption DEF Receive, Loop, RecvCtrl, RecvCtrlTooBig, Load,
                                LoadTooBig, RecvNothing
  <1>6. CASE RemoveMQ
    BY <1>6 DEF RemoveMQ
  <1>7. CASE Exit
    BY <1>7 DEF Exit
  <1>8. CASE Crash
    BY <1>8 DEF Crash
  <1>9. CASE UNCHANGED vars
    BY <1>9 DEF vars
  <1> QED BY <1>1, <1>2, <1>3, <1>4, <1>5, <1>6, <1>7, <1>8, <1>9 DEF Next

-----------------------------------------------------------------------------
(* A step that leaves the queue alone, and a receiver that awaits a payload, *)
(* and begins and ends no pair, leaves them in step.                         *)
LEMMA QueueUnchanged ==
  ASSUME TypeOK, InStep, EndOK, queue' = queue,
         rpc' = rpc \/ (rpc \notin Kind /\ rpc' \notin Kind),
         \A g \in Handler : /\ Live(g)' <=> Live(g)
                            /\ Live(g) => todo'[g] = todo[g]
  PROVE  InStep' /\ EndOK'
  <1>1. InStep'
    <2>1. /\ rpc \in Kind /\ queue # << >> => Head(queue).kind = rpc
          /\ AllPaired(Rest)
      BY InStepOfRest
    <2>2. Rest' = Rest
      BY DEF Rest
    <2>3. AllPaired(Rest')
      BY <2>1, <2>2
    <2>4. AllPaired(Rest)' <=> AllPaired(Rest')
      BY DEF AllPaired, Paired
    <2>5. InStep' <=> (/\ rpc \in Kind /\ queue # << >> => Head(queue).kind = rpc
                       /\ AllPaired(Rest))'
      BY InStepOfRest, PTL
    <2> QED BY <2>1, <2>3, <2>4, <2>5
  <1>2. \A h \in Handler : Live(h)' => OpenBy(h)'
    <2> SUFFICES ASSUME NEW h \in Handler, Live(h) PROVE OpenBy(h)'
      OBVIOUS
    <2>1. OpenBy(h) /\ todo'[h] = todo[h]
      BY DEF EndOK
    <2>2. todo[h][1].of \in Kind
      <3>1. todo[h] \in Seq(Message) /\ todo[h] # << >>
        BY DEF TypeOK, Live, MidPair
      <3>2. todo[h][1] \in Message
        BY <3>1
      <3> QED BY <3>2 DEF Message
    <2> QED BY <2>1, <2>2 DEF OpenBy
  <1>3. (\A h \in Handler : ~Live(h)') => Closed'
    BY DEF EndOK, Closed
  <1> QED BY <1>1, <1>2, <1>3 DEF EndOK

(* The last message of a queue is the last of its tail.                      *)
LEMMA LastOfTail ==
  ASSUME NEW s \in Seq(Message), s # << >>
  PROVE  /\ Tail(s) \in Seq(Message)
         /\ Tail(s) # << >> => Tail(s)[Len(Tail(s))] = s[Len(s)]
         /\ Tail(s) = << >> => s[Len(s)] = Head(s)
         /\ \A m \in Message : Tail(Append(s, m)) = Append(Tail(s), m)
  <1>1. Tail(s) \in Seq(Message) /\ Len(s) \in Nat /\ Len(s) >= 1
        /\ Len(Tail(s)) = Len(s) - 1
    OBVIOUS
  <1>2. Tail(s) # << >> => Tail(s)[Len(Tail(s))] = s[Len(s)]
    <2>1. Tail(s) # << >> => Len(Tail(s)) \in 1 .. Len(s) - 1
      BY <1>1
    <2> QED BY <2>1, <1>1
  <1>3. Tail(s) = << >> => s[Len(s)] = Head(s)
    <2>1. Tail(s) = << >> => Len(s) = 1
      <3>1. Len(<< >>) = 0
        OBVIOUS
      <3>2. Tail(s) = << >> => Len(Tail(s)) = 0
        BY <3>1
      <3> QED BY <3>2, <1>1
    <2>2. Head(s) = s[1]
      OBVIOUS
    <2> QED BY <2>1, <2>2
  <1>4. ASSUME NEW m \in Message PROVE Tail(Append(s, m)) = Append(Tail(s), m)
    OBVIOUS
  <1> QED BY <1>1, <1>2, <1>3, <1>4

(* Appending a message to the queue appends it to what is to be paired, but  *)
(* for the payload the receiver is waiting for.                              *)
LEMMA RestOfAppend ==
  ASSUME TypeOK, NEW m \in Message, queue' = Append(queue, m), rpc' = rpc
  PROVE  /\ Rest \in Seq(Message) /\ queue' # << >>
         /\ queue'[Len(queue')] = m
         /\ queue # << >> => Head(queue') = Head(queue)
         /\ queue = << >> => Head(queue') = m
         /\ (rpc \notin Kind \/ queue # << >>) => Rest' = Append(Rest, m)
         /\ (rpc \in Kind /\ queue = << >>) => Rest' = << >>
  <1>1. queue \in Seq(Message) /\ queue' # << >> /\ queue'[Len(queue')] = m
        /\ (queue # << >> => Head(queue') = Head(queue))
        /\ (queue = << >> => Head(queue') = m)
    BY DEF TypeOK
  <1>2. Rest \in Seq(Message)
    BY <1>1, LastOfTail DEF Rest
  <1>3. (rpc \notin Kind \/ queue # << >>) => Rest' = Append(Rest, m)
    BY <1>1, LastOfTail DEF Rest
  <1>4. (rpc \in Kind /\ queue = << >>) => Rest' = << >>
    BY <1>1 DEF Rest
  <1> QED BY <1>1, <1>2, <1>3, <1>4

(* A handler begins a pair: nobody else is in one, and the queue is closed.  *)
LEMMA SendCtrlInStep ==
  ASSUME TypeOK, TypeOK', TodoOK, InStep, EndOK, NEW h \in Handler, Send(h), ~torn',
         Head(todo[h]).kind = "ctrl"
  PROVE  InStep' /\ EndOK'
  <1> DEFINE t == todo[h]
             k == Head(t).of
  <1>1. t \in Seq(Message) /\ t # << >> /\ Head(t) \in Message /\ k \in Kind
    BY DEF Send, TypeOK, Message
  <1>2. /\ Head(t) = Ctrl(h, k)
        /\ Tail(t) # << >> /\ Head(Tail(t)) = Payload(h, k)
    <2>1. Head(t) = Ctrl(h, k) \/ Head(t) = Payload(h, k)
      BY <1>1, RestAlternates DEF TodoOK
    <2>2. Payload(h, k).kind # "ctrl"
      BY <1>1, KindOfMessage
    <2> QED BY <2>1, <2>2, <1>1, RestAlternates DEF TodoOK
  <1>3. /\ queue' = Append(queue, Ctrl(h, k)) /\ rpc' = rpc /\ qid' = qid
        /\ todo' = [todo EXCEPT ![h] = Tail(t)] /\ qid[h] = "live"
        /\ \A g \in Handler \ {h} : ~Live(g)
    BY <1>2 DEF Send, Live
  <1>4. ~Live(h) /\ Closed
    BY <1>3 DEF EndOK, Live, MidPair
  <1>5. rpc \notin Kind \/ queue # << >>
    BY <1>4 DEF Closed
  <1>6. Ctrl(h, k) \in Message
    BY <1>1, KindOfMessage
  <1>7. AllPaired(Rest)
    BY InStepOfRest
  <1>8. AllPaired(Append(Rest, Ctrl(h, k)))
    <2>1. Rest # << >> => Rest[Len(Rest)].kind # "ctrl"
      BY <1>4, LastOfTail DEF Rest, Closed, TypeOK
    <2>2. Rest \in Seq(Message)
      BY <1>3, <1>6, RestOfAppend
    <2> QED BY <1>1, <1>7, <2>1, <2>2, PairedWithCtrl
  <1>9. InStep'
    <2>1. Rest' = Append(Rest, Ctrl(h, k))
      BY <1>3, <1>5, <1>6, RestOfAppend
    <2>2. AllPaired(Rest)' <=> AllPaired(Rest')
      BY DEF AllPaired, Paired
    <2>3. AllPaired(Rest)'
      BY <1>8, <2>1, <2>2
    <2>4. (rpc \in Kind /\ queue # << >> => Head(queue).kind = rpc)'
      BY <1>3, <1>5, <1>6, RestOfAppend, InStepOfRest
    <2> QED BY <2>3, <2>4, InStepOfRest, PTL
  <1>10. EndOK'
    <2>1. Live(h)' /\ todo'[h] = Tail(t)
      <3>1. todo'[h] = Tail(t) /\ qid'[h] = "live"
        BY <1>3 DEF TypeOK
      <3>2. Head(Tail(t)).kind # "ctrl"
        BY <1>1, <1>2, KindOfMessage
      <3> QED BY <3>1, <3>2, <1>2 DEF Live, MidPair
    <2>2. \A g \in Handler \ {h} : ~Live(g)'
      BY <1>3 DEF Live, MidPair, TypeOK
    <2>3. OpenBy(h)'
      <3>1. queue' # << >> /\ queue'[Len(queue')] = Ctrl(h, k)
        BY <1>3, <1>6, RestOfAppend
      <3>2. Tail(t)[1].of = k
        BY <1>1, <1>2 DEF Payload
      <3> QED BY <3>1, <3>2, <2>1 DEF OpenBy
    <2> QED BY <2>1, <2>2, <2>3 DEF EndOK
  <1> QED BY <1>9, <1>10

(* A handler ends the pair it began.                                         *)
LEMMA SendPayloadInStep ==
  ASSUME TypeOK, TypeOK', TodoOK, InStep, EndOK, NEW h \in Handler, Send(h), ~torn',
         Head(todo[h]).kind # "ctrl"
  PROVE  InStep' /\ EndOK'
  <1> DEFINE t == todo[h]
             k == Head(t).of
  <1>1. t \in Seq(Message) /\ t # << >> /\ Head(t) \in Message /\ k \in Kind
        /\ Head(t) = t[1]
    BY DEF Send, TypeOK, Message
  <1>2. /\ Head(t) = Payload(h, k)
        /\ Tail(t) # << >> => Head(Tail(t)).kind = "ctrl"
    <2>1. Head(t) = Ctrl(h, k) \/ Head(t) = Payload(h, k)
      BY <1>1, RestAlternates DEF TodoOK
    <2>2. Ctrl(h, k).kind = "ctrl"
      BY <1>1, KindOfMessage
    <2> QED BY <2>1, <2>2, <1>1, RestAlternates DEF TodoOK
  <1>3. /\ queue' = Append(queue, Payload(h, k)) /\ rpc' = rpc /\ qid' = qid
        /\ todo' = [todo EXCEPT ![h] = Tail(t)] /\ qid[h] = "live"
        /\ \A g \in Handler \ {h} : ~Live(g)
    BY <1>2 DEF Send, Live
  <1>4. Live(h) /\ OpenBy(h)
    BY <1>1, <1>3 DEF EndOK, Live, MidPair
  <1>5. Payload(h, k) \in Message /\ Payload(h, k).kind = k /\ k # "ctrl"
        /\ Ctrl(h, k).kind = "ctrl"
    BY <1>1, KindOfMessage
  <1>6. /\ AllPaired(Rest)
        /\ rpc \in Kind /\ queue # << >> => Head(queue).kind = rpc
    BY InStepOfRest
  <1>7. AllPaired(Rest')
    <2>1. CASE queue = << >>
      <3>1. rpc \in Kind
        BY <1>1, <1>4, <2>1 DEF OpenBy
      <3>2. Rest' = << >>
        BY <3>1, <2>1, <1>3, <1>5, RestOfAppend
      <3> QED BY <3>2 DEF AllPaired
    <2>2. CASE queue # << >>
      <3>1. queue[Len(queue)] = Ctrl(h, k)
        BY <1>1, <1>4, <2>2 DEF OpenBy
      <3>2. Rest # << >> /\ Rest[Len(Rest)] = Ctrl(h, k)
        <4>1. CASE rpc \in Kind
          <5>1. Tail(queue) # << >>
            BY <3>1, <4>1, <2>2, <1>5, <1>6, LastOfTail, KindAssumption DEF TypeOK
          <5> QED BY <5>1, <4>1, <2>2, <3>1, LastOfTail DEF Rest, TypeOK
        <4>2. CASE rpc \notin Kind
          BY <4>2, <2>2, <3>1 DEF Rest
        <4> QED BY <4>1, <4>2
      <3>3. Rest \in Seq(Message) /\ Rest' = Append(Rest, Payload(h, k))
        BY <2>2, <1>3, <1>5, RestOfAppend
      <3> QED BY <1>1, <1>6, <3>2, <3>3, PairedWithPayload
    <2> QED BY <2>1, <2>2
  <1>8. InStep'
    <2>1. AllPaired(Rest)' <=> AllPaired(Rest')
      BY DEF AllPaired, Paired
    <2>2. (rpc \in Kind /\ queue # << >> => Head(queue).kind = rpc)'
      <3>1. CASE queue = << >>
        <4>1. rpc = k
          BY <1>1, <1>4, <3>1 DEF OpenBy
        <4> QED BY <4>1, <3>1, <1>3, <1>5, RestOfAppend
      <3>2. CASE queue # << >>
        BY <3>2, <1>3, <1>5, <1>6, RestOfAppend
      <3> QED BY <3>1, <3>2
    <2>3. AllPaired(Rest)'
      BY <1>7, <2>1
    <2> QED BY <2>2, <2>3, InStepOfRest, PTL
  <1>9. EndOK'
    <2>1. ~Live(h)'
      <3>1. todo'[h] = Tail(t)
        BY <1>3 DEF TypeOK
      <3> QED BY <3>1, <1>2 DEF Live, MidPair
    <2>2. \A g \in Handler \ {h} : ~Live(g)'
      BY <1>3 DEF Live, MidPair, TypeOK
    <2>3. Closed'
      BY <1>3, <1>5, RestOfAppend DEF Closed
    <2> QED BY <2>1, <2>2, <2>3 DEF EndOK
  <1> QED BY <1>8, <1>9

(* The receiver takes the announcement of a pair.                            *)
LEMMA RecvCtrlInStep ==
  ASSUME TypeOK, TypeOK', InStep, EndOK, RecvCtrl, ~torn'
  PROVE  InStep' /\ EndOK'
  <1> DEFINE k == Head(queue).of
             t == Tail(queue)
  <1>1. /\ queue \in Seq(Message) /\ queue # << >> /\ Head(queue) \in Message
        /\ k \in Kind /\ k \in Known /\ rpc = "ctrl" /\ rpc \notin Kind
    <2>1. queue \in Seq(Message) /\ queue # << >>
      BY DEF RecvCtrl, TypeOK
    <2>2. Head(queue) \in Message
      BY <2>1
    <2>3. torn' = (torn \/ k \notin Known) /\ rpc = "ctrl"
      BY DEF RecvCtrl
    <2>4. k \in Known
      BY <2>3
    <2> HIDE DEF k
    <2>5. k \in Kind /\ rpc \notin Kind
      BY <2>3, <2>4, KnownAssumption, KindAssumption
    <2> QED BY <2>1, <2>2, <2>3, <2>4, <2>5
  <1>2. queue' = t /\ rpc' = k /\ UNCHANGED <<qid, todo>>
    BY <1>1 DEF RecvCtrl
  <1>3. AllPaired(queue)
    BY <1>1, InStepOfRest DEF Rest
  <1>4. /\ Head(queue).kind = "ctrl"
        /\ t # << >> => Head(t).kind = k /\ AllPaired(Tail(t))
    BY <1>1, <1>3, PairedAfterCtrl
  <1>5. t \in Seq(Message) /\ (t # << >> => t[Len(t)] = queue[Len(queue)])
        /\ (t = << >> => queue[Len(queue)] = Head(queue))
    BY <1>1, LastOfTail
  <1> HIDE DEF t, k
  <1>6. InStep'
    <2>1. Rest' = IF t # << >> THEN Tail(t) ELSE << >>
      BY <1>1, <1>2 DEF Rest
    <2>2. AllPaired(<< >>)
      BY DEF AllPaired
    <2>3. AllPaired(Rest')
      BY <2>1, <2>2, <1>4
    <2>4. AllPaired(Rest)' <=> AllPaired(Rest')
      BY DEF AllPaired, Paired
    <2>5. (rpc \in Kind /\ queue # << >> => Head(queue).kind = rpc)'
      BY <1>2, <1>4
    <2>6. AllPaired(Rest)'
      BY <2>3, <2>4
    <2> QED BY <2>5, <2>6, InStepOfRest, PTL
  <1>7. EndOK'
    <2>1. \A h \in Handler : Live(h)' <=> Live(h)
      BY <1>2 DEF Live, MidPair
    <2>2. ASSUME NEW h \in Handler, Live(h) PROVE OpenBy(h)'
      <3>1. queue[Len(queue)] = Ctrl(h, todo[h][1].of)
        BY <2>2, <1>1 DEF EndOK, OpenBy
      <3>2. CASE t = << >>
        <4>1. Head(queue) = Ctrl(h, todo[h][1].of)
          BY <3>1, <3>2, <1>5
        <4>2. k = todo[h][1].of
          BY <4>1 DEF Ctrl, k
        <4> QED BY <4>2, <3>2, <1>2 DEF OpenBy
      <3>3. CASE t # << >>
        BY <3>1, <3>3, <1>5, <1>2 DEF OpenBy
      <3> QED BY <3>2, <3>3
    <2>3. ASSUME \A h \in Handler : ~Live(h) PROVE Closed'
      <3>1. queue[Len(queue)].kind # "ctrl"
        BY <2>3, <1>1 DEF EndOK, Closed
      <3>2. t # << >>
        BY <3>1, <1>4, <1>5
      <3> QED BY <3>1, <3>2, <1>5, <1>2 DEF Closed
    <2> QED BY <2>1, <2>2, <2>3 DEF EndOK
  <1> QED BY <1>6, <1>7

(* The receiver takes the payload it is waiting for.                         *)
LEMMA LoadInStep ==
  ASSUME TypeOK, TypeOK', InStep, EndOK, Load
  PROVE  InStep' /\ EndOK'
  <1> DEFINE t == Tail(queue)
  <1>1. /\ queue \in Seq(Message) /\ queue # << >> /\ rpc \in Kind
        /\ queue' = t /\ rpc' = "top" /\ rpc' \notin Kind
        /\ UNCHANGED <<qid, todo>>
    BY KindAssumption DEF Load, TypeOK
  <1>2. Head(queue).kind = rpc /\ rpc # "ctrl" /\ AllPaired(t)
    BY <1>1, InStepOfRest, KindAssumption DEF Rest
  <1>3. t \in Seq(Message) /\ (t # << >> => t[Len(t)] = queue[Len(queue)])
        /\ (t = << >> => queue[Len(queue)] = Head(queue))
    BY <1>1, LastOfTail
  <1> HIDE DEF t
  <1>4. InStep'
    <2>1. Rest' = t
      BY <1>1 DEF Rest
    <2>2. AllPaired(Rest)' <=> AllPaired(Rest')
      BY DEF AllPaired, Paired
    <2>3. (rpc \in Kind /\ queue # << >> => Head(queue).kind = rpc)'
      BY <1>1
    <2>4. AllPaired(Rest)'
      BY <2>1, <2>2, <1>2
    <2> QED BY <2>3, <2>4, InStepOfRest, PTL
  <1>5. EndOK'
    <2>1. \A h \in Handler : Live(h)' <=> Live(h)
      BY <1>1 DEF Live, MidPair
    <2>2. ASSUME NEW h \in Handler, Live(h) PROVE OpenBy(h)'
      <3>1. queue[Len(queue)] = Ctrl(h, todo[h][1].of)
        BY <2>2, <1>1 DEF EndOK, OpenBy
      <3>2. queue[Len(queue)].kind = "ctrl"
        BY <3>1 DEF Ctrl
      <3>3. t # << >>
        BY <3>2, <1>2, <1>3
      <3> QED BY <3>1, <3>3, <1>1, <1>3 DEF OpenBy
    <2>3. ASSUME \A h \in Handler : ~Live(h) PROVE Closed'
      BY <2>3, <1>1, <1>3 DEF EndOK, Closed
    <2> QED BY <2>1, <2>2, <2>3 DEF EndOK
  <1> QED BY <1>4, <1>5

-----------------------------------------------------------------------------
(* A step that tears no pair keeps the receiver in step.                     *)
LEMMA NextInStep ==
  ASSUME Inv, [Next]_vars, ~torn'
  PROVE  InStep' /\ EndOK'
  <1>1. TypeOK /\ TodoOK /\ TypeOK' /\ TodoOK'
    BY NextTypeOK DEF Inv
  <1> USE <1>1
  <1>2. CASE RemoveMQ
    <2>1. queue' = << >> /\ rpc' = "off" /\ rpc' \notin Kind
          /\ \A h \in Handler : ~Live(h)'
      BY <1>2, KindAssumption DEF RemoveMQ, TypeOK, Live
    <2>2. InStep'
      BY <2>1 DEF InStep
    <2>3. EndOK'
      BY <2>1 DEF EndOK, Closed
    <2> QED BY <2>2, <2>3
  <1>3. CASE ~RemoveMQ
    <2>1. ~torn
      BY <1>3 DEF Next, OpenMQ, Send, Refuse, CreateMQ, Receive, Loop, RecvCtrl,
                  RecvCtrlTooBig, Load, LoadTooBig, RecvNothing, Exit, Crash, vars
    <2>2. InStep /\ EndOK
      BY <2>1 DEF Inv
    <2> USE <2>2
    <2>3. ASSUME NEW h \in Handler, OpenMQ(h) PROVE InStep' /\ EndOK'
      <3>1. PICK ks \in {Report, Front(Report)} :
              todo' = [todo EXCEPT ![h] = Messages(h, ks)]
        BY <2>3 DEF OpenMQ
      <3>2. ks \in Seq(Kind)
        BY <3>1, ReportFront
      <3>3. todo'[h] = << >> \/ Head(todo'[h]).kind = "ctrl"
        BY <3>1, <3>2, ReportAlternates DEF TypeOK
      <3>4. ~Live(h) /\ ~Live(h)'
        BY <2>3, <3>3 DEF OpenMQ, Live, MidPair
      <3>5. \A g \in Handler \ {h} : todo'[g] = todo[g] /\ qid'[g] = qid[g]
        BY <2>3, <3>1 DEF OpenMQ, TypeOK
      <3>6. queue' = queue /\ rpc' = rpc
        BY <2>3 DEF OpenMQ
      <3>7. \A g \in Handler : /\ Live(g)' <=> Live(g)
                               /\ Live(g) => todo'[g] = todo[g]
        BY <3>4, <3>5 DEF Live, MidPair
      <3> QED BY <3>6, <3>7, QueueUnchanged
    <2>4. ASSUME NEW h \in Handler, Send(h) PROVE InStep' /\ EndOK'
      BY <2>4, SendCtrlInStep, SendPayloadInStep
    <2>5. ASSUME NEW h \in Handler, Refuse(h) PROVE InStep' /\ EndOK'
      <3>1. ~Live(h) /\ todo'[h] = << >>
        BY <2>5 DEF Refuse, Live, TypeOK
      <3>2. ~Live(h)'
        BY <3>1 DEF Live, MidPair
      <3>3. \A g \in Handler \ {h} : todo'[g] = todo[g] /\ qid'[g] = qid[g]
        BY <2>5 DEF Refuse, TypeOK
      <3>4. queue' = queue /\ rpc' = rpc
        BY <2>5 DEF Refuse
      <3>5. \A g \in Handler : /\ Live(g)' <=> Live(g)
                               /\ Live(g) => todo'[g] = todo[g]
        BY <3>1, <3>2, <3>3 DEF Live, MidPair
      <3> QED BY <3>4, <3>5, QueueUnchanged
    <2>6. CASE Crash
      <3>1. \A g \in Handler : ~Live(g) /\ ~Live(g)'
        BY <2>6 DEF Crash, Live, MidPair
      <3>2. queue' = queue /\ rpc' = rpc
        BY <2>6 DEF Crash
      <3> QED BY <3>1, <3>2, QueueUnchanged
    <2>7. CASE RecvCtrl
      BY <2>7, RecvCtrlInStep
    <2>8. CASE Load
      BY <2>8, LoadInStep
    <2>9. CASE CreateMQ \/ Loop \/ RecvCtrlTooBig \/ RecvNothing \/ Exit
                \/ UNCHANGED vars
      <3>1. queue' = queue /\ UNCHANGED <<qid, todo>>
        BY <2>9 DEF CreateMQ, Loop, RecvCtrlTooBig, RecvNothing, Exit, vars
      <3>2. rpc' = rpc \/ (rpc \notin Kind /\ rpc' \notin Kind)
        BY <2>9, KindAssumption DEF CreateMQ, Loop, RecvCtrlTooBig, RecvNothing,
                                    Exit, TypeOK, vars
      <3>3. \A g \in Handler : /\ Live(g)' <=> Live(g)
                               /\ Live(g) => todo'[g] = todo[g]
        BY <3>1 DEF Live, MidPair
      <3> QED BY <3>1, <3>2, <3>3, QueueUnchanged
    <2>10. ~LoadTooBig
      BY DEF LoadTooBig
    <2> QED BY <1>3, <2>3, <2>4, <2>5, <2>6, <2>7, <2>8, <2>9, <2>10
            DEF Next, Receive
  <1> QED BY <1>2, <1>3

(* The inductive invariant holds in every state.                             *)
THEOREM Invariant == Spec => []Inv
  <1>1. Inv /\ [Next]_vars => Inv'
    <2> SUFFICES ASSUME Inv, [Next]_vars PROVE Inv'
      OBVIOUS
    <2>1. TypeOK' /\ TodoOK'
      BY NextTypeOK DEF Inv
    <2>2. ExistsOK'
      BY NextExistsOK DEF Inv
    <2>3. ~torn' => InStep' /\ EndOK'
      BY NextInStep
    <2> QED BY <2>1, <2>2, <2>3 DEF Inv
  <1> QED BY <1>1, InitInv, PTL DEF Spec

(* Every variable keeps its type, for either receiver and any report.        *)
THEOREM MonitorTypeCorrect == Spec => []TypeOK
  <1>1. Inv => TypeOK
    BY DEF Inv
  <1> QED BY <1>1, Invariant, PTL

(* The receiver loses step with the queue only in the ways that set torn: a  *)
(* refused payload, two threads sending at once, a process that dies between *)
(* the two messages of a pair, a payload given up.                           *)
THEOREM InStepUnlessPairTorn == Spec => []InStepUnlessTorn
  <1>1. Inv => InStepUnlessTorn
    BY DEF Inv, InStepUnlessTorn
  <1> QED BY <1>1, Invariant, PTL

(* A payload where a control message should be stays there until the queue   *)
(* is removed, whoever is started or dies in the meantime.                   *)
THEOREM WedgeStays == Spec => WedgeOutlivesRestart
  <1>1. Inv /\ [Next]_vars => (Wedged /\ exists' => Wedged')
    <2> SUFFICES ASSUME Inv, [Next]_vars, Wedged, exists' PROVE Wedged'
      OBVIOUS
    <2>1. queue \in Seq(Message) /\ queue # << >> /\ Head(queue).kind \in Kind
          /\ rpc \in {"off", "top", "ctrl"} /\ rpc \notin Kind
      <3>1. queue \in Seq(Message) /\ queue # << >> /\ Head(queue).kind # "ctrl"
            /\ rpc \in {"off", "top", "ctrl"}
        BY DEF Inv, TypeOK, Wedged
      <3>2. Head(queue) \in Message
        BY <3>1
      <3>3. Head(queue).kind \in Kind \cup {"ctrl"}
        BY <3>2 DEF Message
      <3>4. rpc \notin Kind
        BY <3>1, KindAssumption
      <3> QED BY <3>1, <3>3, <3>4
    <2>2. ASSUME NEW h \in Handler, Send(h) PROVE Wedged'
      <3>1. Head(todo[h]) \in Message
        BY <2>2 DEF Inv, TypeOK, Send
      <3>2. queue' # << >> /\ Head(queue') = Head(queue)
        BY <2>1, <2>2, <3>1 DEF Send
      <3> QED BY <2>1, <2>2, <3>2, KindAssumption DEF Send, Wedged
    <2>3. ~RecvCtrl
      <3> DEFINE k == Head(queue).kind
      <3>1. k \in Kind
        BY <2>1
      <3>2. RecvCtrl => Size[k] <= Size["ctrl"]
        BY DEF RecvCtrl
      <3> HIDE DEF k
      <3>3. Size[k] \in Nat /\ Size["ctrl"] \in Nat /\ Size["ctrl"] < Size[k]
        BY <3>1, SizeAssumption
      <3>4. ~(Size[k] <= Size["ctrl"])
        BY <3>3
      <3> QED BY <3>2, <3>4
    <2>4. ~Load /\ ~LoadTooBig /\ ~RemoveMQ
      BY <2>1 DEF Load, LoadTooBig, RemoveMQ
    <2>5. ASSUME NEW h \in Handler, OpenMQ(h) \/ Refuse(h) PROVE Wedged'
      BY <2>5 DEF OpenMQ, Refuse, Wedged
    <2>6. CASE CreateMQ \/ Loop \/ RecvCtrlTooBig \/ RecvNothing \/ Exit
               \/ Crash \/ UNCHANGED vars
      BY <2>6, <2>1 DEF CreateMQ, Loop, RecvCtrlTooBig, RecvNothing, Exit, Crash,
                        Wedged, vars
    <2> QED BY <2>2, <2>3, <2>4, <2>5, <2>6 DEF Next, Receive
  <1> QED BY <1>1, Invariant, PTL DEF Spec, WedgeOutlivesRestart

-------------------------------------------------------------------------------
(* The screen of the monitor.                                                 *)
(* What is on the screen and in the bitmaps, and where the threads are.        *)
Contents ==
  /\ ibm \in [Part -> Nat] /\ bbm \in [Part -> [no : Nat, used : BOOLEAN]]
  /\ marks \in [Part -> SUBSET {"r", "w", "d"}]
  /\ last \in [Part -> {"none", "r", "w", "d"}]
  /\ report \in [no : Nat, flag : Flag \cup {"none"}, blk : SUBSET Part]
  /\ drawn \in [mode : {"none", "inode", "block"}, part : [Part -> Nat]]

Places ==
  /\ lock \in {"free", "receiver", "redraw", "about"}
  /\ changed \in BOOLEAN /\ about \in BOOLEAN /\ missed \in BOOLEAN /\ yes \in BOOLEAN
  /\ mode \in {"inode", "block"} /\ bean \in {"off", "told", "on"}
  /\ npc \in {"idle", "ibm", "ibm2", "bbm", "bbm2", "fio"}
  /\ dpc \in {"idle", "wait", "look", "inode1", "inode2", "block1", "block2", "end"}
  /\ kpc \in {"menu", "mode", "flag", "about", "shown", "join", "popup", "exited"}
  /\ selected \in Int /\ sub \in Int

ScreenTypeOK == Contents /\ Places

(* Who holds the lock is where it is held.                                    *)
Redrawing == dpc \in {"look", "inode1", "inode2", "block1", "block2", "end"}

Locks ==
  /\ lock = "receiver" <=> (npc \in {"ibm2", "bbm2"})
  /\ lock = "redraw" <=> Redrawing
  /\ lock = "about" <=> (kpc \in {"shown", "join"})
  /\ about <=> (kpc \in {"shown", "join"})

(* A bitmap is of one report, but while the receiver is half-way through it.  *)
WholeBitmaps ==
  /\ IF npc = "ibm2" THEN ibm[1] = report.no ELSE ibm[1] = ibm[2]
  /\ IF npc = "bbm2" THEN bbm[1].no = report.no ELSE bbm[1].no = bbm[2].no

(* What a redraw has drawn so far, and what it has looked at.                 *)
DrawnSoFar ==
  /\ dpc \in {"look", "inode1", "block1"} => drawn.part[1] = 0 /\ drawn.part[2] = 0
  /\ dpc = "inode2" => drawn.part[1] = ibm[1]
  /\ dpc = "block2" => drawn.part[1] = bbm[1].no
  /\ ~missed /\ dpc \in {"inode1", "inode2"} => mode = "inode"
  /\ ~missed /\ dpc \in {"look", "block1", "block2"} => mode = "block"
  /\ ~missed /\ dpc = "end" => drawn = Current

(* The place in menu 0, also while it is not in use.                          *)
InMenu == /\ selected = 0 => sub \in 0 .. SubMenu - 1
          /\ kpc = "mode" => selected = 0

(* A block is not both read and written, and a mount says nothing of blocks.  *)
Apart == /\ \A p \in Part : "r" \in marks[p] => "w" \notin marks[p]
         /\ report.flag = "none" => report.blk = {}

USE DEF Part, Flag, bitmaps, screen, menu, screenVars, Running

-------------------------------------------------------------------------------
LEMMA InitType == ScreenInit => ScreenTypeOK
  <1> SUFFICES ASSUME ScreenInit PROVE ScreenTypeOK
    OBVIOUS
  <1>1. Contents
    BY DEF Contents, ScreenInit, NoReport
  <1>2. Places
    <2>1. selected \in Int /\ sub \in Int
      BY DEF ScreenInit
    <2>2. /\ lock = "free" /\ changed = FALSE /\ about = FALSE /\ missed = FALSE /\ yes = TRUE
          /\ mode = "inode" /\ bean = "off" /\ npc = "idle" /\ dpc = "idle" /\ kpc = "menu"
      BY DEF ScreenInit
    <2> QED BY <2>1, <2>2, Zenon DEF Places
  <1> QED BY <1>1, <1>2 DEF ScreenTypeOK

LEMMA NextContents == ScreenTypeOK /\ [ScreenNext]_screenVars => Contents'
  <1> SUFFICES ASSUME Contents, Places, [ScreenNext]_screenVars PROVE Contents'
    BY DEF ScreenTypeOK
  <1> USE DEF Contents
  <1>1. CASE LoadSuperBlk
    BY <1>1 DEF LoadSuperBlk, Stay
  <1>2. CASE UpdateInodes
    BY <1>2 DEF UpdateInodes, Stay
  <1>3. CASE UpdateBlocks
    <2>1. \A p \in Part : Bits(p) \in [no : Nat, used : BOOLEAN]
      BY DEF Bits
    <2>2. bbm' \in [Part -> [no : Nat, used : BOOLEAN]]
      BY <1>3, <2>1 DEF UpdateBlocks
    <2> QED BY <1>3, <2>2 DEF UpdateBlocks, Stay
  <1>4. CASE UpdateBlocksForIO
    BY <1>4 DEF UpdateBlocksForIO, Stay, Marked
  <1>5. CASE SeeChange
    BY <1>5 DEF SeeChange, Leave
  <1>6. CASE BeginRedraw
    BY <1>6 DEF BeginRedraw, Leave
  <1>7. CASE LookAgain
    BY <1>7 DEF LookAgain, Leave
  <1>8. CASE Draw
    BY <1>8 DEF Draw, Drawing, Leave
  <1>9. CASE EndRedraw
    BY <1>9 DEF EndRedraw, Leave
  <1>10. CASE Key
    BY <1>10 DEF Key, RestStays
  <1>11. CASE SetMode
    BY <1>11 DEF SetMode, RestStays
  <1>12. CASE SetFlag
    BY <1>12 DEF SetFlag, RestStays
  <1>13. CASE OpenAbout
    BY <1>13 DEF OpenAbout, RestStays
  <1>14. CASE AnyKey
    BY <1>14 DEF AnyKey, RestStays
  <1>15. CASE CloseAbout
    BY <1>15 DEF CloseAbout, RestStays
  <1>16. CASE BeanEnds
    BY <1>16 DEF BeanEnds, RestStays
  <1>17. CASE Popup
    BY <1>17 DEF Popup, RestStays
  <1>18. CASE UNCHANGED screenVars
    BY <1>18
  <1> QED BY <1>1, <1>2, <1>3, <1>4, <1>5, <1>6, <1>7, <1>8, <1>9,
             <1>10, <1>11, <1>12, <1>13, <1>14, <1>15, <1>16, <1>17, <1>18
          DEF ScreenNext, ReceiveReport, Redraw, Keys, Stopped

LEMMA NextPlaces == ScreenTypeOK /\ [ScreenNext]_screenVars => Places'
  <1> SUFFICES ASSUME Contents, Places, [ScreenNext]_screenVars PROVE Places'
    BY DEF ScreenTypeOK
  <1> USE DEF Places
  <1>1. CASE LoadSuperBlk
    BY <1>1 DEF LoadSuperBlk, Stay
  <1>2. CASE UpdateInodes
    BY <1>2 DEF UpdateInodes, Stay, Take, Give
  <1>3. CASE UpdateBlocks
    BY <1>3 DEF UpdateBlocks, Stay, Take, Give
  <1>4. CASE UpdateBlocksForIO
    BY <1>4 DEF UpdateBlocksForIO, Flagged, Stay
  <1>5. CASE SeeChange
    BY <1>5 DEF SeeChange, Leave
  <1>6. CASE BeginRedraw
    BY <1>6 DEF BeginRedraw, Leave, Take
  <1>7. CASE LookAgain
    BY <1>7 DEF LookAgain, Leave
  <1>8. CASE Draw
    BY <1>8 DEF Draw, Drawing, Leave
  <1>9. CASE EndRedraw
    BY <1>9 DEF EndRedraw, Leave, Give
  <1>10. CASE Key
    BY <1>10, MenuAssumption DEF Key, Move, Step, Runs, RestStays
  <1>11. CASE SetMode
    BY <1>11 DEF SetMode, RestStays
  <1>12. CASE SetFlag
    BY <1>12 DEF SetFlag, RestStays
  <1>13. CASE OpenAbout
    BY <1>13 DEF OpenAbout, RestStays, Take
  <1>14. CASE AnyKey
    BY <1>14 DEF AnyKey, RestStays
  <1>15. CASE CloseAbout
    BY <1>15 DEF CloseAbout, Joined, RestStays, Give
  <1>16. CASE BeanEnds
    BY <1>16 DEF BeanEnds, RestStays
  <1>17. CASE Popup
    <2>1. yes' \in BOOLEAN /\ kpc' \in {"popup", "exited", "menu"}
      BY <1>17 DEF Popup
    <2>2. UNCHANGED <<lock, changed, about, missed, mode, bean, npc, dpc, selected, sub>>
      BY <1>17 DEF Popup, RestStays
    <2> QED BY <2>1, <2>2
  <1>18. CASE UNCHANGED screenVars
    BY <1>18
  <1> QED BY <1>1, <1>2, <1>3, <1>4, <1>5, <1>6, <1>7, <1>8, <1>9,
             <1>10, <1>11, <1>12, <1>13, <1>14, <1>15, <1>16, <1>17, <1>18
          DEF ScreenNext, ReceiveReport, Redraw, Keys, Stopped

LEMMA NextLocks == Places /\ Locks /\ [ScreenNext]_screenVars => Locks'
  <1> SUFFICES ASSUME Places, Locks, [ScreenNext]_screenVars PROVE Locks'
    OBVIOUS
  <1> USE DEF Places, Locks, Redrawing
  <1>1. CASE LoadSuperBlk
    BY <1>1 DEF LoadSuperBlk, Stay
  <1>2. CASE UpdateInodes
    BY <1>2 DEF UpdateInodes, Stay, Take, Give
  <1>3. CASE UpdateBlocks
    BY <1>3 DEF UpdateBlocks, Stay, Take, Give
  <1>4. CASE UpdateBlocksForIO
    BY <1>4 DEF UpdateBlocksForIO, Flagged, Stay
  <1>5. CASE SeeChange
    BY <1>5 DEF SeeChange, Leave
  <1>6. CASE BeginRedraw
    BY <1>6 DEF BeginRedraw, Leave, Take
  <1>7. CASE LookAgain
    BY <1>7 DEF LookAgain, Leave
  <1>8. CASE Draw
    BY <1>8 DEF Draw, Drawing, Leave
  <1>9. CASE EndRedraw
    BY <1>9 DEF EndRedraw, Leave, Give
  <1>10. CASE Key
    BY <1>10 DEF Key, Move, Step, Runs, RestStays
  <1>11. CASE SetMode
    BY <1>11 DEF SetMode, RestStays
  <1>12. CASE SetFlag
    BY <1>12 DEF SetFlag, RestStays
  <1>13. CASE OpenAbout
    BY <1>13 DEF OpenAbout, RestStays, Take
  <1>14. CASE AnyKey
    BY <1>14 DEF AnyKey, RestStays
  <1>15. CASE CloseAbout
    BY <1>15 DEF CloseAbout, Joined, RestStays, Give
  <1>16. CASE BeanEnds
    BY <1>16 DEF BeanEnds, RestStays
  <1>17. CASE Popup
    BY <1>17 DEF Popup, RestStays
  <1>18. CASE UNCHANGED screenVars
    BY <1>18
  <1> QED BY <1>1, <1>2, <1>3, <1>4, <1>5, <1>6, <1>7, <1>8, <1>9,
             <1>10, <1>11, <1>12, <1>13, <1>14, <1>15, <1>16, <1>17, <1>18
          DEF ScreenNext, ReceiveReport, Redraw, Keys, Stopped

LEMMA NextWhole == Contents /\ Places /\ Locks /\ WholeBitmaps /\ [ScreenNext]_screenVars => WholeBitmaps'
  <1> SUFFICES ASSUME Contents, Places, Locks, WholeBitmaps, [ScreenNext]_screenVars PROVE WholeBitmaps'
    OBVIOUS
  <1> USE DEF Contents, WholeBitmaps
  <1>1. CASE LoadSuperBlk
    BY <1>1 DEF LoadSuperBlk, Stay
  <1>2. CASE UpdateInodes
    BY <1>2 DEF UpdateInodes, Stay
  <1>3. CASE UpdateBlocks
    <2>1. \A p \in Part : Bits(p).no = report.no
      BY DEF Bits
    <2> QED BY <1>3, <2>1 DEF UpdateBlocks, Stay
  <1>4. CASE UpdateBlocksForIO
    BY <1>4 DEF UpdateBlocksForIO, Stay
  <1>5. CASE SeeChange
    BY <1>5 DEF SeeChange, Leave
  <1>6. CASE BeginRedraw
    BY <1>6 DEF BeginRedraw, Leave
  <1>7. CASE LookAgain
    BY <1>7 DEF LookAgain, Leave
  <1>8. CASE Draw
    BY <1>8 DEF Draw, Drawing, Leave
  <1>9. CASE EndRedraw
    BY <1>9 DEF EndRedraw, Leave
  <1>10. CASE Key
    BY <1>10 DEF Key, Move, Step, Runs, RestStays
  <1>11. CASE SetMode
    BY <1>11 DEF SetMode, RestStays
  <1>12. CASE SetFlag
    BY <1>12 DEF SetFlag, RestStays
  <1>13. CASE OpenAbout
    BY <1>13 DEF OpenAbout, RestStays
  <1>14. CASE AnyKey
    BY <1>14 DEF AnyKey, RestStays
  <1>15. CASE CloseAbout
    BY <1>15 DEF CloseAbout, RestStays
  <1>16. CASE BeanEnds
    BY <1>16 DEF BeanEnds, RestStays
  <1>17. CASE Popup
    BY <1>17 DEF Popup, RestStays
  <1>18. CASE UNCHANGED screenVars
    BY <1>18
  <1> QED BY <1>1, <1>2, <1>3, <1>4, <1>5, <1>6, <1>7, <1>8, <1>9,
             <1>10, <1>11, <1>12, <1>13, <1>14, <1>15, <1>16, <1>17, <1>18
          DEF ScreenNext, ReceiveReport, Redraw, Keys, Stopped

LEMMA NextPlace == Places /\ InMenu /\ [ScreenNext]_screenVars => InMenu'
  <1> SUFFICES ASSUME Places, InMenu, [ScreenNext]_screenVars PROVE InMenu'
    OBVIOUS
  <1> USE DEF InMenu
  <1>1. CASE LoadSuperBlk
    BY <1>1 DEF LoadSuperBlk, Stay
  <1>2. CASE UpdateInodes
    BY <1>2 DEF UpdateInodes, Stay
  <1>3. CASE UpdateBlocks
    BY <1>3 DEF UpdateBlocks, Stay
  <1>4. CASE UpdateBlocksForIO
    BY <1>4 DEF UpdateBlocksForIO, Stay
  <1>5. CASE SeeChange
    BY <1>5 DEF SeeChange, Leave
  <1>6. CASE BeginRedraw
    BY <1>6 DEF BeginRedraw, Leave
  <1>7. CASE LookAgain
    BY <1>7 DEF LookAgain, Leave
  <1>8. CASE Draw
    BY <1>8 DEF Draw, Drawing, Leave
  <1>9. CASE EndRedraw
    BY <1>9 DEF EndRedraw, Leave
  <1>10. CASE Key
    BY <1>10, MenuAssumption DEF Key, Move, Step, Runs, RestStays, Places
  <1>11. CASE SetMode
    BY <1>11 DEF SetMode, RestStays
  <1>12. CASE SetFlag
    BY <1>12 DEF SetFlag, RestStays
  <1>13. CASE OpenAbout
    BY <1>13 DEF OpenAbout, RestStays
  <1>14. CASE AnyKey
    BY <1>14 DEF AnyKey, RestStays
  <1>15. CASE CloseAbout
    BY <1>15 DEF CloseAbout, RestStays
  <1>16. CASE BeanEnds
    BY <1>16 DEF BeanEnds, RestStays
  <1>17. CASE Popup
    BY <1>17 DEF Popup, RestStays
  <1>18. CASE UNCHANGED screenVars
    BY <1>18
  <1> QED BY <1>1, <1>2, <1>3, <1>4, <1>5, <1>6, <1>7, <1>8, <1>9,
             <1>10, <1>11, <1>12, <1>13, <1>14, <1>15, <1>16, <1>17, <1>18
          DEF ScreenNext, ReceiveReport, Redraw, Keys, Stopped

LEMMA NextBean == Places /\ Locks /\ BeanHasWindow /\ [ScreenNext]_screenVars => BeanHasWindow'
  <1> SUFFICES ASSUME Places, Locks, BeanHasWindow, [ScreenNext]_screenVars PROVE BeanHasWindow'
    OBVIOUS
  <1> USE DEF BeanHasWindow, Locks
  <1>1. CASE LoadSuperBlk
    BY <1>1 DEF LoadSuperBlk, Stay
  <1>2. CASE UpdateInodes
    BY <1>2 DEF UpdateInodes, Stay
  <1>3. CASE UpdateBlocks
    BY <1>3 DEF UpdateBlocks, Stay
  <1>4. CASE UpdateBlocksForIO
    BY <1>4 DEF UpdateBlocksForIO, Stay
  <1>5. CASE SeeChange
    BY <1>5 DEF SeeChange, Leave
  <1>6. CASE BeginRedraw
    BY <1>6 DEF BeginRedraw, Leave
  <1>7. CASE LookAgain
    BY <1>7 DEF LookAgain, Leave
  <1>8. CASE Draw
    BY <1>8 DEF Draw, Drawing, Leave
  <1>9. CASE EndRedraw
    BY <1>9 DEF EndRedraw, Leave
  <1>10. CASE Key
    BY <1>10 DEF Key, Move, Step, Runs, RestStays
  <1>11. CASE SetMode
    BY <1>11 DEF SetMode, RestStays
  <1>12. CASE SetFlag
    BY <1>12 DEF SetFlag, RestStays
  <1>13. CASE OpenAbout
    BY <1>13 DEF OpenAbout, RestStays
  <1>14. CASE AnyKey
    BY <1>14 DEF AnyKey, RestStays
  <1>15. CASE CloseAbout
    BY <1>15 DEF CloseAbout, Joined, RestStays
  <1>16. CASE BeanEnds
    BY <1>16 DEF BeanEnds, RestStays
  <1>17. CASE Popup
    BY <1>17 DEF Popup, RestStays
  <1>18. CASE UNCHANGED screenVars
    BY <1>18
  <1> QED BY <1>1, <1>2, <1>3, <1>4, <1>5, <1>6, <1>7, <1>8, <1>9,
             <1>10, <1>11, <1>12, <1>13, <1>14, <1>15, <1>16, <1>17, <1>18
          DEF ScreenNext, ReceiveReport, Redraw, Keys, Stopped

LEMMA NextMarks == Contents /\ Apart /\ MarksTellLast /\ [ScreenNext]_screenVars => (Apart /\ MarksTellLast)'
  <1> SUFFICES ASSUME Contents, Apart, MarksTellLast, [ScreenNext]_screenVars PROVE (Apart /\ MarksTellLast)'
    OBVIOUS
  <1> USE DEF Contents, Apart, MarksTellLast
  <1>1. CASE LoadSuperBlk
    BY <1>1 DEF LoadSuperBlk, Stay
  <1>2. CASE UpdateInodes
    BY <1>2 DEF UpdateInodes, Stay
  <1>3. CASE UpdateBlocks
    BY <1>3 DEF UpdateBlocks, Stay
  <1>4. CASE UpdateBlocksForIO
    <2>1. report'.flag = report.flag /\ report'.blk = {}
      BY <1>4 DEF UpdateBlocksForIO
    <2>2. ASSUME NEW p \in Part
          PROVE  /\ "r" \in marks'[p] => "w" \notin marks'[p]
                 /\ last'[p] = IF "w" \in marks'[p] THEN "w"
                               ELSE IF "r" \in marks'[p] THEN "r"
                               ELSE IF "d" \in marks'[p] THEN "d" ELSE "none"
      <3>1. CASE p \in report.blk
        <4>1. marks'[p] = Marked(marks[p], report.flag) /\ report.flag \in Flag
          BY <1>4, <3>1 DEF UpdateBlocksForIO
        <4>2. last'[p] = IF report.flag = "a" THEN last[p] ELSE report.flag
          BY <1>4, <3>1 DEF UpdateBlocksForIO
        <4>3. CASE report.flag = "a"
          BY <4>1, <4>2, <4>3 DEF Marked
        <4>4. CASE report.flag = "r"
          BY <4>1, <4>2, <4>4 DEF Marked
        <4>5. CASE report.flag = "w"
          BY <4>1, <4>2, <4>5 DEF Marked
        <4>6. CASE report.flag = "d"
          BY <4>1, <4>2, <4>6 DEF Marked
        <4> QED BY <4>1, <4>3, <4>4, <4>5, <4>6
      <3>2. CASE p \notin report.blk
        BY <1>4, <3>2 DEF UpdateBlocksForIO
      <3> QED BY <3>1, <3>2
    <2> QED BY <2>1, <2>2
  <1>5. CASE SeeChange
    BY <1>5 DEF SeeChange, Leave
  <1>6. CASE BeginRedraw
    BY <1>6 DEF BeginRedraw, Leave
  <1>7. CASE LookAgain
    BY <1>7 DEF LookAgain, Leave
  <1>8. CASE Draw
    BY <1>8 DEF Draw, Drawing, Leave
  <1>9. CASE EndRedraw
    BY <1>9 DEF EndRedraw, Leave
  <1>10. CASE Key
    BY <1>10 DEF Key, Move, Step, Runs, RestStays
  <1>11. CASE SetMode
    BY <1>11 DEF SetMode, RestStays
  <1>12. CASE SetFlag
    BY <1>12 DEF SetFlag, RestStays
  <1>13. CASE OpenAbout
    BY <1>13 DEF OpenAbout, RestStays
  <1>14. CASE AnyKey
    BY <1>14 DEF AnyKey, RestStays
  <1>15. CASE CloseAbout
    BY <1>15 DEF CloseAbout, RestStays
  <1>16. CASE BeanEnds
    BY <1>16 DEF BeanEnds, RestStays
  <1>17. CASE Popup
    BY <1>17 DEF Popup, RestStays
  <1>18. CASE UNCHANGED screenVars
    BY <1>18
  <1> QED BY <1>1, <1>2, <1>3, <1>4, <1>5, <1>6, <1>7, <1>8, <1>9,
             <1>10, <1>11, <1>12, <1>13, <1>14, <1>15, <1>16, <1>17, <1>18
          DEF ScreenNext, ReceiveReport, Redraw, Keys, Stopped

(* While the redraw holds the lock the bitmaps stay as they are.              *)
LEMMA BitmapsStay == Locks /\ Redrawing => ~UpdateInodes /\ ~UpdateBlocks
  BY DEF Locks, UpdateInodes, UpdateBlocks, Take

LEMMA NextDrawn == Contents /\ Places /\ Locks /\ DrawnSoFar /\ [ScreenNext]_screenVars => DrawnSoFar'
  <1> SUFFICES ASSUME Contents, Places, Locks, DrawnSoFar, [ScreenNext]_screenVars PROVE DrawnSoFar'
    OBVIOUS
  <1> USE DEF Contents, DrawnSoFar, Current, Redrawing
  <1>1. CASE LoadSuperBlk
    BY <1>1 DEF LoadSuperBlk, Stay
  <1>2. CASE UpdateInodes
    <2>1. ~Redrawing
      BY <1>2, BitmapsStay
    <2>2. ~Redrawing'
      BY <1>2, <2>1 DEF UpdateInodes, Stay
    <2> QED BY <2>2
  <1>3. CASE UpdateBlocks
    <2>1. ~Redrawing
      BY <1>3, BitmapsStay
    <2>2. ~Redrawing'
      BY <1>3, <2>1 DEF UpdateBlocks, Stay
    <2> QED BY <2>2
  <1>4. CASE UpdateBlocksForIO
    BY <1>4 DEF UpdateBlocksForIO, Flagged, Stay
  <1>5. CASE SeeChange
    BY <1>5 DEF SeeChange, Leave
  <1>6. CASE BeginRedraw
    BY <1>6 DEF BeginRedraw, Leave, Places
  <1>7. CASE LookAgain
    BY <1>7 DEF LookAgain, Leave, Places
  <1>8. CASE Draw
    <2>1. CASE dpc \in {"inode1", "block1"}
      BY <1>8, <2>1 DEF Draw, Drawing, Leave
    <2>2. CASE dpc = "inode2"
      <3>1. drawn'.part \in [Part -> Nat] /\ drawn'.part[1] = ibm[1] /\ drawn'.part[2] = ibm[2]
        BY <1>8, <2>2 DEF Draw, Drawing
      <3>2. drawn' = [mode |-> "inode", part |-> drawn'.part]
        BY <1>8, <2>2 DEF Draw, Drawing
      <3>3. dpc' = "end" /\ mode' = mode /\ ibm' = ibm /\ missed' = missed
        BY <1>8, <2>2 DEF Draw, Drawing, Leave
      <3>4. ~missed => mode = "inode"
        BY <2>2
      <3>5. drawn'.part = [p \in Part |-> ibm[p]]
        BY <3>1
      <3> QED BY <3>2, <3>3, <3>4, <3>5 DEF Current
    <2>3. CASE dpc = "block2"
      <3>1. drawn'.part \in [Part -> Nat] /\ drawn'.part[1] = bbm[1].no /\ drawn'.part[2] = bbm[2].no
        BY <1>8, <2>3 DEF Draw, Drawing
      <3>2. drawn' = [mode |-> "block", part |-> drawn'.part]
        BY <1>8, <2>3 DEF Draw, Drawing
      <3>3. dpc' = "end" /\ mode' = mode /\ bbm' = bbm /\ missed' = missed
        BY <1>8, <2>3 DEF Draw, Drawing, Leave
      <3>4. ~missed => mode = "block"
        BY <2>3
      <3>5. drawn'.part = [p \in Part |-> bbm[p].no]
        BY <3>1
      <3> QED BY <3>2, <3>3, <3>4, <3>5 DEF Current
    <2> QED BY <1>8, <2>1, <2>2, <2>3 DEF Draw
  <1>9. CASE EndRedraw
    BY <1>9 DEF EndRedraw, Leave, Give
  <1>10. CASE Key
    BY <1>10 DEF Key, RestStays
  <1>11. CASE SetMode
    BY <1>11 DEF SetMode, RestStays
  <1>12. CASE SetFlag
    BY <1>12 DEF SetFlag, RestStays
  <1>13. CASE OpenAbout
    BY <1>13 DEF OpenAbout, RestStays, Take
  <1>14. CASE AnyKey
    BY <1>14 DEF AnyKey, RestStays
  <1>15. CASE CloseAbout
    BY <1>15 DEF CloseAbout, RestStays
  <1>16. CASE BeanEnds
    BY <1>16 DEF BeanEnds, RestStays
  <1>17. CASE Popup
    BY <1>17 DEF Popup, RestStays
  <1>18. CASE UNCHANGED screenVars
    BY <1>18
  <1> QED BY <1>1, <1>2, <1>3, <1>4, <1>5, <1>6, <1>7, <1>8, <1>9,
             <1>10, <1>11, <1>12, <1>13, <1>14, <1>15, <1>16, <1>17, <1>18
          DEF ScreenNext, ReceiveReport, Redraw, Keys, Stopped

LEMMA NextNoTorn == Contents /\ Locks /\ WholeBitmaps /\ DrawnSoFar /\ NoTornDrawing /\ [ScreenNext]_screenVars => NoTornDrawing'
  <1> SUFFICES ASSUME Contents, Locks, WholeBitmaps, DrawnSoFar, NoTornDrawing, [ScreenNext]_screenVars PROVE NoTornDrawing'
    OBVIOUS
  <1> USE DEF Contents, Locks, Redrawing, WholeBitmaps, DrawnSoFar, NoTornDrawing
  <1>1. CASE LoadSuperBlk
    BY <1>1 DEF LoadSuperBlk, Stay
  <1>2. CASE UpdateInodes
    BY <1>2 DEF UpdateInodes, Stay
  <1>3. CASE UpdateBlocks
    BY <1>3 DEF UpdateBlocks, Stay
  <1>4. CASE UpdateBlocksForIO
    BY <1>4 DEF UpdateBlocksForIO, Stay
  <1>5. CASE SeeChange
    BY <1>5 DEF SeeChange, Leave
  <1>6. CASE BeginRedraw
    BY <1>6 DEF BeginRedraw, Leave
  <1>7. CASE LookAgain
    BY <1>7 DEF LookAgain, Leave
  <1>8. CASE Draw
    <2>1. CASE dpc \in {"inode1", "block1"}
      BY <1>8, <2>1 DEF Draw, Drawing
    <2>2. CASE dpc \in {"inode2", "block2"}
      <3>1. ibm[1] = ibm[2] /\ bbm[1].no = bbm[2].no
        BY <2>2
      <3>2. drawn'.part[1] = drawn'.part[2]
        BY <1>8, <2>2, <3>1 DEF Draw, Drawing
      <3> QED BY <3>2
    <2> QED BY <1>8, <2>1, <2>2 DEF Draw
  <1>9. CASE EndRedraw
    BY <1>9 DEF EndRedraw, Leave
  <1>10. CASE Key
    BY <1>10 DEF Key, RestStays
  <1>11. CASE SetMode
    BY <1>11 DEF SetMode, RestStays
  <1>12. CASE SetFlag
    BY <1>12 DEF SetFlag, RestStays
  <1>13. CASE OpenAbout
    BY <1>13 DEF OpenAbout, RestStays
  <1>14. CASE AnyKey
    BY <1>14 DEF AnyKey, RestStays
  <1>15. CASE CloseAbout
    BY <1>15 DEF CloseAbout, RestStays
  <1>16. CASE BeanEnds
    BY <1>16 DEF BeanEnds, RestStays
  <1>17. CASE Popup
    BY <1>17 DEF Popup, RestStays
  <1>18. CASE UNCHANGED screenVars
    BY <1>18
  <1> QED BY <1>1, <1>2, <1>3, <1>4, <1>5, <1>6, <1>7, <1>8, <1>9,
             <1>10, <1>11, <1>12, <1>13, <1>14, <1>15, <1>16, <1>17, <1>18
          DEF ScreenNext, ReceiveReport, Redraw, Keys, Stopped

LEMMA NextUndrawn == Places /\ Locks /\ DrawnSoFar /\ NothingUndrawn /\ [ScreenNext]_screenVars => NothingUndrawn'
  <1> SUFFICES ASSUME Places, Locks, DrawnSoFar, NothingUndrawn, [ScreenNext]_screenVars PROVE NothingUndrawn'
    OBVIOUS
  <1> USE DEF NothingUndrawn, Current
  <1>1. CASE LoadSuperBlk
    BY <1>1 DEF LoadSuperBlk, Stay
  <1>2. CASE UpdateInodes
    BY <1>2 DEF UpdateInodes, Stay
  <1>3. CASE UpdateBlocks
    BY <1>3 DEF UpdateBlocks, Stay
  <1>4. CASE UpdateBlocksForIO
    BY <1>4 DEF UpdateBlocksForIO, Flagged, Stay
  <1>5. CASE SeeChange
    BY <1>5 DEF SeeChange, Leave
  <1>6. CASE BeginRedraw
    BY <1>6 DEF BeginRedraw, Leave
  <1>7. CASE LookAgain
    BY <1>7 DEF LookAgain, Leave
  <1>8. CASE Draw
    BY <1>8 DEF Draw, Drawing, Leave
  <1>9. CASE EndRedraw
    BY <1>9 DEF EndRedraw, Leave, DrawnSoFar
  <1>10. CASE Key
    BY <1>10 DEF Key, RestStays
  <1>11. CASE SetMode
    BY <1>11 DEF SetMode, RestStays
  <1>12. CASE SetFlag
    BY <1>12 DEF SetFlag, RestStays
  <1>13. CASE OpenAbout
    BY <1>13 DEF OpenAbout, RestStays
  <1>14. CASE AnyKey
    BY <1>14 DEF AnyKey, RestStays
  <1>15. CASE CloseAbout
    BY <1>15 DEF CloseAbout, RestStays
  <1>16. CASE BeanEnds
    BY <1>16 DEF BeanEnds, RestStays
  <1>17. CASE Popup
    BY <1>17 DEF Popup, RestStays
  <1>18. CASE UNCHANGED screenVars
    BY <1>18
  <1> QED BY <1>1, <1>2, <1>3, <1>4, <1>5, <1>6, <1>7, <1>8, <1>9,
             <1>10, <1>11, <1>12, <1>13, <1>14, <1>15, <1>16, <1>17, <1>18
          DEF ScreenNext, ReceiveReport, Redraw, Keys, Stopped

-------------------------------------------------------------------------------
IInv == /\ ScreenTypeOK /\ Locks /\ WholeBitmaps /\ DrawnSoFar /\ InMenu /\ Apart
        /\ NoTornDrawing /\ NothingUndrawn /\ MarksTellLast /\ BeanHasWindow

LEMMA InitIInv == ScreenInit => IInv
  <1> SUFFICES ASSUME ScreenInit PROVE IInv
    OBVIOUS
  <1>1. ScreenTypeOK
    BY InitType
  <1>2. Locks /\ BeanHasWindow
    BY DEF ScreenInit, Locks, Redrawing, BeanHasWindow
  <1>3. WholeBitmaps /\ DrawnSoFar /\ NoTornDrawing
    BY DEF ScreenInit, WholeBitmaps, DrawnSoFar, NoTornDrawing
  <1>4. NothingUndrawn
    BY DEF ScreenInit, NoReport, NothingUndrawn
  <1>5. InMenu
    BY MenuAssumption DEF ScreenInit, InMenu
  <1>6. Apart /\ MarksTellLast
    BY DEF ScreenInit, NoReport, Apart, MarksTellLast
  <1> QED BY <1>1, <1>2, <1>3, <1>4, <1>5, <1>6 DEF IInv

LEMMA NextIInv == IInv /\ [ScreenNext]_screenVars => IInv'
  BY NextContents, NextPlaces, NextLocks, NextWhole, NextDrawn, NextPlace, NextBean,
     NextMarks, NextNoTorn, NextUndrawn DEF IInv, ScreenTypeOK

LEMMA AlwaysIInv == ScreenSpec => []IInv
  <1>1. ScreenInit => IInv
    BY InitIInv
  <1>2. IInv /\ [ScreenNext]_screenVars => IInv'
    BY NextIInv
  <1> QED BY <1>1, <1>2, PTL DEF ScreenSpec

(* Every drawing is of the bitmap of one report, although the receiver        *)
(* replaces it part by part; and once nothing is under way the current bitmap *)
(* is drawn, unless the last report was that of a mount or the mode was set   *)
(* behind the redraw's back.                                                  *)
THEOREM ScreenIsRight == ScreenSpec => []DrawnRight
  <1>1. ScreenSpec => []IInv
    BY AlwaysIInv
  <1>2. IInv => DrawnRight
    BY DEF IInv, DrawnRight
  <1> QED BY <1>1, <1>2, PTL

(* The marks of a block tell what the last report said of it since it was     *)
(* drawn in use.                                                              *)
THEOREM MarksAreRight == ScreenSpec => []MarksTellLast
  <1>1. ScreenSpec => []IInv
    BY AlwaysIInv
  <1>2. IInv => MarksTellLast
    BY DEF IInv
  <1> QED BY <1>1, <1>2, PTL

(* set_show_bitmap is called with a place in the submenu only, and the        *)
(* animation of About never draws in a window that is gone.                   *)
THEOREM NothingDangles == ScreenSpec => []NoneDangling
  <1>1. ScreenSpec => []IInv
    BY AlwaysIInv
  <1>2. IInv => NoneDangling
    BY DEF IInv, InMenu, SubInRange, NoneDangling
  <1> QED BY <1>1, <1>2, PTL
===============================================================================

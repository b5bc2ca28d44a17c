---------------------------- MODULE FileDataProofs ----------------------------
(***************************************************************************)
(* Proofs about FileData: BlocksRight is an invariant, and a file written  *)
(* within blocks implements ByteFile.                                      *)
(*                                                                         *)
(* The loops are recursive functions of the index of a block.  A lemma     *)
(* shows that such a function exists (SomeTurns), one what a turn keeps    *)
(* (TurnKeeps, TurnWrites), and Climb, the induction over an interval,     *)
(* carries it to the last turn.                                            *)
(***************************************************************************)
EXTENDS FileData, WellFoundedInduction, SequenceTheorems, TLAPS

(* A set of numbers has a least one.                                         *)
LEMMA First ==
  ASSUME NEW S \in SUBSET Nat, S # {}
  PROVE  \E b \in S : \A c \in S : b <= c
  <1> DEFINE R == {ss \in Nat \X Nat : ss[1] < ss[2]}
  <1>1. IsWellFoundedOn(R, Nat)
    BY NatLessThanWellFounded DEF OpToRel
  <1>2. PICK b \in S : \A c \in S : <<c, b>> \notin R
    <2> HIDE DEF R
    <2> QED BY <1>1, WFMin
  <1>3. ASSUME NEW c \in S PROVE b <= c
    <2>1. <<c, b>> \in Nat \X Nat /\ <<c, b>> \notin R /\ c \in Nat /\ b \in Nat
      BY <1>2
    <2>2. ~(c < b)
      BY <2>1
    <2> QED BY <2>1, <2>2
  <1> QED BY <1>3

(* Induction over an interval: a set that has the first number of it, and    *)
(* with each number the next, has them all.                                  *)
LEMMA Climb ==
  ASSUME NEW a \in Nat, NEW z \in Nat, NEW T, a \in T,
         \A i \in a .. z - 1 : i \in T => i + 1 \in T
  PROVE  \A i \in a .. z : i \in T
  <1> DEFINE Bad == {i \in a .. z : i \notin T}
  <1> SUFFICES ASSUME Bad # {} PROVE FALSE
    OBVIOUS
  <1>1. Bad \in SUBSET Nat
    OBVIOUS
  <1>2. PICK b \in Bad : \A c \in Bad : b <= c
    <2> HIDE DEF Bad
    <2> QED BY <1>1, First
  <1>3. b # a /\ b - 1 \in a .. z - 1
    BY <1>2
  <1>4. b - 1 \in T
    BY <1>2, <1>3
  <1> QED BY <1>2, <1>3, <1>4

(* The turns of the loop of tiny_write and tiny_truncate up to one of them,  *)
(* as a function.                                                            *)
Turns(w, off, bs, z) ==
  w = [i \in off \div B .. z |-> IF i = off \div B THEN Entry(off, Len(bs))
                                                  ELSE Turn(w[i - 1], i - 1, off, bs)]

(* There are such turns: each is computed from the one before.               *)
LEMMA SomeTurns ==
  ASSUME NEW off, NEW bs, NEW z \in Nat, off \div B \in Nat, off \div B <= z
  PROVE  \E w : Turns(w, off, bs, z)
  <1> DEFINE a == off \div B
             T == {m \in a .. z : \E w : Turns(w, off, bs, m)}
  <1>1. a \in T
    <2>1. Turns([i \in a .. a |-> Entry(off, Len(bs))], off, bs, a)
      BY DEF Turns
    <2> QED BY <2>1
  <1>2. ASSUME NEW m \in a .. z - 1, m \in T PROVE m + 1 \in T
    <2>1. PICK w : Turns(w, off, bs, m)
      BY <1>2
    <2> DEFINE v == [i \in a .. m + 1 |-> IF i = m + 1 THEN Turn(w[m], m, off, bs) ELSE w[i]]
    <2>2. \A i \in a .. m + 1 :
            v[i] = IF i = a THEN Entry(off, Len(bs)) ELSE Turn(v[i - 1], i - 1, off, bs)
      <3> SUFFICES ASSUME NEW i \in a .. m + 1
                   PROVE  v[i] = IF i = a THEN Entry(off, Len(bs))
                                          ELSE Turn(v[i - 1], i - 1, off, bs)
        OBVIOUS
      <3>1. CASE i = m + 1
        <4>1. i # a /\ i - 1 = m /\ m \in a .. m + 1 /\ m # m + 1
          BY <3>1
        <4>2. v[i] = Turn(w[m], m, off, bs) /\ v[i - 1] = w[m]
          BY <3>1, <4>1
        <4> QED BY <4>1, <4>2
      <3>2. CASE i # m + 1
        <4>1. i \in a .. m /\ v[i] = w[i]
          BY <3>2
        <4>2. i # a => i - 1 \in a .. m + 1 /\ i - 1 # m + 1 /\ v[i - 1] = w[i - 1]
          BY <4>1
        <4>3. w[i] = IF i = a THEN Entry(off, Len(bs)) ELSE Turn(w[i - 1], i - 1, off, bs)
          BY <2>1, <4>1 DEF Turns
        <4> HIDE DEF v
        <4> QED BY <4>1, <4>2, <4>3
      <3> QED BY <3>1, <3>2
    <2>3. v = [i \in a .. m + 1 |-> v[i]]
      OBVIOUS
    <2> HIDE DEF v
    <2>4. Turns(v, off, bs, m + 1)
      BY <2>2, <2>3 DEF Turns
    <2> QED BY <2>4
  <1> HIDE DEF T
  <1>3. z \in T
    <2>1. a \in Nat /\ z \in a .. z /\ \A m \in a .. z - 1 : m \in T => m + 1 \in T
      BY <1>2
    <2> HIDE DEF a
    <2> QED BY <1>1, <2>1, Climb
  <1> QED BY <1>3 DEF T

(* The loop returns the last of them.                                        *)
LEMMA LoopTurns ==
  ASSUME NEW off, NEW bs, off \div B \in Nat, LastBlock(off, Len(bs)) + 1 \in Nat,
         off \div B <= LastBlock(off, Len(bs)) + 1
  PROVE  \E w : /\ Turns(w, off, bs, LastBlock(off, Len(bs)) + 1)
                /\ Loop(off, bs) = w[LastBlock(off, Len(bs)) + 1]
  <1> DEFINE z == LastBlock(off, Len(bs)) + 1
             W == CHOOSE w : Turns(w, off, bs, z)
  <1>1. Turns(W, off, bs, z)
    BY SomeTurns
  <1>2. Loop(off, bs) = W[z]
    BY DEF Loop, Turns
  <1> HIDE DEF W
  <1> QED BY <1>1, <1>2

-----------------------------------------------------------------------------
(* Arithmetic of blocks.                                                     *)
Needed(s) == (s + B - 1) \div B

(* The facts about B, N and the remainder that everything else rests on.     *)
LEMMA Arith ==
  /\ B \in Nat \ {0} /\ N \in Nat \ {0} /\ MaxSize = B * N /\ MaxSize \in Nat
  /\ \A s \in Nat : /\ s \div B \in Nat /\ (s % B) \in 0 .. B - 1
                    /\ s = (s \div B) * B + (s % B)
  /\ \A i, j \in Int : i < j => i * B + B <= j * B
  <1>1. B \in Nat \ {0} /\ N \in Nat \ {0}
    BY SizeAssumption
  <1>2. B * N \in Nat
    BY <1>1
  <1>3. ASSUME NEW s \in Nat
        PROVE  s \div B \in Nat /\ (s % B) \in 0 .. B - 1 /\ s = (s \div B) * B + (s % B)
    BY <1>1
  <1>4. ASSUME NEW i \in Int, NEW j \in Int, i < j PROVE i * B + B <= j * B
    BY <1>1, <1>4
  <1> QED BY <1>1, <1>2, <1>3, <1>4 DEF MaxSize

(* The blocks with indices below Needed(s) are those that begin before s.    *)
LEMMA Need ==
  ASSUME NEW s \in Nat
  PROVE  /\ Needed(s) \in Nat
         /\ \A i \in Int : i * B < s <=> i < Needed(s)
         /\ \A i \in Int : s <= i * B <=> Needed(s) <= i
  <1>1. B \in Nat \ {0} /\ s + B - 1 \in Nat
    BY Arith
  <1>2. /\ Needed(s) \in Nat /\ Needed(s) * B <= s + B - 1 /\ s + B - 1 < Needed(s) * B + B
    BY <1>1, Arith DEF Needed
  <1>3. ASSUME NEW i \in Int, i < Needed(s) PROVE i * B < s
    <2>1. i * B + B <= Needed(s) * B
      BY <1>2, <1>3, Arith
    <2> QED BY <1>1, <1>2, <2>1
  <1>4. ASSUME NEW i \in Int, ~(i < Needed(s)) PROVE ~(i * B < s)
    <2>1. Needed(s) * B <= i * B
      BY <1>1, <1>2, <1>4
    <2> QED BY <1>1, <1>2, <2>1
  <1> QED BY <1>1, <1>2, <1>3, <1>4

(* Where the first and the last block of a call begin and end.               *)
LEMMA Spans ==
  ASSUME NEW off \in Nat, NEW len \in Nat \ {0}
  PROVE  LET first == off \div B
             last == LastBlock(off, len)
             e == OffsetEnd(off, len)
         IN  /\ first \in Nat /\ last \in Nat /\ first <= last
             /\ e \in 1 .. B /\ off + len = last * B + e
             /\ (off % B) \in 0 .. B - 1 /\ off = first * B + (off % B)
  <1> DEFINE t == off + len
  <1>1. /\ B \in Nat \ {0} /\ t \in Nat \ {0}
        /\ t \div B \in Nat /\ (t % B) \in 0 .. B - 1 /\ t = (t \div B) * B + (t % B)
        /\ off \div B \in Nat /\ (off % B) \in 0 .. B - 1 /\ off = (off \div B) * B + (off % B)
    BY Arith
  <1>2. CASE t % B = 0
    <2>1. LastBlock(off, len) = t \div B - 1 /\ OffsetEnd(off, len) = B
      BY <1>2 DEF LastBlock, OffsetEnd
    <2>2. t \div B # 0
      BY <1>1, <1>2
    <2>3. off \div B < t \div B
      <3> SUFFICES ASSUME t \div B <= off \div B PROVE FALSE
        BY <1>1
      <3>1. (t \div B) * B <= (off \div B) * B
        BY <1>1
      <3> QED BY <1>1, <1>2, <3>1
    <2>4. (t \div B - 1) * B + B = (t \div B) * B
      BY <1>1
    <2> QED BY <1>1, <1>2, <2>1, <2>2, <2>3, <2>4
  <1>3. CASE t % B # 0
    <2>1. LastBlock(off, len) = t \div B /\ OffsetEnd(off, len) = t % B
      BY <1>3 DEF LastBlock, OffsetEnd
    <2>2. off \div B <= t \div B
      <3> SUFFICES ASSUME t \div B < off \div B PROVE FALSE
        BY <1>1
      <3>1. (t \div B) * B + B <= (off \div B) * B
        BY <1>1, Arith
      <3> QED BY <1>1, <3>1
    <2> QED BY <1>1, <1>3, <2>1, <2>2
  <1> QED BY <1>2, <1>3

-----------------------------------------------------------------------------
(* The blocks of a file that has nblk of them in block, while the free ones  *)
(* are fr.                                                                   *)
Own(nblk, block) == {block[i] : i \in 0 .. nblk - 1}

Owned(nblk, block, fr) ==
  /\ nblk \in 0 .. N /\ block \in [Index -> Blk \cup {Junk}] /\ fr \subseteq Blk
  /\ fr \cup others \cup Own(nblk, block) = Blk
  /\ Own(nblk, block) \cap (fr \cup others) = {} /\ fr \cap others = {}
  /\ \A i, j \in 0 .. nblk - 1 : block[i] = block[j] => i = j

Fits(s, nblk) == Needed(s) <= nblk /\ nblk <= Needed(s) + 1

Data == [Blk -> [0 .. B - 1 -> Byte]]

Rec(w) ==
  w \in [left : Int, start : Int, done : Int, size : Int, nblk : Int,
         block : [Index -> Blk \cup {Junk}], free : SUBSET Blk, data : Data,
         stop : BOOLEAN, dead : BOOLEAN]

(* The block that GetFreeBlock finds is a free one.                          *)
LEMMA FirstIsFree ==
  ASSUME NEW f, f \subseteq Blk, f # {}
  PROVE  FirstFree(f) \in f
  <1>1. f \in SUBSET Nat
    BY BlkAssumption
  <1>2. \E b \in f : \A c \in f : b <= c
    BY <1>1, First
  <1> QED BY <1>2 DEF FirstFree

(* GiveBlock leaves a file with its own blocks, the one asked for among      *)
(* them, unless the disk is full; the blocks the file had stay where they are.*)
LEMMA Giving ==
  ASSUME NEW w, Rec(w), ~w.stop, Owned(w.nblk, w.block, w.free),
         NEW i \in 0 .. N - 1, i <= w.nblk
  PROVE  LET v == GiveBlock(w, i)
         IN  /\ Rec(v) /\ Owned(v.nblk, v.block, v.free)
             /\ v.left = w.left /\ v.start = w.start /\ v.done = w.done
             /\ v.size = w.size /\ v.data = w.data /\ v.dead = w.dead
             /\ \A j \in 0 .. w.nblk - 1 : v.block[j] = w.block[j]
             /\ v.stop => v.nblk = w.nblk
             /\ ~v.stop => v.nblk = Larger(w.nblk, i + 1) /\ v.block[i] \in Blk
  <1>1. CASE i < w.nblk
    <2>1. GiveBlock(w, i) = w
      BY <1>1 DEF GiveBlock
    <2>2. w.block[i] \in Own(w.nblk, w.block) /\ w.nblk \in Nat
      BY <1>1 DEF Own, Owned
    <2>3. w.block[i] \in Blk
      BY <2>2 DEF Owned
    <2>4. w.nblk = Larger(w.nblk, i + 1)
      BY <1>1, <2>2 DEF Larger
    <2> QED BY <2>1, <2>3, <2>4
  <1>2. CASE ~(i < w.nblk) /\ w.free = {}
    <2> DEFINE v == [w EXCEPT !.block[i] = Junk, !.stop = TRUE]
    <2>1. GiveBlock(w, i) = v
      BY <1>2 DEF GiveBlock
    <2>9. [w.block EXCEPT ![i] = Junk] \in [Index -> Blk \cup {Junk}]
      BY DEF Owned
    <2>2. /\ v.left = w.left /\ v.start = w.start /\ v.done = w.done
          /\ v.size = w.size /\ v.data = w.data /\ v.dead = w.dead /\ v.nblk = w.nblk
          /\ v.free = w.free /\ v.stop /\ v.block = [w.block EXCEPT ![i] = Junk]
      BY DEF Rec
    <2>7. Rec(v)
      BY <2>9 DEF Rec
    <2> HIDE DEF v
    <2>3. \A j \in 0 .. w.nblk - 1 : v.block[j] = w.block[j]
      BY <1>2, <2>2 DEF Owned, Index
    <2>4. Own(v.nblk, v.block) = Own(w.nblk, w.block)
      BY <2>2, <2>3 DEF Own
    <2>5. v.block \in [Index -> Blk \cup {Junk}]
      BY <2>2 DEF Owned
    <2>6. Owned(v.nblk, v.block, v.free)
      BY <2>2, <2>3, <2>4, <2>5 DEF Owned
    <2> QED BY <2>1, <2>2, <2>3, <2>6, <2>7
  <1>3. CASE ~(i < w.nblk) /\ w.free # {}
    <2> DEFINE b == FirstFree(w.free)
               v == [w EXCEPT !.block[i] = b, !.free = w.free \ {b}, !.nblk = @ + 1]
    <2>1. GiveBlock(w, i) = v
      BY <1>3 DEF GiveBlock
    <2>2. /\ v.left = w.left /\ v.start = w.start /\ v.done = w.done
          /\ v.size = w.size /\ v.data = w.data /\ v.dead = w.dead /\ v.nblk = w.nblk + 1
          /\ v.free = w.free \ {b} /\ v.stop = w.stop /\ v.block = [w.block EXCEPT ![i] = b]
      BY DEF Rec
    <2>3. b \in w.free /\ b \in Blk /\ b \notin Own(w.nblk, w.block) /\ b \notin others
      BY <1>3, FirstIsFree DEF Owned
    <2>12. /\ w.nblk + 1 \in Int /\ w.free \ {b} \in SUBSET Blk
           /\ [w.block EXCEPT ![i] = b] \in [Index -> Blk \cup {Junk}]
      <3>1. w.nblk + 1 \in Int
        BY DEF Owned
      <3>2. w.free \ {b} \in SUBSET Blk
        BY DEF Owned
      <3>3. [w.block EXCEPT ![i] = b] \in [Index -> Blk \cup {Junk}]
        BY <2>3 DEF Owned
      <3> QED BY <3>1, <3>2, <3>3
    <2>11. Rec(v)
      BY <2>12 DEF Rec
    <2> HIDE DEF v, b
    <2>4. i = w.nblk /\ w.nblk \in Nat /\ i \in Index /\ w.nblk - 1 < i
      BY <1>3 DEF Owned, Index
    <2>5. v.block[i] = b /\ \A j \in 0 .. w.nblk - 1 : v.block[j] = w.block[j]
      <3>1. w.block \in [Index -> Blk \cup {Junk}]
        BY DEF Owned
      <3>3. \A j \in 0 .. i - 1 : j \in Index /\ j # i
        BY Arith DEF Index
      <3>2. \A j \in 0 .. w.nblk - 1 : j \in Index /\ j # i
        BY <2>4, <3>3
      <3> QED BY <2>2, <2>4, <3>1, <3>2
    <2>6. Own(v.nblk, v.block) = Own(w.nblk, w.block) \cup {b}
      <3>1. 0 .. v.nblk - 1 = (0 .. w.nblk - 1) \cup {i}
        BY <2>2, <2>4
      <3> QED BY <2>5, <3>1 DEF Own
    <2>7. v.block \in [Index -> Blk \cup {Junk}] /\ v.nblk \in 0 .. N
      BY <2>2, <2>3, <2>4, Arith DEF Owned
    <2>8. \A j, k \in 0 .. v.nblk - 1 : v.block[j] = v.block[k] => j = k
      <3>1. \A j \in 0 .. w.nblk - 1 : w.block[j] # b
        BY <2>3 DEF Own
      <3> QED BY <2>2, <2>4, <2>5, <3>1 DEF Owned
    <2>9. Owned(v.nblk, v.block, v.free)
      BY <2>2, <2>3, <2>6, <2>7, <2>8 DEF Owned
    <2>10. v.nblk = Larger(w.nblk, i + 1)
      BY <2>2, <2>4 DEF Larger
    <2> QED BY <2>1, <2>2, <2>3, <2>5, <2>9, <2>10, <2>11
  <1> QED BY <1>1, <1>2, <1>3

-----------------------------------------------------------------------------
(* The loop gets to the block with index i after done bytes.  If the bytes   *)
(* cross the end of a block and are no more than a block, it is off course   *)
(* from there on: either it dies or it has copied nothing to the first one.  *)
Straight(off, len) == off \div B = LastBlock(off, len) \/ len > B

Ready(i, done, off, len) ==
  /\ i = off \div B => done = 0
  /\ off \div B < i /\ i <= LastBlock(off, len) =>
       \/ off + done = i * B
       \/ /\ ~Straight(off, len) /\ i = off \div B + 1 /\ done = 0
          /\ i = LastBlock(off, len) /\ (off \div B) * B < off
  /\ LastBlock(off, len) < i /\ Straight(off, len) => done = len

StartOf(i, off) == IF i = off \div B THEN off % B ELSE 0
EndOf(left, off, len) == IF left > B THEN B ELSE OffsetEnd(off, len)

(* A turn copies no more than what is left, within one block, and gets to    *)
(* the beginning of the next one.                                            *)
LEMMA Advance ==
  ASSUME NEW off \in Nat, NEW len \in Nat \ {0},
         NEW i \in off \div B .. LastBlock(off, len), NEW done \in 0 .. len,
         Ready(i, done, off, len)
  PROVE  LET s == StartOf(i, off)
             e == EndOf(len - done, off, len)
             n == e - s
         IN  /\ i \in Nat /\ s \in 0 .. B - 1 /\ e \in 1 .. B
             /\ (i - 1) * B < off + done
             /\ Straight(off, len) => n > 0 /\ off + done = i * B + s
             /\ n >= 0 => /\ done + n \in 0 .. len /\ off + done + n <= (i + 1) * B
                          /\ Ready(i + 1, done + n, off, len)
  <1> DEFINE first == off \div B
             last == LastBlock(off, len)
             oe == OffsetEnd(off, len)
             s == StartOf(i, off)
             e == EndOf(len - done, off, len)
             n == e - s
  <1>1. /\ first \in Nat /\ last \in Nat /\ first <= last /\ i \in Nat /\ i <= last
        /\ oe \in 1 .. B /\ off + len = last * B + oe
        /\ (off % B) \in 0 .. B - 1 /\ off = first * B + (off % B) /\ B \in Nat \ {0}
    <2>1. /\ first \in Nat /\ last \in Nat /\ first <= last
          /\ oe \in 1 .. B /\ off + len = last * B + oe
          /\ (off % B) \in 0 .. B - 1 /\ off = first * B + (off % B)
      BY Spans
    <2>2. i \in Nat /\ i <= last
      BY <2>1
    <2> QED BY <2>1, <2>2, SizeAssumption
  <1>2. /\ (i - 1) * B + B = i * B /\ (i + 1) * B = i * B + B
        /\ i * B \in Nat /\ last * B \in Nat /\ first * B \in Nat
        /\ i < last => i * B + B <= last * B
        /\ i + 1 < last => i * B + 2 * B <= last * B
    <2>1. i * B \in Nat /\ last * B \in Nat /\ first * B \in Nat
      BY <1>1
    <2>2. i < last => i * B + B <= last * B
      BY <1>1, Arith
    <2>3. (i - 1) * B + B = i * B /\ (i + 1) * B = i * B + B
      BY <1>1
    <2>4. i + 1 < last => (i + 1) * B + B <= last * B
      BY <1>1, Arith
    <2> QED BY <1>1, <2>1, <2>2, <2>3, <2>4
  <1>3. s = (IF i = first THEN off % B ELSE 0) /\ e = (IF len - done > B THEN B ELSE oe)
    BY DEF StartOf, EndOf
  <1>4. Straight(off, len) <=> first = last \/ len > B
    BY DEF Straight
  <1>5. /\ i = first => done = 0
        /\ first < i =>
             \/ off + done = i * B
             \/ /\ ~Straight(off, len) /\ i = first + 1 /\ done = 0
                /\ i = last /\ first * B < off
    BY DEF Ready
  <1>6. Ready(i + 1, done + n, off, len) <=>
          /\ i + 1 <= last =>
               \/ off + (done + n) = (i + 1) * B
               \/ /\ ~Straight(off, len) /\ i = first /\ done + n = 0
                  /\ i + 1 = last /\ first * B < off
          /\ last < i + 1 /\ Straight(off, len) => done + n = len
    <2> HIDE DEF n
    <2>1. i + 1 # first /\ first < i + 1 /\ (i + 1 = first + 1 <=> i = first)
      BY <1>1
    <2> HIDE DEF last
    <2> QED BY <2>1 DEF Ready, last
  <1> HIDE DEF first, last, oe, s, e
  <1>7. CASE i = first
    <2>1. done = 0 /\ s = off % B /\ off = i * B + s /\ s \in 0 .. B - 1
      BY <1>1, <1>3, <1>5, <1>7
    <2>2. CASE len > B
      <3>1. e = B /\ n > 0 /\ off + n = i * B + B
        BY <1>1, <1>3, <2>1, <2>2
      <3>2. i < last
        BY <1>1, <1>2, <2>1, <2>2
      <3> QED BY <1>1, <1>2, <1>4, <1>6, <2>1, <2>2, <3>1, <3>2 DEF first, last, s, e
    <2>3. CASE len <= B /\ i = last
      <3>1. e = oe /\ n = len
        BY <1>1, <1>2, <1>3, <2>1, <2>3
      <3> QED BY <1>1, <1>2, <1>4, <1>6, <2>1, <2>3, <3>1 DEF first, last, s, e
    <2>4. CASE len <= B /\ i # last
      <3>1. i + 1 = last /\ e = oe
        BY <1>1, <1>2, <1>3, <1>7, <2>1, <2>4
      <3>2. n = len - B /\ ~Straight(off, len)
        BY <1>1, <1>2, <1>4, <1>7, <2>1, <2>4, <3>1
      <3>3. n >= 0 => len = B /\ n = 0 /\ first * B < off /\ s = oe
        BY <1>1, <1>7, <2>1, <2>4, <3>1, <3>2
      <3> QED BY <1>1, <1>2, <1>6, <1>7, <2>1, <2>4, <3>1, <3>2, <3>3 DEF first, last, s, e
    <2> QED BY <1>1, <2>2, <2>3, <2>4
  <1>8. CASE i # first /\ off + done = i * B
    <2>1. s = 0 /\ first < i
      BY <1>1, <1>3, <1>8
    <2>2. CASE len - done > B
      <3>1. e = B /\ n = B
        BY <1>1, <1>3, <2>1, <2>2
      <3>2. i < last
        BY <1>1, <1>2, <1>8, <2>2
      <3> QED BY <1>1, <1>2, <1>4, <1>6, <1>8, <2>1, <2>2, <3>1, <3>2 DEF first, last, s, e
    <2>3. CASE len - done <= B
      <3>1. i = last
        <4> SUFFICES ASSUME i < last PROVE FALSE
          BY <1>1
        <4>1. last * B < i * B + B
          BY <1>1, <1>2, <1>8, <2>3
        <4> QED BY <1>1, <1>2, <4>1
      <3>2. e = oe /\ n = oe /\ n = len - done
        BY <1>1, <1>2, <1>3, <1>8, <2>1, <2>3, <3>1
      <3> QED BY <1>1, <1>2, <1>4, <1>6, <1>8, <2>1, <2>3, <3>1, <3>2 DEF first, last, s, e
    <2> QED BY <1>1, <2>2, <2>3
  <1>9. CASE i # first /\ off + done # i * B
    <2>1. /\ s = 0 /\ ~Straight(off, len) /\ i = first + 1 /\ done = 0
          /\ i = last /\ first * B < off
      BY <1>1, <1>3, <1>5, <1>9
    <2>2. len <= B /\ e = oe /\ n = oe
      BY <1>1, <1>3, <1>4, <2>1
    <2>3. (i - 1) * B < off /\ off < i * B /\ off + n <= i * B + B /\ n <= len
      BY <1>1, <1>2, <2>1, <2>2
    <2> QED BY <1>1, <1>2, <1>6, <2>1, <2>2, <2>3 DEF first, last, s, e
  <1> QED BY <1>7, <1>8, <1>9

-----------------------------------------------------------------------------
(* What the variables of the loop are, whatever happens ...                  *)
Base(w, off, len) ==
  /\ Rec(w) /\ Owned(w.nblk, w.block, w.free) /\ Fits(w.size, w.nblk)
  /\ w.size \in 0 .. MaxSize /\ w.done \in 0 .. len
  /\ w.size = Larger(i_size, off + w.done)
  /\ w.dead => ~Straight(off, len)

(* ... and while the loop goes on.                                           *)
Live(w, i, off, len) ==
  ~w.stop /\ ~w.dead =>
    /\ w.left = len - w.done /\ w.start = StartOf(i, off)
    /\ i <= w.nblk /\ Ready(i, w.done, off, len)

(* The arguments of a call.                                                  *)
Legal(off, bs) ==
  /\ off \in Nat /\ bs \in Seq(Byte) /\ Len(bs) \in Nat \ {0}
  /\ off + Len(bs) <= MaxSize /\ off <= i_size /\ i_size \in 0 .. MaxSize

(* No index is beyond i_block.                                               *)
LEMMA InTable ==
  ASSUME NEW off, NEW bs, Legal(off, bs), NEW i \in off \div B .. LastBlock(off, Len(bs))
  PROVE  i \in 0 .. N - 1
  <1> DEFINE last == LastBlock(off, Len(bs))
             first == off \div B
             oe == OffsetEnd(off, Len(bs))
  <1>1. /\ first \in Nat /\ last \in Nat /\ oe \in 1 .. B /\ off + Len(bs) = last * B + oe
        /\ off + Len(bs) <= B * N
    BY Spans DEF Legal, MaxSize
  <1>2. i \in Nat /\ i <= last
    BY <1>1
  <1>4. N \in Nat /\ B \in Nat \ {0} /\ B * N = N * B
    BY SizeAssumption
  <1> HIDE DEF last, first, oe
  <1>3. last < N
    <2> SUFFICES ASSUME N <= last PROVE FALSE
      BY <1>1, <1>4
    <2>1. N * B <= last * B
      BY <1>1, <1>4
    <2>2. N * B \in Nat /\ last * B \in Nat
      BY <1>1, <1>4
    <2> QED BY <1>1, <1>4, <2>1, <2>2
  <1> QED BY <1>1, <1>2, <1>3, <1>4

(* The numbers in a call that is legal.                                      *)
LEMMA LegalFacts ==
  ASSUME NEW off, NEW bs, Legal(off, bs)
  PROVE  /\ off \in Nat /\ Len(bs) \in Nat \ {0} /\ MaxSize \in Nat /\ i_size \in Nat
         /\ i_size <= MaxSize /\ off <= i_size /\ off + Len(bs) <= MaxSize
         /\ bs \in Seq(Byte) /\ B \in Nat \ {0} /\ N \in Nat \ {0}
  <1>1. MaxSize \in Nat /\ B \in Nat \ {0} /\ N \in Nat \ {0}
    BY Arith
  <1>2. i_size \in 0 .. MaxSize /\ off \in Nat /\ Len(bs) \in Nat \ {0}
    BY DEF Legal
  <1> QED BY <1>1, <1>2 DEF Legal

(* A file that grows by a turn for the block with index i has as many blocks *)
(* as it needs.                                                              *)
LEMMA GrowFits ==
  ASSUME NEW s \in Nat, NEW z \in Nat, s <= z, NEW m \in Nat, NEW i \in Nat,
         i <= Needed(s), Fits(s, m), (z = s \/ z <= (i + 1) * B)
  PROVE  Fits(z, Larger(m, i + 1))
  <1>1. Needed(s) \in Nat /\ Needed(z) \in Nat
    BY Need
  <1>2. Needed(z) * B \in Int /\ s <= Needed(s) * B /\ z <= Needed(z) * B
    <2>1. B \in Nat
      BY SizeAssumption
    <2> QED BY <1>1, <2>1, Need
  <1>3. Needed(s) <= Needed(z)
    <2> SUFFICES ASSUME Needed(z) < Needed(s) PROVE FALSE
      BY <1>1
    <2>1. Needed(z) * B < s
      BY <1>1, Need
    <2> QED BY <1>2, <2>1
  <1>4. z = s \/ Needed(z) <= i + 1
    <2>1. i + 1 \in Int
      OBVIOUS
    <2> QED BY <2>1, Need
  <1> HIDE DEF Needed
  <1> QED BY <1>1, <1>3, <1>4 DEF Fits, Larger

(* What a turn leaves, from what GiveBlock leaves.                           *)
TurnOf(v, w, i, off, bs, s, e) ==
  IF v.stop THEN v
  ELSE IF e - s < 0 THEN [v EXCEPT !.dead = TRUE]
  ELSE [v EXCEPT !.data  = Copy(w, v.block[i], s, e, bs),
                 !.done  = w.done + (e - s),
                 !.size  = Larger(w.size, off + w.done + (e - s)),
                 !.left  = w.left - (e - s),
                 !.start = 0]

(* A turn is TurnOf: a block that was given is never Junk.                   *)
LEMMA Turned ==
  ASSUME NEW w, NEW i \in 0 .. N - 1, NEW off, NEW bs, Rec(w), ~w.stop, ~w.dead,
         Owned(w.nblk, w.block, w.free), i <= w.nblk
  PROVE  Turn(w, i, off, bs) =
           TurnOf(GiveBlock(w, i), w, i, off, bs, w.start, EndOf(w.left, off, Len(bs)))
  <1> DEFINE v == GiveBlock(w, i)
             e == EndOf(w.left, off, Len(bs))
             n == e - w.start
  <1>1. /\ v.left = w.left /\ v.start = w.start /\ v.done = w.done
        /\ v.size = w.size /\ v.data = w.data
        /\ ~v.stop => v.block[i] \in Blk
    BY Giving
  <1>2. ~v.stop => v.block[i] # Junk
    BY <1>1, BlkAssumption DEF Junk
  <1>3. Copy(v, v.block[i], w.start, e, bs) = Copy(w, v.block[i], w.start, e, bs)
    BY <1>1 DEF Copy
  <1>4. Turn(w, i, off, bs) =
               IF v.stop THEN v
               ELSE IF n < 0 \/ v.block[i] = Junk THEN [v EXCEPT !.dead = TRUE]
               ELSE [v EXCEPT !.data  = Copy(w, v.block[i], w.start, e, bs),
                              !.done  = v.done + n,
                              !.size  = Larger(v.size, off + w.done + n),
                              !.left  = v.left - n,
                              !.start = 0]
    BY DEF Turn, EndOf
  <1> HIDE DEF v, e
  <1> QED BY <1>1, <1>2, <1>4 DEF v, e, TurnOf

(* A copy puts bytes of the buffer into a block, and nothing else.           *)
LEMMA Copying ==
  ASSUME NEW w, w.data \in Data, NEW b \in Blk, NEW s \in Nat, NEW e \in Int, e <= B,
         NEW bs \in Seq(Byte), e - s <= Len(bs)
  PROVE  Copy(w, b, s, e, bs) \in Data
  <1> DEFINE c == [k \in 0 .. B - 1 |-> IF s <= k /\ k < e THEN bs[k - s + 1] ELSE w.data[b][k]]
  <1>1. \A k \in 0 .. B - 1 : c[k] \in Byte
    <2> SUFFICES ASSUME NEW k \in 0 .. B - 1 PROVE c[k] \in Byte
      OBVIOUS
    <2>1. CASE s <= k /\ k < e
      <3>1. k - s + 1 \in 1 .. Len(bs)
        BY <2>1, Arith
      <3> QED BY <2>1, <3>1
    <2>2. CASE ~(s <= k /\ k < e)
      BY <2>2 DEF Data
    <2> QED BY <2>1, <2>2
  <1>2. c \in [0 .. B - 1 -> Byte]
    BY <1>1
  <1>3. Copy(w, b, s, e, bs) = [w.data EXCEPT ![b] = c]
    BY DEF Copy
  <1> HIDE DEF c
  <1> QED BY <1>2, <1>3 DEF Data

(* One turn of the loop keeps both.                                          *)
LEMMA TurnKeeps ==
  ASSUME NEW off, NEW bs, Legal(off, bs), NEW i \in off \div B .. LastBlock(off, Len(bs)),
         NEW w, Base(w, off, Len(bs)), Live(w, i, off, Len(bs))
  PROVE  LET u == Turn(w, i, off, bs)
         IN  Base(u, off, Len(bs)) /\ Live(u, i + 1, off, Len(bs))
  <1> DEFINE len == Len(bs)
             u == Turn(w, i, off, bs)
  <1>1. CASE w.stop \/ w.dead
    <2>1. u = w
      BY <1>1 DEF Turn
    <2> QED BY <1>1, <2>1 DEF Live
  <1>2. CASE ~w.stop /\ ~w.dead
    <2> DEFINE v == GiveBlock(w, i)
               s == StartOf(i, off)
               e == EndOf(len - w.done, off, len)
               n == e - s
    <2>1. /\ Rec(w) /\ Owned(w.nblk, w.block, w.free) /\ Fits(w.size, w.nblk)
          /\ w.size \in 0 .. MaxSize /\ w.done \in 0 .. len /\ w.nblk \in 0 .. N
          /\ w.left = len - w.done /\ w.start = s
          /\ w.size = Larger(i_size, off + w.done) /\ i <= w.nblk
          /\ Ready(i, w.done, off, len)
      BY <1>2 DEF Base, Live, Owned
    <2>2. i \in 0 .. N - 1 /\ i \in Nat
      BY InTable
    <2>3. /\ s \in 0 .. B - 1 /\ e \in 1 .. B
          /\ (i - 1) * B < off + w.done
          /\ Straight(off, len) => n > 0 /\ off + w.done = i * B + s
          /\ n >= 0 => /\ w.done + n \in 0 .. len /\ off + w.done + n <= (i + 1) * B
                       /\ Ready(i + 1, w.done + n, off, len)
      BY <2>1, Advance DEF Legal
    <2>4. /\ Rec(v) /\ Owned(v.nblk, v.block, v.free)
          /\ v.left = w.left /\ v.start = w.start /\ v.done = w.done
          /\ v.size = w.size /\ v.data = w.data /\ v.dead = w.dead
          /\ v.stop => v.nblk = w.nblk
          /\ ~v.stop => v.nblk = Larger(w.nblk, i + 1) /\ v.block[i] \in Blk
      BY <1>2, <2>1, <2>2, Giving
    <2>5. u = IF v.stop THEN v
              ELSE IF n < 0 THEN [v EXCEPT !.dead = TRUE]
              ELSE [v EXCEPT !.data  = Copy(w, v.block[i], s, e, bs),
                             !.done  = w.done + n,
                             !.size  = Larger(w.size, off + w.done + n),
                             !.left  = w.left - n,
                             !.start = 0]
      <3>1. u = TurnOf(GiveBlock(w, i), w, i, off, bs, w.start, EndOf(w.left, off, Len(bs)))
        BY <1>2, <2>1, <2>2, Turned
      <3>2. u = TurnOf(v, w, i, off, bs, s, e)
        BY <2>1, <3>1
      <3> HIDE DEF u, v, e, s
      <3> QED BY <3>2 DEF TurnOf
    <2>10. /\ off \in Nat /\ len \in Nat \ {0} /\ MaxSize \in Nat /\ i_size \in Nat
           /\ i_size <= MaxSize /\ off <= i_size /\ off + len <= MaxSize
           /\ bs \in Seq(Byte) /\ B \in Nat \ {0} /\ N \in Nat \ {0}
      BY LegalFacts
    <2>11. w.size \in Nat /\ w.size <= MaxSize /\ w.done \in Nat /\ w.done <= len /\ w.nblk \in Nat
      BY <2>1, <2>10
    <2>12. s \in Nat /\ s <= B /\ e \in Nat /\ e <= B /\ n \in Int /\ (i - 1) * B \in Int
           /\ (i + 1) * B \in Int
      <3>1. s \in Nat /\ s <= B /\ e \in Nat /\ e <= B
        BY <2>3, <2>10
      <3>2. (i - 1) * B \in Int /\ (i + 1) * B \in Int
        BY <2>2, <2>10
      <3> QED BY <3>1, <3>2
    <2> HIDE DEF v, s, e, n, u, len
    <2>6. i <= Needed(w.size)
      <3>5. off + w.done <= w.size
        <4>1. w.size = Larger(i_size, off + w.done)
          BY <2>1
        <4> QED BY <2>10, <2>11, <4>1 DEF Larger
      <3>1. off + w.done <= w.size /\ (i - 1) * B < w.size
        <4>1. (i - 1) * B < off + w.done
          BY <2>3
        <4> QED BY <2>10, <2>11, <2>12, <3>5, <4>1
      <3>2. i - 1 < Needed(w.size)
        <4>1. i - 1 \in Int
          BY <2>2
        <4> QED BY <2>11, <3>1, <4>1, Need
      <3>3. Needed(w.size) \in Nat
        BY <2>11, Need
      <3> QED BY <2>2, <3>2, <3>3
    <2>7. CASE v.stop
      <3>1. u = v
        BY <2>5, <2>7
      <3>2. Base(v, off, len)
        BY <1>2, <2>1, <2>4, <2>7 DEF Base
      <3>3. Live(v, i + 1, off, len)
        BY <2>7 DEF Live
      <3> QED BY <3>1, <3>2, <3>3 DEF u, len
    <2>13. ASSUME NEW z \in Nat, w.size <= z, (z = w.size \/ z <= (i + 1) * B), ~v.stop
           PROVE  Fits(z, v.nblk)
      <3>1. Fits(z, Larger(w.nblk, i + 1))
        BY <2>1, <2>2, <2>6, <2>11, <2>13, GrowFits
      <3> QED BY <2>4, <2>13, <3>1
    <2>8. CASE ~v.stop /\ n < 0
      <3>1. u = [v EXCEPT !.dead = TRUE]
        BY <2>5, <2>8
      <3>2. Rec(u) /\ u.dead
        <4>1. TRUE \in BOOLEAN
          OBVIOUS
        <4> QED BY <2>4, <3>1, <4>1 DEF Rec
      <3>3. /\ u.nblk = v.nblk /\ u.block = v.block /\ u.free = v.free /\ u.size = w.size
            /\ u.done = w.done
        BY <2>4, <3>1 DEF Rec
      <3>4. Fits(w.size, v.nblk)
        BY <2>8, <2>11, <2>13
      <3>5. ~Straight(off, len)
        BY <2>3, <2>8, <2>12
      <3>6. Base(u, off, len)
        BY <2>1, <2>4, <3>2, <3>3, <3>4, <3>5 DEF Base
      <3>7. Live(u, i + 1, off, len)
        BY <3>2 DEF Live
      <3> QED BY <3>6, <3>7 DEF u, len
    <2>9. CASE ~v.stop /\ ~(n < 0)
      <3> DEFINE z == Larger(w.size, off + w.done + n)
                 c == Copy(w, v.block[i], s, e, bs)
      <3>1. n >= 0 /\ n \in Nat
        BY <2>9, <2>12
      <3>14. w.done + n \in 0 .. len /\ off + w.done + n <= (i + 1) * B
        BY <2>3, <3>1
      <3>15. w.left - n = len - (w.done + n)
        BY <2>1, <2>10, <2>11, <3>1
      <3>2. /\ z = Larger(i_size, off + (w.done + n)) /\ z \in 0 .. MaxSize
            /\ z \in Nat /\ w.size <= z /\ (z = w.size \/ z <= (i + 1) * B)
        <4>1. off + w.done + n = off + (w.done + n) /\ w.done + n <= len /\ w.done <= w.done + n
          BY <2>10, <2>11, <3>1, <3>14
        <4>2. off + w.done + n \in Nat /\ off + w.done <= off + w.done + n
              /\ off + w.done + n <= MaxSize
          BY <2>10, <2>11, <3>1, <4>1
        <4>3. w.size = Larger(i_size, off + w.done)
          BY <2>1
        <4>4. z = Larger(w.size, off + (w.done + n))
          BY <4>1
        <4> DEFINE p == off + w.done
                   q == off + (w.done + n)
        <4>5. p \in Nat /\ q \in Nat /\ p <= q /\ q <= MaxSize /\ q <= (i + 1) * B
          BY <2>10, <2>11, <3>14, <4>1, <4>2
        <4>6. w.size = Larger(i_size, p) /\ z = Larger(w.size, q)
          BY <4>3, <4>4
        <4> HIDE DEF p, q, z
        <4>7. z = Larger(i_size, q)
          BY <2>10, <2>11, <4>5, <4>6 DEF Larger
        <4>8. z \in 0 .. MaxSize /\ z \in Nat /\ w.size <= z /\ (z = w.size \/ z <= (i + 1) * B)
          BY <2>10, <2>11, <2>12, <4>5, <4>6 DEF Larger
        <4> QED BY <4>7, <4>8 DEF q
      <3>3. c \in Data
        <4>1. e - s <= Len(bs)
          BY <2>10, <2>11, <3>1, <3>14 DEF n, len
        <4>2. w.data \in Data /\ v.block[i] \in Blk
          BY <2>1, <2>4, <2>9 DEF Rec
        <4>3. e \in Int
          BY <2>12
        <4> QED BY <2>10, <2>12, <4>1, <4>2, <4>3, Copying
      <3>4. u = [v EXCEPT !.data = c, !.done = w.done + n, !.size = z,
                          !.left = w.left - n, !.start = 0]
        BY <2>5, <2>9
      <3> HIDE DEF z, c
      <3>5. w.done + n \in Int /\ z \in Int /\ w.left - n \in Int /\ 0 \in Int
        BY <2>10, <2>11, <2>12, <3>2, <3>15
      <3>6. Rec(u)
        BY <2>4, <3>3, <3>4, <3>5 DEF Rec
      <3>7. /\ u.done = w.done + n /\ u.size = z /\ u.left = w.left - n /\ u.start = 0
            /\ u.nblk = v.nblk /\ u.block = v.block /\ u.free = v.free
            /\ u.stop = v.stop /\ u.dead = v.dead
        BY <2>4, <3>4 DEF Rec
      <3>8. Fits(z, v.nblk)
        BY <2>9, <2>13, <3>2
      <3>9. i + 1 <= u.nblk
        BY <2>2, <2>4, <2>9, <2>11, <3>7 DEF Larger
      <3>10. StartOf(i + 1, off) = 0
        <4>1. off \div B \in Nat /\ off \div B <= i
          <5>1. off \div B \in Nat /\ LastBlock(off, len) \in Nat
            BY <2>10, Spans
          <5>2. i \in off \div B .. LastBlock(off, len)
            BY DEF len
          <5> QED BY <5>1, <5>2
        <4> QED BY <2>2, <4>1 DEF StartOf
      <3>11. Ready(i + 1, w.done + n, off, len)
        BY <2>3, <3>1
      <3>12. Base(u, off, len)
        <4>1. ~u.dead
          BY <1>2, <2>4, <3>7
        <4> QED BY <2>4, <3>2, <3>14, <3>6, <3>7, <3>8, <4>1 DEF Base
      <3>13. Live(u, i + 1, off, len)
        BY <3>2, <3>7, <3>9, <3>10, <3>11, <3>15 DEF Live
      <3> QED BY <3>12, <3>13 DEF u, len
    <2> QED BY <2>7, <2>8, <2>9, <2>12 DEF u
  <1> QED BY <1>1, <1>2

(* What BlocksRight says, by its parts.                                      *)
Good == TypeOK /\ Owned(i_nblk, i_block, free) /\ Fits(i_size, i_nblk)

(* It is the invariant that the run checks.                                  *)
LEMMA GoodIsRight == BlocksRight <=> Good
  <1>1. BlocksFitSize <=> Fits(i_size, i_nblk)
    BY DEF BlocksFitSize, Fits, Needed
  <1>2. TypeOK => i_nblk \in 0 .. N /\ i_block \in [Index -> Blk \cup {Junk}] /\ free \subseteq Blk
    BY DEF TypeOK
  <1>3. TypeOK => (BlocksOwned <=> Owned(i_nblk, i_block, free))
    BY <1>2, Zenon DEF BlocksOwned, Owned, Own
  <1> QED BY <1>1, <1>3 DEF BlocksRight, Good

(* The first turn begins with the file as it is.                             *)
LEMMA EntryRight ==
  ASSUME Good, NEW off, NEW bs, Legal(off, bs)
  PROVE  /\ Base(Entry(off, Len(bs)), off, Len(bs))
         /\ Live(Entry(off, Len(bs)), off \div B, off, Len(bs))
  <1> DEFINE w == Entry(off, Len(bs))
             first == off \div B
             len == Len(bs)
  <1>1. /\ off \in Nat /\ len \in Nat \ {0} /\ MaxSize \in Nat /\ i_size \in Nat
        /\ i_size <= MaxSize /\ off <= i_size /\ off + len <= MaxSize
        /\ B \in Nat \ {0}
    BY LegalFacts
  <1>2. /\ first \in Nat /\ (off % B) \in 0 .. B - 1 /\ off = first * B + (off % B)
        /\ first <= LastBlock(off, len) /\ LastBlock(off, len) \in Nat
    BY <1>1, Spans
  <1>3. /\ w.left = len /\ w.start = off % B /\ w.done = 0 /\ w.size = i_size
        /\ w.nblk = i_nblk /\ w.block = i_block /\ w.free = free /\ w.data = data
        /\ w.stop = FALSE /\ w.dead = FALSE
    BY DEF Entry
  <1>4. Rec(w)
    <2>1. /\ len \in Int /\ (off % B) \in Int /\ 0 \in Int /\ i_size \in Int /\ i_nblk \in Int
          /\ i_block \in [Index -> Blk \cup {Junk}] /\ free \in SUBSET Blk /\ data \in Data
      BY <1>1, <1>2 DEF Good, TypeOK, Data
    <2> HIDE DEF len
    <2> QED BY <2>1 DEF Rec, Entry, len
  <1>5. first <= i_nblk
    <2>1. (first - 1) * B + B = first * B /\ first - 1 \in Int /\ (first - 1) * B \in Int
      BY <1>1, <1>2
    <2>2. first * B \in Int
      BY <1>1, <1>2
    <2>3. (first - 1) * B < i_size
      BY <1>1, <1>2, <2>1, <2>2
    <2>4. first - 1 < Needed(i_size) /\ Needed(i_size) \in Nat
      BY <1>1, <2>1, <2>3, Need
    <2>5. Needed(i_size) <= i_nblk /\ i_nblk \in 0 .. N
      BY DEF Good, Fits, TypeOK
    <2> HIDE DEF first, Needed
    <2> QED BY <1>2, <2>4, <2>5, SizeAssumption
  <1>6. Ready(first, 0, off, len)
    <2> HIDE DEF len
    <2> QED BY <1>2 DEF Ready
  <1>7. StartOf(first, off) = off % B
    BY DEF StartOf
  <1>8. i_size = Larger(i_size, off + 0)
    BY <1>1 DEF Larger
  <1>9. Base(w, off, len)
    BY <1>1, <1>3, <1>4, <1>8 DEF Base, Good
  <1>10. Live(w, first, off, len)
    BY <1>1, <1>3, <1>5, <1>6, <1>7 DEF Live
  <1> QED BY <1>9, <1>10

(* What the loop ends with.                                                  *)
LEMMA LoopRight ==
  ASSUME Good, NEW off, NEW bs, Legal(off, bs)
  PROVE  LET w == Loop(off, bs)
         IN  /\ Base(w, off, Len(bs)) /\ Live(w, LastBlock(off, Len(bs)) + 1, off, Len(bs))
  <1> DEFINE len == Len(bs)
             first == off \div B
             last == LastBlock(off, len)
  <1>1. first \in Nat /\ last \in Nat /\ first <= last /\ last + 1 \in Nat /\ first <= last + 1
    <2>1. off \in Nat /\ len \in Nat \ {0}
      BY LegalFacts
    <2>2. first \in Nat /\ last \in Nat /\ first <= last
      BY <2>1, Spans
    <2> QED BY <2>2
  <1>2. PICK w : Turns(w, off, bs, last + 1) /\ Loop(off, bs) = w[last + 1]
    BY <1>1, LoopTurns
  <1>7. \A i \in first .. last + 1 :
          w[i] = IF i = first THEN Entry(off, len) ELSE Turn(w[i - 1], i - 1, off, bs)
    BY <1>2 DEF Turns
  <1> DEFINE T == {i \in first .. last + 1 : Base(w[i], off, len) /\ Live(w[i], i, off, len)}
  <1>3. first \in T
    <2>1. w[first] = Entry(off, len) /\ first \in first .. last + 1
      BY <1>1, <1>2 DEF Turns
    <2> QED BY <2>1, EntryRight
  <1>4. ASSUME NEW i \in first .. last, i \in T PROVE i + 1 \in T
    <2>1. i + 1 \in first .. last + 1 /\ i + 1 # first /\ i + 1 - 1 = i
      BY <1>1
    <2>2. w[i + 1] = Turn(w[i], i, off, bs)
      <3>1. w[i + 1] = Turn(w[i + 1 - 1], i + 1 - 1, off, bs)
        BY <2>1, <1>7
      <3> QED BY <2>1, <3>1
    <2>3. Base(w[i], off, len) /\ Live(w[i], i, off, len)
      BY <1>4
    <2> QED BY <2>1, <2>2, <2>3, TurnKeeps
  <1> HIDE DEF T, first, last
  <1>5. \A i \in first .. (last + 1) : i \in T
    <2>1. (last + 1) - 1 = last
      BY <1>1
    <2>2. \A i \in first .. (last + 1) - 1 : i \in T => i + 1 \in T
      BY <1>4, <2>1
    <2> QED BY <1>1, <1>3, <2>2, Climb
  <1>6. last + 1 \in T
    BY <1>1, <1>5
  <1> QED BY <1>2, <1>6 DEF T, last

-----------------------------------------------------------------------------
(* An answer is a number and bytes, also if it is lost.                      *)
LEMMA ReturnsTyped ==
  ASSUME NEW n \in -1 .. MaxSize, NEW bs \in Seq(Byte), Returns(Reply(n, bs))
  PROVE  reply'.n \in -1 .. MaxSize /\ reply'.bytes \in Seq(Byte)
  <1>1. 0 \in -1 .. MaxSize /\ << >> \in Seq(Byte)
    BY Arith
  <1>2. CASE reply' = Reply(n, bs)
    BY <1>2 DEF Reply
  <1>3. CASE reply' = Lost
    BY <1>1, <1>3 DEF Lost
  <1> QED BY <1>2, <1>3 DEF Returns

(* A file that the loop leaves is right.                                     *)
LEMMA KeepRight ==
  ASSUME Good, NEW w, NEW off, NEW len, Base(w, off, len), Keep(w), i_size' = w.size,
         reply'.n \in -1 .. MaxSize, reply'.bytes \in Seq(Byte),
         asked'.off \in 0 .. MaxSize, asked'.bytes \in Seq(Byte)
  PROVE  Good'
  <1>1. /\ i_nblk' = w.nblk /\ i_block' = w.block /\ free' = w.free /\ data' = w.data
        /\ dead' = w.dead /\ others' = others
    BY DEF Keep
  <1>2. /\ w.data \in Data /\ w.dead \in BOOLEAN
    BY DEF Base, Rec
  <1>3. Owned(w.nblk, w.block, w.free) /\ Fits(w.size, w.nblk) /\ w.size \in 0 .. MaxSize
    BY DEF Base
  <1>4. w.nblk \in 0 .. N /\ w.block \in [Index -> Blk \cup {Junk}] /\ w.free \subseteq Blk
    BY <1>3 DEF Owned
  <1>5. TypeOK'
    BY <1>1, <1>2, <1>3, <1>4 DEF TypeOK, Good, Data, Index
  <1>6. Owned(i_nblk, i_block, free)'
    BY <1>1, <1>3 DEF Owned
  <1>7. Fits(i_size, i_nblk)'
    BY <1>1, <1>3
  <1> QED BY <1>5, <1>6, <1>7 DEF Good

(* tiny_write: legal or stopped by a full disk, it leaves a right file.      *)
LEMMA WriteRight ==
  ASSUME Good, NEW off \in 0 .. MaxSize, NEW n \in 1 .. MaxSize, NEW bs \in Bytes(n), Write(off, bs)
  PROVE  Good'
  <1> DEFINE w == Loop(off, bs)
  <1>1. MaxSize \in Nat
    BY Arith
  <1>2. bs \in Seq(Byte) /\ Len(bs) = n
    BY <1>1 DEF Bytes
  <1>3. Legal(off, bs)
    BY <1>1, <1>2 DEF Write, Legal, Good, TypeOK
  <1>4. Base(w, off, n)
    BY <1>2, <1>3, LoopRight
  <1>5. /\ Keep(w) /\ i_size' = w.size /\ Returns(Done(w.done))
        /\ asked' = Nothing \/ asked' = [off |-> off, bytes |-> bs]
    BY DEF Write
  <1>6. w.done \in 0 .. n
    BY <1>4 DEF Base
  <1> HIDE DEF w
  <1>7. /\ reply'.n \in -1 .. MaxSize /\ reply'.bytes \in Seq(Byte)
        /\ asked'.off \in 0 .. MaxSize /\ asked'.bytes \in Seq(Byte)
    <2>1. w.done \in -1 .. MaxSize
      BY <1>1, <1>6
    <2>2. << >> \in Seq(Byte) /\ 0 \in 0 .. MaxSize
      BY <1>1
    <2>3. reply'.n \in -1 .. MaxSize /\ reply'.bytes \in Seq(Byte)
      BY <1>5, <2>1, <2>2, ReturnsTyped DEF Done
    <2>4. CASE asked' = Nothing
      BY <2>2, <2>3, <2>4 DEF Nothing
    <2>5. CASE asked' = [off |-> off, bytes |-> bs]
      BY <1>2, <2>3, <2>5
    <2> QED BY <1>5, <2>4, <2>5
  <1> QED BY <1>4, <1>5, <1>7, KeepRight

(* A call that writes no bytes replies with a number.                        *)
LEMMA Silent ==
  ASSUME TypeOK, asked' = Nothing, NEW m \in -1 .. MaxSize, Returns(Done(m))
  PROVE  /\ reply'.n \in -1 .. MaxSize /\ reply'.bytes \in Seq(Byte)
         /\ asked'.off \in 0 .. MaxSize /\ asked'.bytes \in Seq(Byte)
  <1>1. << >> \in Seq(Byte) /\ 0 \in 0 .. MaxSize
    BY Arith
  <1>2. reply'.n \in -1 .. MaxSize /\ reply'.bytes \in Seq(Byte)
    BY <1>1, ReturnsTyped DEF Done
  <1>3. asked'.off = 0 /\ asked'.bytes = << >>
    BY DEF Nothing
  <1> QED BY <1>1, <1>2, <1>3

(* tiny_truncate to a greater length.                                        *)
LEMMA ExtendRight ==
  ASSUME Good, NEW n \in 0 .. MaxSize, Extend(n)
  PROVE  Good'
  <1> DEFINE bs == Zeroes(n - i_size)
             w == Loop(i_size, bs)
  <1>1. MaxSize \in Nat /\ i_size \in 0 .. MaxSize /\ i_size < n /\ n - i_size \in Nat \ {0}
    BY Arith DEF Good, TypeOK, Extend
  <1>2. bs \in Seq(Byte) /\ Len(bs) = n - i_size
    BY <1>1, ByteAssumption DEF Zeroes
  <1>3. Legal(i_size, bs)
    BY <1>1, <1>2 DEF Extend, Legal
  <1>4. Base(w, i_size, n - i_size)
    BY <1>2, <1>3, LoopRight
  <1>5. /\ Keep(w) /\ i_size' = i_size + w.done
        /\ Returns(Done(IF w.stop THEN -1 ELSE 0)) /\ asked' = Nothing
    BY DEF Extend
  <1>6. w.done \in 0 .. n - i_size /\ w.size = Larger(i_size, i_size + w.done)
    BY <1>4 DEF Base
  <1> HIDE DEF w
  <1>7. i_size' = w.size
    BY <1>1, <1>5, <1>6 DEF Larger
  <1>8. (IF w.stop THEN -1 ELSE 0) \in -1 .. MaxSize
    BY <1>1
  <1>9. /\ reply'.n \in -1 .. MaxSize /\ reply'.bytes \in Seq(Byte)
        /\ asked'.off \in 0 .. MaxSize /\ asked'.bytes \in Seq(Byte)
    BY <1>5, <1>8, Silent DEF Good
  <1> QED BY <1>4, <1>5, <1>7, <1>9, KeepRight

(* The block and the offset of a byte are unique.                            *)
LEMMA DivMod ==
  ASSUME NEW i \in Nat, NEW r \in 0 .. B - 1
  PROVE  (i * B + r) \div B = i /\ (i * B + r) % B = r /\ i * B + r \in Nat
  <1> DEFINE x == i * B + r
  <1>1. B \in Nat \ {0} /\ r \in Nat /\ r < B /\ i * B \in Nat
    BY SizeAssumption
  <1>2. x \in Nat
    BY <1>1
  <1>3. x \div B \in Nat /\ (x % B) \in 0 .. B - 1 /\ x = (x \div B) * B + (x % B)
    <2> HIDE DEF x
    <2> QED BY <1>2, Arith
  <1> DEFINE q == x \div B
             m == x % B
  <1>4. q \in Nat /\ m \in Nat /\ m < B /\ i * B + r = q * B + m
    BY <1>1, <1>3
  <1> HIDE DEF q, m
  <1>5. q = i
    <2>1. CASE q < i
      <3>1. q * B + B <= i * B
        BY <1>4, <2>1, Arith
      <3>2. q * B \in Int
        BY <1>1, <1>4
      <3> QED BY <1>1, <1>4, <3>1, <3>2
    <2>2. CASE i < q
      <3>1. i * B + B <= q * B
        BY <1>4, <2>2, Arith
      <3>2. q * B \in Int
        BY <1>1, <1>4
      <3> QED BY <1>1, <1>4, <3>1, <3>2
    <2> QED BY <1>4, <2>1, <2>2
  <1>6. m = r
    BY <1>1, <1>4, <1>5
  <1> QED BY <1>2, <1>5, <1>6 DEF q, m

(* The blocks the file has are blocks, and every byte of it is in one.       *)
LEMMA Within ==
  ASSUME Good, NEW i \in Nat, NEW r \in 0 .. B - 1, i * B + r < i_size
  PROVE  i \in 0 .. i_nblk - 1 /\ i \in Index /\ i_block[i] \in Blk
  <1>1. i_size \in Nat /\ i_nblk \in Nat /\ i_nblk <= N /\ N \in Nat /\ B \in Nat \ {0}
    <2>1. MaxSize \in Nat /\ N \in Nat \ {0} /\ B \in Nat \ {0}
      BY Arith
    <2>2. i_size \in 0 .. MaxSize /\ i_nblk \in 0 .. N
      BY DEF Good, TypeOK
    <2> QED BY <2>1, <2>2
  <1>2. i * B \in Int /\ i * B < i_size /\ i \in Int
    BY <1>1
  <1>3. i < Needed(i_size) /\ Needed(i_size) \in Nat
    BY <1>1, <1>2, Need
  <1>4. Needed(i_size) <= i_nblk
    BY DEF Good, Fits
  <1> HIDE DEF Needed
  <1>5. i \in 0 .. i_nblk - 1 /\ i \in Index
    BY <1>1, <1>3, <1>4 DEF Index
  <1>6. i_block[i] \in Own(i_nblk, i_block)
    BY <1>5 DEF Own
  <1> QED BY <1>5, <1>6 DEF Good, Owned

-----------------------------------------------------------------------------
Fetches(r, off, n, junk, z) ==
  r = [i \in off \div B .. z |->
         IF i = off \div B THEN [left |-> ToRead(off, n), bytes |-> << >>]
                           ELSE Fetch(r[i - 1], i - 1, off, n, junk)]

(* There are such turns.                                                     *)
LEMMA SomeFetches ==
  ASSUME NEW off, NEW n, NEW junk, NEW z \in Nat, off \div B \in Nat, off \div B <= z
  PROVE  \E r : Fetches(r, off, n, junk, z)
  <1> DEFINE a == off \div B
             none == [left |-> ToRead(off, n), bytes |-> << >>]
             T == {m \in a .. z : \E r : Fetches(r, off, n, junk, m)}
  <1>1. a \in T
    <2>1. Fetches([i \in a .. a |-> none], off, n, junk, a)
      BY DEF Fetches
    <2> QED BY <2>1
  <1>2. ASSUME NEW m \in a .. z - 1, m \in T PROVE m + 1 \in T
    <2>1. PICK r : Fetches(r, off, n, junk, m)
      BY <1>2
    <2> DEFINE v == [i \in a .. m + 1 |-> IF i = m + 1 THEN Fetch(r[m], m, off, n, junk) ELSE r[i]]
    <2>2. \A i \in a .. m + 1 :
            v[i] = IF i = a THEN none ELSE Fetch(v[i - 1], i - 1, off, n, junk)
      <3> SUFFICES ASSUME NEW i \in a .. m + 1
                   PROVE  v[i] = IF i = a THEN none ELSE Fetch(v[i - 1], i - 1, off, n, junk)
        OBVIOUS
      <3>1. CASE i = m + 1
        <4>1. i # a /\ i - 1 = m /\ m \in a .. m + 1 /\ m # m + 1
          BY <3>1
        <4>2. v[i] = Fetch(r[m], m, off, n, junk) /\ v[i - 1] = r[m]
          BY <3>1, <4>1
        <4> QED BY <4>1, <4>2
      <3>2. CASE i # m + 1
        <4>1. i \in a .. m /\ v[i] = r[i]
          BY <3>2
        <4>2. i # a => i - 1 \in a .. m + 1 /\ i - 1 # m + 1 /\ v[i - 1] = r[i - 1]
          BY <4>1
        <4>3. r[i] = IF i = a THEN none ELSE Fetch(r[i - 1], i - 1, off, n, junk)
          BY <2>1, <4>1 DEF Fetches
        <4> HIDE DEF v
        <4> QED BY <4>1, <4>2, <4>3
      <3> QED BY <3>1, <3>2
    <2>3. v = [i \in a .. m + 1 |-> v[i]]
      OBVIOUS
    <2> HIDE DEF v
    <2>4. Fetches(v, off, n, junk, m + 1)
      BY <2>2, <2>3 DEF Fetches
    <2> QED BY <2>4
  <1> HIDE DEF T
  <1>3. z \in T
    <2>1. a \in Nat /\ z \in a .. z /\ \A m \in a .. z - 1 : m \in T => m + 1 \in T
      BY <1>2
    <2> HIDE DEF a
    <2> QED BY <1>1, <2>1, Climb
  <1> QED BY <1>3 DEF T

(* Gather returns what the last of them has read.                            *)
LEMMA GatherFetches ==
  ASSUME NEW off, NEW n, NEW junk, off \div B \in Nat, (off + n) \div B + 1 \in Nat,
         off \div B <= (off + n) \div B + 1
  PROVE  \E r : /\ Fetches(r, off, n, junk, (off + n) \div B + 1)
                /\ Gather(off, n, junk) = r[(off + n) \div B + 1].bytes
  <1> DEFINE z == (off + n) \div B + 1
             R == CHOOSE r : Fetches(r, off, n, junk, z)
  <1>1. Fetches(R, off, n, junk, z)
    BY SomeFetches
  <1>2. Gather(off, n, junk) = R[z].bytes
    BY DEF Gather, Fetches
  <1> HIDE DEF R
  <1> QED BY <1>1, <1>2

(* What has been read before the turn for the block with index i, of t bytes *)
(* from offset off on.                                                       *)
HasRead(r, i, off, t) ==
  /\ r.left \in 0 .. t /\ r.bytes \in Seq(Byte) /\ Len(r.bytes) = t - r.left
  /\ \A k \in 1 .. t - r.left : r.bytes[k] = Content[off + k]
  /\ r.left = 0 \/ off + (t - r.left) = IF i = off \div B THEN off ELSE i * B

(* One turn of the loop of tiny_read reads the next bytes of the file, and   *)
(* the last one leaves nothing to read.                                      *)
LEMMA FetchReads ==
  ASSUME Good, NEW off \in Nat, off <= i_size, NEW n \in Nat, NEW junk \in Blk,
         NEW i \in off \div B .. (off + n) \div B,
         NEW r, HasRead(r, i, off, ToRead(off, n))
  PROVE  /\ HasRead(Fetch(r, i, off, n, junk), i + 1, off, ToRead(off, n))
         /\ i = (off + n) \div B => Fetch(r, i, off, n, junk).left = 0
  <1> DEFINE t == ToRead(off, n)
             first == off \div B
             last == (off + n) \div B
             left == r.left
             p == t - left
             share == Share(off, n, i, left)
             from == IF i = first THEN off % B ELSE 0
             bs == BytesOf(i, from, share, junk)
             u == Fetch(r, i, off, n, junk)
  <1>1. /\ B \in Nat \ {0} /\ off + n \in Nat /\ i_size \in Nat
        /\ first \in Nat /\ (off % B) \in 0 .. B - 1 /\ off = first * B + (off % B)
        /\ last \in Nat /\ ((off + n) % B) \in 0 .. B - 1
        /\ off + n = last * B + ((off + n) % B)
    <2>1. i_size \in 0 .. MaxSize /\ MaxSize \in Nat
      BY Arith DEF Good, TypeOK
    <2> QED BY <2>1, Arith
  <1>2. i \in Nat /\ first <= i /\ i <= last
    BY <1>1
  <1>3. t \in Nat /\ off + t <= i_size /\ t <= n
    BY <1>1 DEF ToRead, Smaller
  <1>4. /\ left \in Nat /\ left <= t /\ r.bytes \in Seq(Byte) /\ Len(r.bytes) = p /\ p \in Nat
        /\ \A k \in 1 .. p : r.bytes[k] = Content[off + k]
        /\ left = 0 \/ off + p = IF i = first THEN off ELSE i * B
    BY <1>3 DEF HasRead
  <1>5. left = 0 \/ off + p = i * B + from
    <2> HIDE DEF p, t, left
    <2>1. CASE i = first
      <3>1. left = 0 \/ off + p = off
        BY <1>4, <2>1
      <3>2. off = i * B + from
        BY <1>1, <2>1
      <3> QED BY <3>1, <3>2
    <2>2. CASE i # first
      <3>1. left = 0 \/ off + p = i * B
        BY <1>4, <2>2
      <3>2. i * B = i * B + from
        BY <1>1, <1>2, <2>2
      <3> QED BY <3>1, <3>2
    <2> QED BY <2>1, <2>2
  <1>6. u = [left |-> left - share, bytes |-> r.bytes \o bs]
    BY DEF Fetch
  <1>7. from \in 0 .. B - 1
    BY <1>1
  <1>8. share = Smaller(left, IF i = first THEN B - (off % B)
                              ELSE IF i < last THEN B ELSE (off + n) % B)
    BY DEF Share
  <1>9. share \in 0 .. left /\ from + share <= B
    <2> HIDE DEF share, left
    <2> QED BY <1>1, <1>4, <1>8 DEF Smaller
  <1> HIDE DEF t, first, last, left, share, from, bs, u
  <1>10. i * B \in Nat /\ last * B \in Nat /\ (i + 1) * B = i * B + B
    BY <1>1, <1>2
  <1>11. i < last => i * B + B <= last * B
    BY <1>1, <1>2, Arith
  <1>12. left - share = 0 \/ (off + p + share = (i + 1) * B /\ i < last)
    <2> SUFFICES ASSUME left # 0, share # left
                 PROVE  off + p + share = (i + 1) * B /\ i < last
      BY <1>4, <1>9
    <2>1. off + p = i * B + from /\ p + left <= n
      BY <1>3, <1>4, <1>5
    <2>2. share < left /\ off + p + share < off + n
      BY <1>1, <1>3, <1>4, <1>9, <2>1
    <2>3. CASE i = first
      <3>1. share = B - from
        BY <1>1, <1>4, <1>8, <2>2, <2>3 DEF Smaller, from, first
      <3>2. off + p + share = (i + 1) * B
        BY <1>1, <1>4, <1>9, <1>10, <2>1, <3>1, <1>7
      <3>3. i < last
        <4> SUFFICES ASSUME i = last PROVE FALSE
          BY <1>1, <1>2
        <4>1. off + p + share = last * B + B
          BY <1>10, <3>2
        <4> QED BY <1>1, <1>10, <2>2, <4>1
      <3> QED BY <3>2, <3>3
    <2>4. CASE i # first /\ i < last
      <3>1. share = B /\ from = 0
        BY <1>1, <1>4, <1>8, <2>2, <2>4 DEF Smaller, from, first
      <3> QED BY <1>1, <1>4, <1>9, <1>10, <2>1, <2>4, <3>1
    <2>5. CASE i # first /\ i = last
      <3>1. share = (off + n) % B /\ from = 0
        BY <1>1, <1>4, <1>8, <2>2, <2>5 DEF Smaller, from, first
      <3>2. off + p + share = off + n
        BY <1>1, <1>4, <1>9, <1>10, <2>1, <2>5, <3>1
      <3> QED BY <2>2, <3>2, <1>1, <1>4
    <2> QED BY <1>1, <1>2, <2>3, <2>4, <2>5
  <1>13. \A k \in 1 .. share : bs[k] \in Byte /\ bs[k] = Content[off + p + k]
    <2> SUFFICES ASSUME NEW k \in 1 .. share
                 PROVE  bs[k] \in Byte /\ bs[k] = Content[off + p + k]
      OBVIOUS
    <2>1. off + p = i * B + from /\ k \in Nat /\ 1 <= k /\ k <= share
      BY <1>4, <1>5, <1>9
    <2> DEFINE x == from + k - 1
    <2>2. x \in 0 .. B - 1 /\ off + p + k - 1 = i * B + x
      BY <1>1, <1>4, <1>7, <1>9, <1>10, <2>1
    <2>3. i * B + x < i_size /\ off + p + k \in 1 .. i_size
      BY <1>1, <1>3, <1>4, <1>9, <2>1, <2>2
    <2>4. i \in Index /\ i_block[i] \in Blk
      BY <1>2, <2>2, <2>3, Within
    <2>5. bs[k] = data[i_block[i]][x]
      BY <2>4 DEF bs, BytesOf
    <2>6. (i * B + x) \div B = i /\ (i * B + x) % B = x
      BY <1>2, <2>2, DivMod
    <2> HIDE DEF x
    <2>7. Content[off + p + k] = data[i_block[i]][x]
      <3> DEFINE y == off + p + k
      <3>1. Content[y] = data[i_block[(y - 1) \div B]][(y - 1) % B]
        BY <2>3 DEF Content
      <3>2. y - 1 = i * B + x
        BY <1>4, <2>1, <2>2
      <3> HIDE DEF y
      <3>3. Content[y] = data[i_block[(i * B + x) \div B]][(i * B + x) % B]
        BY <3>1, <3>2
      <3> QED BY <2>6, <3>3 DEF y
    <2>8. data[i_block[i]][x] \in Byte
      BY <2>2, <2>4 DEF Good, TypeOK
    <2> QED BY <2>5, <2>7, <2>8
  <1>14. bs \in Seq(Byte) /\ Len(bs) = share
    <2>1. bs = [k \in 1 .. share |-> bs[k]]
      BY DEF bs, BytesOf
    <2>2. share \in Nat
      BY <1>4, <1>9
    <2>3. bs \in [1 .. share -> Byte]
      BY <1>13, <2>1
    <2> QED BY <2>2, <2>3
  <1>15. r.bytes \o bs \in Seq(Byte) /\ Len(r.bytes \o bs) = p + share
    <2> DEFINE rb == r.bytes
    <2>1. rb \in Seq(Byte) /\ Len(rb) = p /\ bs \in Seq(Byte) /\ Len(bs) = share
      BY <1>4, <1>14
    <2> HIDE DEF rb
    <2>2. rb \o bs \in Seq(Byte) /\ Len(rb \o bs) = p + share
      BY <2>1, ConcatProperties
    <2> QED BY <2>2 DEF rb
  <1>16. \A k \in 1 .. p + share : (r.bytes \o bs)[k] = Content[off + k]
    <2> SUFFICES ASSUME NEW k \in 1 .. p + share PROVE (r.bytes \o bs)[k] = Content[off + k]
      OBVIOUS
    <2>3. p \in Nat /\ share \in Nat /\ k \in Nat /\ 1 <= k /\ k <= p + share
      BY <1>4, <1>9
    <2> DEFINE rb == r.bytes
    <2>4. rb \in Seq(Byte) /\ Len(rb) = p /\ bs \in Seq(Byte) /\ Len(bs) = share
      BY <1>4, <1>14
    <2>5. (rb \o bs)[k] = IF k <= p THEN rb[k] ELSE bs[k - p]
      <3> HIDE DEF rb
      <3> QED BY <2>3, <2>4
    <2>1. CASE k <= p
      <3>1. k \in 1 .. p
        BY <2>1, <2>3
      <3> QED BY <1>4, <2>1, <2>5, <3>1
    <2>2. CASE k > p
      <3>1. k - p \in 1 .. share
        BY <2>2, <2>3
      <3>2. off + p + (k - p) = off + k
        BY <2>3
      <3>3. (rb \o bs)[k] = bs[k - p]
        BY <2>2, <2>3, <2>5
      <3> QED BY <1>13, <3>1, <3>2, <3>3
    <2>6. k <= p \/ k > p
      BY <2>3
    <2> QED BY <2>1, <2>2, <2>6
  <1>17. /\ u.left = left - share /\ u.bytes = r.bytes \o bs
         /\ t - u.left = p + share /\ u.left \in 0 .. t
    <2>1. u.left = left - share /\ u.bytes = r.bytes \o bs
      BY <1>6
    <2> QED BY <1>3, <1>4, <1>9, <2>1
  <1>18. i + 1 # first
    BY <1>1, <1>2
  <1>19. u.left = 0 \/ off + (t - u.left) = (i + 1) * B
    BY <1>4, <1>9, <1>12, <1>17
  <1>20. HasRead(u, i + 1, off, t)
    <2>1. Len(u.bytes) = t - u.left /\ u.bytes \in Seq(Byte)
          /\ \A k \in 1 .. t - u.left : u.bytes[k] = Content[off + k]
      BY <1>15, <1>16, <1>17
    <2>2. u.left = 0 \/ off + (t - u.left) = IF i + 1 = off \div B THEN off ELSE (i + 1) * B
      BY <1>18, <1>19 DEF first
    <2> QED BY <1>17, <2>1, <2>2 DEF HasRead
  <1>21. i = last => u.left = 0
    BY <1>12, <1>17, <1>1
  <1> QED BY <1>20, <1>21 DEF u, t, last

(* tiny_read reads the bytes of the file from offset off on.                 *)
LEMMA GatherReads ==
  ASSUME Good, NEW off \in Nat, off <= i_size, NEW n \in Nat, NEW junk \in Blk
  PROVE  /\ Gather(off, n, junk) \in Seq(Byte)
         /\ Len(Gather(off, n, junk)) = ToRead(off, n)
         /\ \A k \in 1 .. ToRead(off, n) : Gather(off, n, junk)[k] = Content[off + k]
  <1> DEFINE t == ToRead(off, n)
             first == off \div B
             last == (off + n) \div B
  <1>1. /\ first \in Nat /\ last \in Nat /\ first <= last /\ t \in Nat
    <2>1. /\ B \in Nat \ {0} /\ off + n \in Nat /\ i_size \in Nat
          /\ first \in Nat /\ (off % B) \in 0 .. B - 1 /\ off = first * B + (off % B)
          /\ last \in Nat /\ ((off + n) % B) \in 0 .. B - 1
          /\ off + n = last * B + ((off + n) % B)
      <3>1. i_size \in 0 .. MaxSize /\ MaxSize \in Nat
        BY Arith DEF Good, TypeOK
      <3> QED BY <3>1, Arith
    <2>2. t \in Nat
      BY <2>1 DEF ToRead, Smaller
    <2>3. first <= last
      <3> SUFFICES ASSUME last < first PROVE FALSE
        BY <2>1
      <3>1. last * B + B <= first * B
        BY <2>1, Arith
      <3>2. last * B \in Int /\ first * B \in Int
        BY <2>1
      <3> HIDE DEF first, last
      <3> QED BY <2>1, <3>1, <3>2
    <2> QED BY <2>1, <2>2, <2>3
  <1>2. last + 1 \in Nat /\ first <= last + 1 /\ (last + 1) - 1 = last
    BY <1>1
  <1>3. PICK r : /\ Fetches(r, off, n, junk, last + 1)
                 /\ Gather(off, n, junk) = r[last + 1].bytes
    BY <1>1, <1>2, GatherFetches
  <1>4. \A i \in first .. last + 1 :
          r[i] = IF i = first THEN [left |-> t, bytes |-> << >>]
                              ELSE Fetch(r[i - 1], i - 1, off, n, junk)
    BY <1>3 DEF Fetches
  <1> DEFINE T == {i \in first .. last + 1 : HasRead(r[i], i, off, t)}
  <1>5. first \in T
    <2>1. r[first] = [left |-> t, bytes |-> << >>] /\ first \in first .. last + 1
      BY <1>1, <1>4
    <2>2. r[first].left = t /\ r[first].bytes = << >>
      BY <2>1
    <2>3. r[first].left \in 0 .. t /\ t - r[first].left = 0 /\ Len(r[first].bytes) = 0
          /\ r[first].bytes \in Seq(Byte)
      BY <1>1, <2>2
    <2>4. off + (t - r[first].left) = off
      BY <1>1, <2>2
    <2> HIDE DEF t
    <2>5. HasRead(r[first], first, off, t)
      BY <2>3, <2>4 DEF HasRead
    <2> QED BY <2>1, <2>5
  <1>6. ASSUME NEW i \in first .. last, i \in T
        PROVE  i = last => r[i + 1].left = 0
    <2>1. i + 1 \in first .. last + 1 /\ i + 1 # first /\ i + 1 - 1 = i
      BY <1>1
    <2>2. r[i + 1] = Fetch(r[i], i, off, n, junk)
      BY <1>4, <2>1
    <2>3. HasRead(r[i], i, off, t)
      BY <1>6
    <2> QED BY <2>1, <2>2, <2>3, FetchReads
  <1>10. ASSUME NEW i \in first .. last, i \in T
        PROVE  i + 1 \in T
    <2>1. i + 1 \in first .. last + 1 /\ i + 1 # first /\ i + 1 - 1 = i
      BY <1>1
    <2>2. r[i + 1] = Fetch(r[i], i, off, n, junk)
      BY <1>4, <2>1
    <2>3. HasRead(r[i], i, off, t)
      BY <1>10
    <2> QED BY <2>1, <2>2, <2>3, FetchReads
  <1> HIDE DEF T, first, last, t
  <1>7. \A i \in first .. last + 1 : i \in T
    <2>1. \A i \in first .. (last + 1) - 1 : i \in T => i + 1 \in T
      BY <1>10, <1>2
    <2> QED BY <1>1, <1>2, <1>5, <2>1, Climb
  <1>8. last + 1 \in T /\ r[last + 1].left = 0
    BY <1>1, <1>6, <1>7
  <1>9. HasRead(r[last + 1], last + 1, off, t)
    BY <1>8 DEF T
  <1> QED BY <1>1, <1>3, <1>8, <1>9 DEF HasRead, t

(* tiny_read changes nothing but the reply.                                  *)
LEMMA ReadRight ==
  ASSUME Good, NEW off \in 0 .. MaxSize, NEW n \in 1 .. MaxSize, Read(off, n)
  PROVE  Good'
  <1>1. MaxSize \in Nat /\ i_size \in 0 .. MaxSize /\ off \in Nat /\ n \in Nat
    BY Arith DEF Good, TypeOK
  <1>2. PICK junk \in Blk : Returns(Reply(Len(Gather(off, n, junk)), Gather(off, n, junk)))
    BY DEF Read
  <1> DEFINE bs == Gather(off, n, junk)
  <1>3. /\ off <= i_size /\ asked' = Nothing
        /\ UNCHANGED <<i_size, i_nblk, i_block, free, others, data, dead>>
    BY DEF Read
  <1>4. bs \in Seq(Byte) /\ Len(bs) = ToRead(off, n)
    BY <1>1, <1>3, GatherReads
  <1> HIDE DEF bs
  <1>5. Returns(Reply(Len(bs), bs))
    BY <1>2 DEF bs
  <1>6. ToRead(off, n) \in 0 .. MaxSize
    BY <1>1, <1>3 DEF ToRead, Smaller
  <1>7. reply'.n \in -1 .. MaxSize /\ reply'.bytes \in Seq(Byte)
    <2>1. Len(bs) \in -1 .. MaxSize
      BY <1>1, <1>4, <1>6
    <2> QED BY <1>4, <1>5, <2>1, ReturnsTyped
  <1>8. asked'.off \in 0 .. MaxSize /\ asked'.bytes \in Seq(Byte)
    <2>1. asked'.off = 0 /\ asked'.bytes = << >> /\ << >> \in Seq(Byte)
      BY <1>3 DEF Nothing
    <2> QED BY <1>1, <2>1
  <1>9. TypeOK'
    BY <1>3, <1>7, <1>8 DEF Good, TypeOK, Index
  <1> QED BY <1>3, <1>9 DEF Good, Owned

(* The number of blocks that n bytes need, as tiny_truncate computes it.     *)
LEMMA After ==
  ASSUME NEW n \in Nat
  PROVE  Needed(n) = IF n % B = 0 THEN n \div B ELSE n \div B + 1
  <1> DEFINE q == n \div B
             r == n % B
             d == Needed(n)
  <1>1. /\ B \in Nat \ {0} /\ q \in Nat /\ r \in 0 .. B - 1 /\ n = q * B + r
        /\ q * B \in Nat /\ (q + 1) * B = q * B + B
    <2>1. /\ B \in Nat \ {0} /\ q \in Nat /\ r \in 0 .. B - 1 /\ n = q * B + r
      BY Arith
    <2> HIDE DEF q, r
    <2> QED BY <2>1
  <1>2. /\ d \in Nat /\ (q * B < n <=> q < d) /\ (n <= q * B <=> d <= q)
        /\ (n <= (q + 1) * B <=> d <= q + 1)
    BY <1>1, Need
  <1> HIDE DEF q, r, d
  <1>3. CASE r = 0
    <2>1. d <= q
      BY <1>1, <1>2, <1>3
    <2>2. ~(q - 1 >= d)
      <3>1. (q - 1) * B = q * B - B /\ q - 1 \in Int
        BY <1>1
      <3>2. n <= (q - 1) * B <=> d <= q - 1
        BY <3>1, Need DEF d
      <3> QED BY <1>1, <1>2, <1>3, <3>1, <3>2
    <2>3. d = q
      BY <1>1, <1>2, <2>1, <2>2
    <2> QED BY <1>3, <2>3 DEF d, q, r
  <1>4. CASE r # 0
    <2>1. d = q + 1
      BY <1>1, <1>2, <1>4
    <2> QED BY <1>4, <2>1 DEF d, q, r
  <1> QED BY <1>3, <1>4

(* tiny_truncate to a smaller length gives back the blocks behind the last   *)
(* one but one.                                                              *)
LEMMA ShrinkRight ==
  ASSUME Good, NEW n \in 0 .. MaxSize, Shrink(n)
  PROVE  Good'
  <1> DEFINE after == Needed(n)
             m == Smaller(i_nblk, after + 1)
             given == {i_block[i] : i \in after + 1 .. i_nblk - 1}
  <1>1. /\ MaxSize \in Nat /\ i_size \in Nat /\ i_size <= MaxSize /\ n \in Nat /\ n < i_size
        /\ i_nblk \in Nat /\ i_nblk <= N /\ N \in Nat
    <2>1. MaxSize \in Nat /\ N \in Nat
      BY Arith
    <2>2. i_size \in 0 .. MaxSize /\ i_nblk \in 0 .. N
      BY DEF Good, TypeOK
    <2> QED BY <2>1, <2>2 DEF Shrink
  <1>2. /\ free' = free \cup given /\ i_nblk' = m /\ i_size' = n
        /\ Returns(Done(0)) /\ asked' = Nothing
        /\ i_block' = i_block /\ others' = others /\ data' = data /\ dead' = dead
    <2>1. Needed(n) = IF n % B = 0 THEN n \div B ELSE n \div B + 1
      BY <1>1, After
    <2> HIDE DEF m, given
    <2> QED BY <2>1 DEF Shrink, m, given
  <1>3. after \in Nat /\ after <= i_nblk
    <2>1. Needed(n) \in Nat /\ Needed(i_size) \in Nat /\ Needed(i_size) <= i_nblk
      BY <1>1, Need DEF Good, Fits
    <2>2. Needed(n) <= Needed(i_size)
      <3> SUFFICES ASSUME Needed(i_size) < Needed(n) PROVE FALSE
        BY <2>1
      <3>1. Needed(i_size) * B < n /\ i_size <= Needed(i_size) * B
        BY <1>1, <2>1, Need
      <3>2. Needed(i_size) * B \in Int
        BY <2>1, SizeAssumption
      <3> QED BY <1>1, <3>1, <3>2
    <2> HIDE DEF Needed
    <2> QED BY <1>1, <2>1, <2>2
  <1> HIDE DEF after
  <1>4. m \in Nat /\ after <= m /\ m <= after + 1 /\ m <= i_nblk
    BY <1>1, <1>3 DEF Smaller
  <1>5. Fits(n, m)
    BY <1>4 DEF Fits, after
  <1>6. /\ 0 .. i_nblk - 1 = (0 .. m - 1) \cup (after + 1 .. i_nblk - 1)
        /\ (0 .. m - 1) \cap (after + 1 .. i_nblk - 1) = {}
    BY <1>1, <1>3 DEF Smaller
  <1>7. Owned(i_nblk, i_block, free)
    BY DEF Good
  <1>8. Own(i_nblk, i_block) = Own(m, i_block) \cup given
    BY <1>6, Zenon DEF Own
  <1>9. Own(m, i_block) \cap given = {}
    <2> SUFFICES ASSUME NEW i \in 0 .. m - 1, NEW j \in after + 1 .. i_nblk - 1,
                        i_block[i] = i_block[j]
                 PROVE  FALSE
      BY DEF Own
    <2>1. i \in 0 .. i_nblk - 1 /\ j \in 0 .. i_nblk - 1
      BY <1>6
    <2>2. i = j
      BY <1>7, <2>1 DEF Owned
    <2> QED BY <1>6, <2>2
  <1> HIDE DEF m, given
  <1>10. Owned(m, i_block, free \cup given)
    <2>1. free \cup others \cup Own(m, i_block) \cup given = Blk
      BY <1>7, <1>8 DEF Owned
    <2>2. Own(m, i_block) \cap (free \cup given \cup others) = {} /\ given \cap others = {}
          /\ free \cap others = {}
      BY <1>7, <1>8, <1>9 DEF Owned
    <2>3. \A i, j \in 0 .. m - 1 : i_block[i] = i_block[j] => i = j
      BY <1>6, <1>7 DEF Owned
    <2>4. m \in 0 .. N
      BY <1>1, <1>4
    <2>5. (free \cup given) \cup others \cup Own(m, i_block) = Blk
      BY <2>1
    <2>6. free \cup given \subseteq Blk
      BY <2>1
    <2> QED BY <1>7, <2>2, <2>3, <2>4, <2>5, <2>6 DEF Owned
  <1>11. 0 \in -1 .. MaxSize
    BY <1>1
  <1>12. TypeOK'
    <2>1. /\ reply'.n \in -1 .. MaxSize /\ reply'.bytes \in Seq(Byte)
          /\ asked'.off \in 0 .. MaxSize /\ asked'.bytes \in Seq(Byte)
      BY <1>2, <1>11, Silent DEF Good
    <2>2. i_nblk' \in 0 .. N /\ free' \subseteq Blk /\ i_size' \in 0 .. MaxSize
      BY <1>1, <1>2, <1>10 DEF Owned
    <2> QED BY <1>2, <2>1, <2>2 DEF Good, TypeOK, Index
  <1> QED BY <1>2, <1>5, <1>10, <1>12 DEF Good, Owned

(* unlink gives back all the blocks of the file.                             *)
LEMMA RecreateRight ==
  ASSUME Good, Recreate
  PROVE  Good'
  <1>1. /\ free' = free \cup Own(i_nblk, i_block)
        /\ i_size' = 0 /\ i_nblk' = 0 /\ i_block' = [i \in Index |-> Junk]
        /\ Returns(Done(0)) /\ asked' = Nothing
        /\ others' = others /\ data' = data /\ dead' = dead
    BY DEF Recreate, Own
  <1>2. MaxSize \in Nat /\ N \in Nat /\ 0 \in -1 .. MaxSize /\ 0 \in 0 .. MaxSize /\ 0 \in 0 .. N
    BY Arith
  <1>3. Owned(i_nblk, i_block, free)
    BY DEF Good
  <1>4. Own(0, i_block') = {} /\ 0 .. 0 - 1 = {}
    BY DEF Own
  <1>5. Owned(0, i_block', free \cup Own(i_nblk, i_block))
    <2>1. i_block' \in [Index -> Blk \cup {Junk}]
      BY <1>1
    <2> QED BY <1>2, <1>3, <1>4, <2>1 DEF Owned
  <1>6. Fits(0, 0)
    <2>1. Needed(0) = 0
      <3>1. Needed(0) \in Nat /\ (0 <= 0 * B <=> Needed(0) <= 0) /\ 0 * B = 0
        BY Need, SizeAssumption
      <3> HIDE DEF Needed
      <3> QED BY <3>1
    <2> QED BY <2>1 DEF Fits
  <1>7. TypeOK'
    <2>1. /\ reply'.n \in -1 .. MaxSize /\ reply'.bytes \in Seq(Byte)
          /\ asked'.off \in 0 .. MaxSize /\ asked'.bytes \in Seq(Byte)
      BY <1>1, <1>2, Silent DEF Good
    <2>2. i_block' \in [Index -> Blk \cup {Junk}] /\ free' \subseteq Blk
      BY <1>1, <1>5 DEF Owned
    <2> QED BY <1>1, <1>2, <2>1, <2>2 DEF Good, TypeOK, Index
  <1> QED BY <1>1, <1>5, <1>6, <1>7 DEF Good, Owned

(* Other files take free blocks and give back their own.                     *)
LEMMA OthersRight ==
  ASSUME Good, OtherTakes \/ \E b \in Blk : OtherFrees(b)
  PROVE  Good'
  <1>1. /\ i_size' = i_size /\ i_nblk' = i_nblk /\ i_block' = i_block /\ data' = data
        /\ reply' = reply /\ asked' = asked /\ dead' = dead
    BY DEF OtherTakes, OtherFrees
  <1>2. \E b \in Blk : \/ b \in free /\ free' = free \ {b} /\ others' = others \cup {b}
                       \/ b \in others /\ free' = free \cup {b} /\ others' = others \ {b}
    <2>1. CASE OtherTakes
      <3>1. FirstFree(free) \in free
        BY <2>1, FirstIsFree DEF OtherTakes, Good, TypeOK
      <3> QED BY <2>1, <3>1 DEF OtherTakes, Good, TypeOK
    <2>2. CASE \E b \in Blk : OtherFrees(b)
      BY <2>2 DEF OtherFrees
    <2> QED BY <2>1, <2>2
  <1>3. Owned(i_nblk, i_block, free)
    BY DEF Good
  <1>4. PICK b \in Blk : \/ b \in free /\ free' = free \ {b} /\ others' = others \cup {b}
                         \/ b \in others /\ free' = free \cup {b} /\ others' = others \ {b}
    BY <1>2
  <1>5. /\ free' \subseteq Blk /\ others' \subseteq Blk /\ free' \cup others' = free \cup others
        /\ free' \cap others' = {}
    BY <1>3, <1>4 DEF Owned, Good, TypeOK
  <1>6. Owned(i_nblk, i_block, free)'
    BY <1>1, <1>3, <1>5 DEF Owned
  <1>7. TypeOK'
    BY <1>1, <1>5 DEF Good, TypeOK, Index
  <1>8. Fits(i_size, i_nblk)'
    BY <1>1 DEF Good
  <1> QED BY <1>6, <1>7, <1>8 DEF Good

(* An empty file on an empty disk.                                           *)
LEMMA InitRight == Init => Good
  <1> SUFFICES ASSUME Init PROVE Good
    OBVIOUS
  <1>1. /\ MaxSize \in Nat /\ N \in Nat /\ 0 \in -1 .. MaxSize /\ 0 \in 0 .. MaxSize
        /\ 0 \in 0 .. N /\ B \in Nat \ {0}
    BY Arith
  <1>2. /\ i_size = 0 /\ i_nblk = 0 /\ i_block = [i \in Index |-> Junk]
        /\ free = Blk /\ others = {} /\ dead = FALSE
        /\ data = [b \in Blk |-> [k \in 0 .. B - 1 |-> 0]]
        /\ reply.n = 0 /\ reply.bytes = << >> /\ asked.off = 0 /\ asked.bytes = << >>
    BY DEF Init, Done, Reply, Nothing
  <1>3. data \in [Blk -> [0 .. B - 1 -> Byte]]
    BY <1>2, ByteAssumption
  <1>4. << >> \in Seq(Byte) /\ i_block \in [Index -> Blk \cup {Junk}]
    BY <1>2
  <1>5. TypeOK
    BY <1>1, <1>2, <1>3, <1>4 DEF TypeOK
  <1>6. Own(0, i_block) = {} /\ 0 .. 0 - 1 = {}
    BY DEF Own
  <1>7. Owned(i_nblk, i_block, free)
    BY <1>1, <1>2, <1>4, <1>6 DEF Owned
  <1>8. Fits(0, 0)
    <2>1. Needed(0) = 0
      <3>1. Needed(0) \in Nat /\ (0 <= 0 * B <=> Needed(0) <= 0) /\ 0 * B = 0
        BY Need, SizeAssumption
      <3> HIDE DEF Needed
      <3> QED BY <3>1
    <2> QED BY <2>1 DEF Fits
  <1> QED BY <1>2, <1>5, <1>7, <1>8 DEF Good

(* Every step keeps the file right.                                          *)
LEMMA NextRight == Good /\ [Next]_vars => Good'
  <1> SUFFICES ASSUME Good, [Next]_vars PROVE Good'
    OBVIOUS
  <1>1. CASE \E off \in 0 .. MaxSize, n \in 1 .. MaxSize : Read(off, n)
    BY <1>1, ReadRight
  <1>2. CASE \E off \in 0 .. MaxSize, n \in 1 .. MaxSize : WriteTooBig(off, n)
    <2>1. /\ reply' = Done(-1) /\ asked' = Nothing
          /\ UNCHANGED <<i_size, i_nblk, i_block, free, others, data, dead>>
      BY <1>2 DEF WriteTooBig
    <2>2. -1 \in -1 .. MaxSize
      BY Arith
    <2>3. /\ reply'.n \in -1 .. MaxSize /\ reply'.bytes \in Seq(Byte)
          /\ asked'.off \in 0 .. MaxSize /\ asked'.bytes \in Seq(Byte)
      BY <2>1, <2>2, Silent DEF Good, Returns
    <2>4. TypeOK'
      BY <2>1, <2>3 DEF Good, TypeOK, Index
    <2> QED BY <2>1, <2>4 DEF Good, Owned
  <1>3. CASE \E off \in 0 .. MaxSize, n \in 1 .. MaxSize : \E bs \in Bytes(n) : Write(off, bs)
    BY <1>3, WriteRight
  <1>4. CASE \E n \in 0 .. MaxSize : Shrink(n)
    BY <1>4, ShrinkRight
  <1>5. CASE \E n \in 0 .. MaxSize : Extend(n)
    BY <1>5, ExtendRight
  <1>6. CASE Recreate
    BY <1>6, RecreateRight
  <1>7. CASE OtherTakes \/ \E b \in Blk : OtherFrees(b)
    BY <1>7, OthersRight
  <1>8. CASE UNCHANGED vars
    <2>1. TypeOK'
      BY <1>8 DEF vars, Good, TypeOK, Index
    <2> QED BY <1>8, <2>1 DEF vars, Good, Owned
  <1> QED BY <1>1, <1>2, <1>3, <1>4, <1>5, <1>6, <1>7, <1>8 DEF Next

(* In every state the blocks of the file are its own, none is lost, and it   *)
(* has the blocks its size needs and at most one more: whatever the size of  *)
(* a block and of i_block, wherever the calls begin and end (also for those  *)
(* that cross the end of a block, which lose bytes), and on a full disk.     *)
THEOREM BlocksAreRight == Spec => []BlocksRight
  <1>1. Init => Good
    BY InitRight
  <1>2. Good /\ [Next]_vars => Good'
    BY NextRight
  <1>3. Good => BlocksRight
    BY GoodIsRight
  <1> QED BY <1>1, <1>2, <1>3, PTL DEF Spec

(* A byte before the end of a file is in one of the blocks it needs.         *)
LEMMA Inside ==
  ASSUME NEW s \in Nat, NEW m \in Nat, Needed(s) <= m, NEW p \in 0 .. s - 1
  PROVE  p \div B \in 0 .. m - 1 /\ (p % B) \in 0 .. B - 1 /\ p = (p \div B) * B + (p % B)
  <1> DEFINE q == p \div B
             r == p % B
  <1>1. /\ B \in Nat \ {0} /\ p \in Nat /\ p < s /\ q \in Nat /\ r \in 0 .. B - 1
        /\ p = q * B + r
    BY Arith
  <1> HIDE DEF q, r
  <1>2. q * B \in Nat /\ q * B < s
    BY <1>1
  <1>3. q < Needed(s) /\ Needed(s) \in Nat
    BY <1>1, <1>2, Need
  <1> HIDE DEF Needed
  <1>4. q \in 0 .. m - 1
    BY <1>1, <1>3
  <1> QED BY <1>1, <1>4 DEF q, r

(* Every byte of the file the loop has made is the one it was to put there,  *)
(* or the one that was there.                                                *)
Wrote(w, off, bs) ==
  \A p \in 0 .. w.size - 1 :
    w.data[w.block[p \div B]][p % B] =
      IF off <= p /\ p < off + w.done THEN bs[p - off + 1] ELSE Content[p + 1]

Full(w, off, len) ==
  w.stop => w.done < len /\ (off \div B = LastBlock(off, len) => w.done = 0)

Alike(off, bs) ==
  \/ off \div B = LastBlock(off, Len(bs))
  \/ \A j, k \in 1 .. Len(bs) : bs[j] = bs[k]

(* A turn puts the right bytes in the right place: if there is one turn, or  *)
(* if the bytes are all alike, it does not matter that the buffer is never   *)
(* advanced.                                                                 *)
LEMMA TurnWrites ==
  ASSUME Good, NEW off, NEW bs, Legal(off, bs), NEW i \in off \div B .. LastBlock(off, Len(bs)),
         Straight(off, Len(bs)), Alike(off, bs),
         NEW w, Base(w, off, Len(bs)), Live(w, i, off, Len(bs)),
         Wrote(w, off, bs), Full(w, off, Len(bs))
  PROVE  Wrote(Turn(w, i, off, bs), off, bs) /\ Full(Turn(w, i, off, bs), off, Len(bs))
  <1> DEFINE len == Len(bs)
             u == Turn(w, i, off, bs)
  <1>1. CASE w.stop \/ w.dead
    <2>1. u = w
      BY <1>1 DEF Turn
    <2> QED BY <2>1
  <1>2. CASE ~w.stop /\ ~w.dead
    <2> DEFINE v == GiveBlock(w, i)
               s == StartOf(i, off)
               e == EndOf(len - w.done, off, len)
               n == e - s
               b == v.block[i]
    <2>1. /\ Rec(w) /\ Owned(w.nblk, w.block, w.free) /\ Fits(w.size, w.nblk)
          /\ w.size \in 0 .. MaxSize /\ w.done \in 0 .. len /\ w.nblk \in 0 .. N
          /\ w.left = len - w.done /\ w.start = s
          /\ w.size = Larger(i_size, off + w.done) /\ i <= w.nblk
          /\ Ready(i, w.done, off, len)
      BY <1>2 DEF Base, Live, Owned
    <2>2. i \in 0 .. N - 1 /\ i \in Nat
      BY InTable
    <2>3. /\ s \in 0 .. B - 1 /\ e \in 1 .. B /\ n > 0 /\ off + w.done = i * B + s
          /\ n >= 0 => /\ w.done + n \in 0 .. len /\ off + w.done + n <= (i + 1) * B
      BY <2>1, Advance DEF Legal
    <2>4. /\ Rec(v) /\ Owned(v.nblk, v.block, v.free)
          /\ v.left = w.left /\ v.start = w.start /\ v.done = w.done
          /\ v.size = w.size /\ v.data = w.data /\ v.dead = w.dead
          /\ \A j \in 0 .. w.nblk - 1 : v.block[j] = w.block[j]
          /\ v.stop => v.nblk = w.nblk
          /\ ~v.stop => v.nblk = Larger(w.nblk, i + 1) /\ v.block[i] \in Blk
      BY <1>2, <2>1, <2>2, Giving
    <2>5. u = IF v.stop THEN v
              ELSE IF n < 0 THEN [v EXCEPT !.dead = TRUE]
              ELSE [v EXCEPT !.data  = Copy(w, b, s, e, bs),
                             !.done  = w.done + n,
                             !.size  = Larger(w.size, off + w.done + n),
                             !.left  = w.left - n,
                             !.start = 0]
      <3>1. u = TurnOf(GiveBlock(w, i), w, i, off, bs, w.start, EndOf(w.left, off, Len(bs)))
        BY <1>2, <2>1, <2>2, Turned
      <3>2. u = TurnOf(v, w, i, off, bs, s, e)
        BY <2>1, <3>1
      <3> HIDE DEF u, v, e, s
      <3> QED BY <3>2 DEF TurnOf
    <2>6. /\ off \in Nat /\ len \in Nat \ {0} /\ MaxSize \in Nat /\ i_size \in Nat
          /\ i_size <= MaxSize /\ off <= i_size /\ off + len <= MaxSize
          /\ bs \in Seq(Byte) /\ B \in Nat \ {0} /\ N \in Nat \ {0}
      BY LegalFacts
    <2>7. w.size \in Nat /\ w.size <= MaxSize /\ w.done \in Nat /\ w.done <= len /\ w.nblk \in Nat
      BY <2>1, <2>6
    <2>8. /\ s \in Nat /\ s <= B /\ e \in Nat /\ e <= B /\ n \in Nat /\ n > 0 /\ i * B \in Nat
          /\ (i + 1) * B = i * B + B
      <3>1. s \in Nat /\ s <= B /\ e \in Nat /\ e <= B
        BY <2>3, <2>6
      <3>2. i * B \in Nat /\ (i + 1) * B = i * B + B
        BY <2>2, <2>6
      <3> QED BY <2>3, <3>1, <3>2
    <2>9. i = off \div B => w.done = 0
      BY <2>1 DEF Ready
    <2>14. off \div B = LastBlock(off, len) => w.done = 0
      <3>1. off \div B \in Nat /\ LastBlock(off, len) \in Nat
        BY <2>6, Spans
      <3> QED BY <2>2, <2>9, <3>1
    <2>10. \A p \in 0 .. w.size - 1 :
             /\ p \div B \in 0 .. w.nblk - 1 /\ (p % B) \in 0 .. B - 1
             /\ p = (p \div B) * B + (p % B)
             /\ v.block[p \div B] = w.block[p \div B]
      <3> SUFFICES ASSUME NEW p \in 0 .. w.size - 1
                   PROVE  /\ p \div B \in 0 .. w.nblk - 1 /\ (p % B) \in 0 .. B - 1
                          /\ p = (p \div B) * B + (p % B)
                          /\ v.block[p \div B] = w.block[p \div B]
        OBVIOUS
      <3>1. Needed(w.size) <= w.nblk
        BY <2>1 DEF Fits
      <3>2. p \div B \in 0 .. w.nblk - 1 /\ (p % B) \in 0 .. B - 1 /\ p = (p \div B) * B + (p % B)
        BY <2>7, <3>1, Inside
      <3> QED BY <2>4, <3>2
    <2> HIDE DEF v, s, e, n, u, len, b
    <2>11. CASE v.stop
      <3>1. u = v
        BY <2>5, <2>11
      <3>2. Wrote(v, off, bs)
        <4> SUFFICES ASSUME NEW p \in 0 .. w.size - 1
                     PROVE  v.data[v.block[p \div B]][p % B] =
                              IF off <= p /\ p < off + w.done THEN bs[p - off + 1]
                                                              ELSE Content[p + 1]
          BY <2>4 DEF Wrote
        <4>1. v.block[p \div B] = w.block[p \div B]
          BY <2>10
        <4> QED BY <2>4, <4>1, Zenon DEF Wrote
      <3>3. w.done < len
        BY <2>3, <2>7, <2>8, <2>6
      <3>4. Full(v, off, len)
        BY <2>4, <2>14, <3>3 DEF Full
      <3> QED BY <3>1, <3>2, <3>4 DEF u, len
    <2>12. CASE ~v.stop
      <3> DEFINE z == Larger(w.size, off + w.done + n)
                 c == Copy(w, b, s, e, bs)
      <3>1. u = [v EXCEPT !.data = c, !.done = w.done + n, !.size = z,
                          !.left = w.left - n, !.start = 0]
        BY <2>5, <2>8, <2>12
      <3> HIDE DEF z, c
      <3>2. /\ u.done = w.done + n /\ u.size = z /\ u.data = c /\ u.block = v.block
            /\ u.stop = v.stop
        BY <2>4, <3>1 DEF Rec
      <3>3. Full(u, off, len)
        BY <2>12, <3>2 DEF Full
      <3> DEFINE d == off + w.done
      <3>4. d \in Nat /\ d = i * B + s /\ d <= w.size /\ off <= d
            /\ z = Larger(w.size, d + n) /\ d + n <= i * B + B /\ d + n = i * B + e
        <4>1. w.size = Larger(i_size, off + w.done)
          BY <2>1
        <4>2. d \in Nat /\ d = i * B + s /\ off <= d
          BY <2>3, <2>6, <2>7
        <4>3. d <= w.size
          BY <2>6, <2>7, <4>1, <4>2 DEF Larger
        <4>4. z = Larger(w.size, d + n)
          BY DEF z
        <4>5. d + n = i * B + e /\ d + n <= i * B + B
          <5> DEFINE ib == i * B
          <5>1. n = e - s
            BY DEF n
          <5>2. ib \in Nat /\ d = ib + s
            BY <2>8, <4>2
          <5>4. s \in Nat /\ e \in Nat /\ e <= B /\ B \in Nat
            BY <2>6, <2>8
          <5> HIDE DEF ib, d
          <5>3. d + n = ib + e /\ d + n <= ib + B
            BY <5>1, <5>2, <5>4
          <5> QED BY <5>3 DEF ib
        <4> QED BY <4>2, <4>3, <4>4, <4>5
      <3>5. b \in Blk /\ i \in 0 .. v.nblk - 1 /\ \A q \in 0 .. w.nblk - 1 : q \in 0 .. v.nblk - 1
        BY <2>2, <2>4, <2>7, <2>12 DEF b, Larger
      <3>6. /\ w.data \in Data /\ c[b] = [k \in 0 .. B - 1 |->
                 IF s <= k /\ k < e THEN bs[k - s + 1] ELSE w.data[b][k]]
            /\ \A a \in Blk : a # b => c[a] = w.data[a]
        <4>1. w.data \in Data
          BY <2>1 DEF Rec
        <4> QED BY <3>5, <4>1 DEF c, Copy, Data
      <3>7. ASSUME NEW p \in 0 .. z - 1
            PROVE  c[v.block[p \div B]][p % B] =
                     IF off <= p /\ p < off + (w.done + n) THEN bs[p - off + 1]
                                                           ELSE Content[p + 1]
        <4> DEFINE q == p \div B
                   r == p % B
        <4>1. p \in Nat /\ p < z /\ q \in Nat /\ r \in 0 .. B - 1 /\ p = q * B + r
          <5>1. z \in Nat
            BY <2>7, <2>8, <3>4 DEF Larger
          <5>2. p \in Nat /\ p < z
            BY <5>1
          <5> QED BY <5>2, Arith
        <4>2. off + (w.done + n) = d + n
          BY <2>6, <2>7, <2>8
        <4>12. p < w.size \/ (d <= p /\ p < d + n)
          BY <2>7, <2>8, <3>4, <4>1 DEF Larger
        <4> HIDE DEF d, q, r
        <4>3. CASE d <= p /\ p < d + n
          <5>1. q = i /\ r = p - i * B
            <6> DEFINE x == p - i * B
            <6>1. x \in 0 .. B - 1 /\ i * B + x = p
              <7> DEFINE ib == i * B
              <7>1. ib \in Nat /\ d = ib + s /\ d + n <= ib + B
                BY <2>8, <3>4
              <7>2. p \in Nat
                BY <4>1
              <7> HIDE DEF ib
              <7>3. p - ib \in 0 .. B - 1 /\ ib + (p - ib) = p
                BY <2>6, <2>8, <3>4, <4>3, <7>1, <7>2
              <7> QED BY <7>3 DEF ib
            <6> HIDE DEF x
            <6>2. p \div B = i /\ p % B = x
              BY <2>2, <6>1, DivMod
            <6> QED BY <6>2 DEF q, r, x
          <5>2. s <= r /\ r < e /\ r - s + 1 \in Nat
            <6> DEFINE ib == i * B
            <6>1. ib \in Nat /\ d = ib + s /\ d + n = ib + e /\ r = p - ib
              BY <2>8, <3>4, <5>1
            <6>2. p \in Nat
              BY <4>1
            <6> HIDE DEF ib
            <6> QED BY <2>8, <3>4, <4>3, <6>1, <6>2
          <5>3. c[b][r] = bs[r - s + 1]
            BY <3>6, <4>1, <5>2
          <5>4. bs[r - s + 1] = bs[p - off + 1]
            <6>1. CASE off \div B = LastBlock(off, len)
              <7>1. w.done = 0
                BY <2>14, <6>1
              <7>2. r - s = p - off
                BY <2>6, <2>8, <3>4, <4>1, <5>1, <7>1 DEF d
              <7> QED BY <7>2
            <6>2. CASE off \div B # LastBlock(off, len)
              <7>1. \A j, k \in 1 .. len : bs[j] = bs[k]
                BY <6>2 DEF Alike, len
              <7>2. r - s + 1 \in 1 .. len
                <8>1. r - s < n /\ n <= len
                  BY <2>3, <2>6, <2>7, <2>8, <4>1, <5>2 DEF n
                <8> QED BY <2>6, <2>8, <4>1, <5>2, <8>1
              <7>3. p - off + 1 \in 1 .. len
                <8>2. w.done + n \in 0 .. len
                  BY <2>3, <2>8
                <8>3. off <= p
                  BY <2>6, <3>4, <4>1, <4>3
                <8>1. off + (w.done + n) <= off + len /\ off <= p /\ p < off + (w.done + n)
                  BY <2>6, <4>2, <4>3, <8>2, <8>3
                <8> QED BY <2>6, <2>7, <2>8, <4>1, <8>1
              <7> QED BY <7>1, <7>2, <7>3
            <6> QED BY <6>1, <6>2
          <5>5. off <= p /\ p < off + (w.done + n)
            BY <2>6, <3>4, <4>1, <4>2, <4>3
          <5> QED BY <5>1, <5>3, <5>4, <5>5 DEF b, q, r
        <4>4. CASE ~(d <= p /\ p < d + n)
          <5>1. p \in 0 .. w.size - 1
            BY <2>7, <4>1, <4>12, <4>4
          <5>2. q \in 0 .. w.nblk - 1 /\ v.block[q] = w.block[q]
            BY <2>10, <5>1 DEF q
          <5>3. w.data[w.block[q]][r] =
                  IF off <= p /\ p < d THEN bs[p - off + 1] ELSE Content[p + 1]
            BY <5>1, Zenon DEF Wrote, q, r, d
          <5>4. (off <= p /\ p < d) <=> (off <= p /\ p < off + (w.done + n))
            BY <2>6, <2>8, <3>4, <4>1, <4>2, <4>4
          <5>5. c[v.block[q]][r] = w.data[w.block[q]][r]
            <6>1. CASE q = i
              <7>1. ~(s <= r /\ r < e)
                BY <2>8, <3>4, <4>1, <4>4, <6>1
              <7>2. c[b][r] = w.data[b][r]
                BY <3>6, <4>1, <7>1
              <7> QED BY <5>2, <6>1, <7>2 DEF b
            <6>2. CASE q # i
              <7>1. q \in 0 .. v.nblk - 1
                BY <3>5, <5>2
              <7>2. v.block[q] # b
                BY <2>4, <3>5, <6>2, <7>1 DEF Owned, b
              <7>3. v.block[q] \in Own(v.nblk, v.block)
                BY <7>1 DEF Own
              <7>4. v.block[q] \in Blk
                BY <2>4, <7>3 DEF Owned
              <7> QED BY <3>6, <5>2, <7>2, <7>4
            <6> QED BY <6>1, <6>2
          <5> QED BY <5>3, <5>4, <5>5 DEF q, r
        <4> QED BY <4>3, <4>4
      <3>8. Wrote(u, off, bs)
        BY <3>2, <3>7 DEF Wrote
      <3> QED BY <3>3, <3>8 DEF u, len
    <2> QED BY <2>11, <2>12 DEF u
  <1> QED BY <1>1, <1>2

(* So does the whole loop.                                                   *)
LEMMA LoopWrites ==
  ASSUME Good, NEW off, NEW bs, Legal(off, bs), Straight(off, Len(bs)), Alike(off, bs)
  PROVE  LET w == Loop(off, bs)
         IN  /\ Base(w, off, Len(bs)) /\ Wrote(w, off, bs) /\ Full(w, off, Len(bs))
             /\ ~w.dead /\ (~w.stop => w.done = Len(bs))
  <1> DEFINE len == Len(bs)
             first == off \div B
             last == LastBlock(off, len)
             W == Loop(off, bs)
  <1>1. first \in Nat /\ last \in Nat /\ first <= last /\ last + 1 \in Nat /\ first <= last + 1
        /\ (last + 1) - 1 = last
    <2>1. off \in Nat /\ len \in Nat \ {0}
      BY LegalFacts
    <2>2. first \in Nat /\ last \in Nat /\ first <= last
      BY <2>1, Spans
    <2> HIDE DEF first, last
    <2> QED BY <2>2
  <1>2. PICK w : Turns(w, off, bs, last + 1) /\ Loop(off, bs) = w[last + 1]
    BY <1>1, LoopTurns
  <1>3. \A i \in first .. last + 1 :
          w[i] = IF i = first THEN Entry(off, len) ELSE Turn(w[i - 1], i - 1, off, bs)
    BY <1>2 DEF Turns
  <1> DEFINE Ok(i) == /\ Base(w[i], off, len) /\ Live(w[i], i, off, len)
                      /\ Wrote(w[i], off, bs) /\ Full(w[i], off, len)
             T == {i \in first .. last + 1 : Ok(i)}
  <1>4. first \in T
    <2>1. w[first] = Entry(off, len) /\ first \in first .. last + 1
      BY <1>1, <1>3
    <2>2. Base(Entry(off, len), off, len) /\ Live(Entry(off, len), first, off, len)
      BY EntryRight
    <2> DEFINE v == Entry(off, len)
    <2>3. v.size = i_size /\ v.block = i_block /\ v.data = data /\ v.done = 0 /\ v.stop = FALSE
      BY DEF Entry
    <2> HIDE DEF v
    <2>4. Full(v, off, len)
      BY <2>3 DEF Full
    <2>5. Wrote(v, off, bs)
      <3> SUFFICES ASSUME NEW p \in 0 .. i_size - 1
                   PROVE  data[i_block[p \div B]][p % B] =
                            IF off <= p /\ p < off + 0 THEN bs[p - off + 1] ELSE Content[p + 1]
        BY <2>3 DEF Wrote
      <3>1. i_size \in Nat /\ off \in Nat
        BY LegalFacts
      <3>2. p + 1 \in 1 .. i_size /\ (p + 1) - 1 = p /\ ~(off <= p /\ p < off + 0)
        BY <3>1
      <3>3. Content[p + 1] = data[i_block[((p + 1) - 1) \div B]][((p + 1) - 1) % B]
        BY <3>2 DEF Content
      <3> QED BY <3>2, <3>3
    <2> QED BY <2>1, <2>2, <2>4, <2>5 DEF v
  <1>5. ASSUME NEW i \in first .. last, i \in T PROVE i + 1 \in T
    <2>1. i + 1 \in first .. last + 1 /\ i + 1 # first /\ i + 1 - 1 = i
      BY <1>1
    <2>2. w[i + 1] = Turn(w[i], i, off, bs)
      BY <1>3, <2>1
    <2>3. Ok(i)
      BY <1>5
    <2>4. Base(Turn(w[i], i, off, bs), off, len) /\ Live(Turn(w[i], i, off, bs), i + 1, off, len)
      BY <2>3, TurnKeeps
    <2>5. Wrote(Turn(w[i], i, off, bs), off, bs) /\ Full(Turn(w[i], i, off, bs), off, len)
      BY <2>3, TurnWrites
    <2> QED BY <2>1, <2>2, <2>4, <2>5
  <1> HIDE DEF T, first, last
  <1>6. \A i \in first .. last + 1 : i \in T
    <2>1. \A i \in first .. (last + 1) - 1 : i \in T => i + 1 \in T
      BY <1>1, <1>5
    <2> QED BY <1>1, <1>4, <2>1, Climb
  <1>7. Ok(last + 1)
    <2>1. last + 1 \in T
      BY <1>1, <1>6
    <2> QED BY <2>1 DEF T
  <1>8. Base(W, off, len) /\ Live(W, last + 1, off, len) /\ Wrote(W, off, bs) /\ Full(W, off, len)
    BY <1>2, <1>7
  <1> HIDE DEF W, Ok
  <1>9. ~W.dead
    BY <1>8 DEF Base
  <1>10. ~W.stop => W.done = len
    <2> SUFFICES ASSUME ~W.stop PROVE W.done = len
      OBVIOUS
    <2>1. Ready(last + 1, W.done, off, len)
      BY <1>8, <1>9 DEF Live
    <2>2. LastBlock(off, len) < last + 1
      BY <1>1 DEF last
    <2> QED BY <2>1, <2>2 DEF Ready
  <1> QED BY <1>8, <1>9, <1>10 DEF W

(* A call that stays within a block has one turn.                            *)
LEMMA WithinABlock ==
  ASSUME NEW off \in Nat, NEW len \in Nat \ {0}, ~Crosses(off, len)
  PROVE  off \div B = LastBlock(off, len)
  <1> DEFINE last == LastBlock(off, len)
             e == OffsetEnd(off, len)
  <1>1. last \in Nat /\ e \in 1 .. B /\ off + len = last * B + e /\ B \in Nat \ {0}
    BY Spans, SizeAssumption
  <1>2. off + len - 1 = last * B + (e - 1) /\ e - 1 \in 0 .. B - 1
    <2> DEFINE x == last * B
    <2>1. x \in Nat /\ off + len = x + e /\ e \in Nat
      BY <1>1
    <2> HIDE DEF x, e
    <2>2. off + len - 1 = x + (e - 1)
      BY <2>1
    <2>3. e - 1 \in 0 .. B - 1
      BY <1>1
    <2> QED BY <2>2, <2>3 DEF x
  <1> HIDE DEF e, last
  <1>3. (last * B + (e - 1)) \div B = last
    BY <1>1, <1>2, DivMod
  <1>4. (off + len - 1) \div B = last
    BY <1>2, <1>3
  <1> QED BY <1>4 DEF Crosses, last

Typed == /\ Content \in Seq(Byte) /\ Len(Content) = i_size /\ i_size \in Nat
         /\ MaxSize \in Nat /\ i_size <= MaxSize

(* The bytes of the file are bytes.                                          *)
LEMMA ContentType == Good => Typed
  <1> SUFFICES ASSUME Good PROVE Typed
    OBVIOUS
  <1>1. i_size \in Nat /\ MaxSize \in Nat /\ i_size <= MaxSize
    <2>1. i_size \in 0 .. MaxSize /\ MaxSize \in Nat
      BY Arith DEF Good, TypeOK
    <2> QED BY <2>1
  <1>2. \A k \in 1 .. i_size : Content[k] \in Byte
    <2> SUFFICES ASSUME NEW k \in 1 .. i_size PROVE Content[k] \in Byte
      OBVIOUS
    <2> DEFINE p == k - 1
               q == p \div B
               r == p % B
    <2>1. p \in 0 .. i_size - 1
      BY <1>1
    <2>2. q \in Nat /\ r \in 0 .. B - 1 /\ q * B + r < i_size
      <3>1. p \in Nat /\ p < i_size
        BY <1>1, <2>1
      <3> HIDE DEF p
      <3>2. q \in Nat /\ r \in 0 .. B - 1 /\ p = q * B + r
        BY <3>1, Arith
      <3> QED BY <3>1, <3>2
    <2>3. q \in Index /\ i_block[q] \in Blk
      <3> HIDE DEF q, r
      <3> QED BY <2>2, Within
    <2>4. data[i_block[q]][r] \in Byte
      <3> HIDE DEF q, r
      <3> QED BY <2>2, <2>3 DEF Good, TypeOK
    <2> QED BY <2>4 DEF Content
  <1>3. Content = [k \in 1 .. i_size |-> Content[k]]
    BY DEF Content
  <1>4. Content \in [1 .. i_size -> Byte]
    BY <1>2, <1>3
  <1> QED BY <1>1, <1>4 DEF Typed

(* Two files of one size with the same bytes.                                *)
LEMMA SameContent ==
  ASSUME Good, Good', i_size' = i_size,
         \A k \in 1 .. i_size : Content'[k] = Content[k]
  PROVE  Content' = Content
  <1>1. Content \in Seq(Byte) /\ Len(Content) = i_size
    BY ContentType DEF Typed
  <1>3. Good' => Typed'
    BY ContentType, PTL
  <1>2. Content' \in Seq(Byte) /\ Len(Content') = i_size'
    BY <1>3 DEF Typed
  <1> QED BY <1>1, <1>2, SeqEqual

(* The content that a loop leaves.                                           *)
LEMMA LoopContent ==
  ASSUME NEW w, NEW off \in Nat, NEW bs, Wrote(w, off, bs), Keep(w), i_size' = w.size,
         w.size \in Nat, w.done \in Nat
  PROVE  \A k \in 1 .. w.size :
           Content'[k] = IF off < k /\ k <= off + w.done THEN bs[k - off] ELSE Content[k]
  <1> SUFFICES ASSUME NEW k \in 1 .. w.size
               PROVE  Content'[k] = IF off < k /\ k <= off + w.done THEN bs[k - off] ELSE Content[k]
    OBVIOUS
  <1> DEFINE p == k - 1
  <1>1. p \in 0 .. w.size - 1 /\ p - off + 1 = k - off /\ p + 1 = k
        /\ ((off <= p /\ p < off + w.done) <=> (off < k /\ k <= off + w.done))
    OBVIOUS
  <1>2. i_size' = w.size /\ i_block' = w.block /\ data' = w.data
    BY DEF Keep
  <1>3. Content'[k] = w.data[w.block[p \div B]][p % B]
    BY <1>2 DEF Content
  <1> HIDE DEF p
  <1>4. w.data[w.block[p \div B]][p % B] =
          IF off <= p /\ p < off + w.done THEN bs[p - off + 1] ELSE Content[p + 1]
    BY <1>1, Zenon DEF Wrote
  <1> QED BY <1>1, <1>3, <1>4

(* What may be answered here may be answered there.                          *)
LEMMA SameReturns ==
  /\ \A n, bs : Returns(Reply(n, bs)) => Abstract!Returns(Abstract!Reply(n, bs))
  /\ \A n : Returns(Done(n)) => Abstract!Returns(Abstract!Done(n))
  BY DEF Returns, Reply, Done, Lost, Abstract!Returns, Abstract!Reply, Abstract!Done, Abstract!Lost

(* A write within a block is done in full, or, on a full disk, not at all.   *)
LEMMA WriteRefines ==
  ASSUME Good, Good', ~Across, NEW off \in 0 .. MaxSize, NEW n \in 1 .. MaxSize,
         NEW bs \in Bytes(n), Write(off, bs)
  PROVE  Abstract!Write(off, bs)
  <1> DEFINE w == Loop(off, bs)
  <1>1. Typed /\ Typed'
    BY ContentType, PTL
  <1>2. MaxSize \in Nat /\ off \in Nat /\ n \in Nat \ {0} /\ i_size \in Nat /\ i_size <= MaxSize
    BY <1>1 DEF Typed
  <1>3. bs \in Seq(Byte) /\ Len(bs) = n
    BY <1>2 DEF Bytes
  <1>4. /\ off + n <= MaxSize /\ off <= i_size /\ ~Crosses(off, n)
        /\ Keep(w) /\ i_size' = w.size /\ Returns(Done(w.done))
    BY <1>3 DEF Write
  <1>5. Legal(off, bs)
    BY <1>2, <1>3, <1>4 DEF Legal
  <1>6. off \div B = LastBlock(off, n)
    BY <1>2, <1>4, WithinABlock
  <1>7. Straight(off, Len(bs)) /\ Alike(off, bs)
    BY <1>3, <1>6 DEF Straight, Alike
  <1>8. /\ Base(w, off, n) /\ Wrote(w, off, bs) /\ Full(w, off, n)
        /\ ~w.dead /\ (~w.stop => w.done = n)
    BY <1>3, <1>5, <1>7, LoopWrites
  <1> HIDE DEF w
  <1>9. w.size = Larger(i_size, off + w.done) /\ w.done \in 0 .. n /\ w.size \in 0 .. MaxSize
    BY <1>8 DEF Base
  <1>10. \A k \in 1 .. w.size :
           Content'[k] = IF off < k /\ k <= off + w.done THEN bs[k - off] ELSE Content[k]
    BY <1>2, <1>4, <1>8, <1>9, LoopContent
  <1>11. Len(Content) = i_size /\ Content \in Seq(Byte) /\ Content' \in Seq(Byte)
         /\ Len(Content') = w.size
    BY <1>1, <1>4 DEF Typed
  <1>12. CASE w.stop
    <2>1. w.done = 0 /\ w.size = i_size
      BY <1>2, <1>4, <1>6, <1>8, <1>9, <1>12 DEF Full, Larger
    <2>2. \A k \in 1 .. i_size : Content'[k] = Content[k]
      BY <1>2, <1>10, <2>1
    <2>3. Content' = Content
      BY <1>4, <2>1, <2>2, SameContent
    <2>4. Abstract!Returns(Abstract!Done(0))
      BY <1>4, <2>1, SameReturns
    <2> QED BY <1>2, <1>3, <1>4, <1>11, <2>3, <2>4 DEF Abstract!Write
  <1>13. CASE ~w.stop
    <2> DEFINE end == off + n
               s1 == SubSeq(Content, 1, off)
               s3 == SubSeq(Content, end + 1, i_size)
               whole == s1 \o bs \o s3
    <2>1. w.done = n /\ w.size = Larger(i_size, end)
      BY <1>8, <1>9, <1>13
    <2>2. s1 \in Seq(Byte) /\ Len(s1) = off /\ \A k \in 1 .. off : s1[k] = Content[k]
      <3>1. \A k \in 1 .. off : Content[k] \in Byte
        BY <1>2, <1>4, <1>11
      <3>2. 1 \in Int /\ off \in Int
        BY <1>2
      <3>3. /\ s1 \in Seq(Byte) /\ Len(s1) = (IF 1 <= off THEN off - 1 + 1 ELSE 0)
            /\ \A k \in 1 .. off - 1 + 1 : s1[k] = Content[1 + k - 1]
        BY <3>1, <3>2, SubSeqProperties
      <3> HIDE DEF s1
      <3> QED BY <1>2, <3>3
    <2>3. /\ s3 \in Seq(Byte) /\ Len(s3) = (IF end <= i_size THEN i_size - end ELSE 0)
          /\ \A k \in 1 .. i_size - end : s3[k] = Content[end + k]
      <3>1. \A k \in end + 1 .. i_size : Content[k] \in Byte
        BY <1>2, <1>4, <1>11
      <3>2. end + 1 \in Int /\ i_size \in Int
        BY <1>2
      <3>3. /\ s3 \in Seq(Byte)
            /\ Len(s3) = (IF end + 1 <= i_size THEN i_size - (end + 1) + 1 ELSE 0)
            /\ \A k \in 1 .. i_size - (end + 1) + 1 : s3[k] = Content[(end + 1) + k - 1]
        BY <3>1, <3>2, SubSeqProperties
      <3>4. end \in Nat
        BY <1>2
      <3> HIDE DEF s3, end
      <3>5. i_size - (end + 1) + 1 = i_size - end
        BY <1>2, <3>4
      <3>6. \A k \in 1 .. i_size - end : (end + 1) + k - 1 = end + k
        BY <1>2, <3>4
      <3> QED BY <1>2, <3>3, <3>4, <3>5, <3>6
    <2>4. end \in Nat /\ end = off + n
      BY <1>2
    <2> HIDE DEF s1, s3, end
    <2>5. /\ s1 \o bs \in Seq(Byte) /\ Len(s1 \o bs) = end
          /\ \A k \in 1 .. end : (s1 \o bs)[k] = IF k <= off THEN s1[k] ELSE bs[k - off]
      BY <1>2, <1>3, <2>2, <2>4, ConcatProperties
    <2>6. /\ whole \in Seq(Byte) /\ Len(whole) = end + Len(s3)
          /\ \A k \in 1 .. end + Len(s3) :
               whole[k] = IF k <= end THEN (s1 \o bs)[k] ELSE s3[k - end]
      <3> DEFINE t == s1 \o bs
      <3>1. t \in Seq(Byte) /\ Len(t) = end
        BY <2>5
      <3>2. whole = t \o s3
        BY DEF whole
      <3> HIDE DEF t, whole
      <3>3. /\ t \o s3 \in Seq(Byte) /\ Len(t \o s3) = Len(t) + Len(s3)
            /\ \A k \in 1 .. Len(t) + Len(s3) :
                 (t \o s3)[k] = IF k <= Len(t) THEN t[k] ELSE s3[k - Len(t)]
        BY <2>3, <3>1, ConcatProperties
      <3>4. /\ whole \in Seq(Byte) /\ Len(whole) = end + Len(s3)
            /\ \A k \in 1 .. end + Len(s3) : whole[k] = IF k <= end THEN t[k] ELSE s3[k - end]
        BY <3>1, <3>2, <3>3
      <3> QED BY <3>4 DEF t
    <2> HIDE DEF whole
    <2>7. end + Len(s3) = w.size
      BY <1>2, <2>1, <2>3, <2>4 DEF Larger
    <2>8. \A k \in 1 .. w.size : Content'[k] = whole[k]
      <3> SUFFICES ASSUME NEW k \in 1 .. w.size PROVE Content'[k] = whole[k]
        OBVIOUS
      <3>1. Content'[k] = IF off < k /\ k <= end THEN bs[k - off] ELSE Content[k]
        BY <1>10, <2>1, <2>4
      <3>2. whole[k] = IF k <= end THEN (s1 \o bs)[k] ELSE s3[k - end]
        BY <2>6, <2>7
      <3>3. k \in Nat /\ 1 <= k /\ k <= w.size
        BY <1>9
      <3>4. CASE k <= off
        <4>1. k <= end /\ k \in 1 .. off /\ k \in 1 .. end
          BY <1>2, <2>4, <3>3, <3>4
        <4>2. ~(off < k)
          BY <1>2, <3>3, <3>4
        <4> QED BY <2>2, <2>5, <3>1, <3>2, <3>4, <4>1, <4>2
      <3>5. CASE off < k /\ k <= end
        <4>1. k \in 1 .. end /\ ~(k <= off)
          BY <1>2, <2>4, <3>3, <3>5
        <4> QED BY <2>5, <3>1, <3>2, <3>5, <4>1
      <3>6. CASE end < k
        <4>1. ~(k <= end) /\ k - end \in 1 .. i_size - end /\ end + (k - end) = k
          BY <1>2, <2>1, <2>4, <3>3, <3>6 DEF Larger
        <4> QED BY <2>3, <3>1, <3>2, <4>1
      <3> QED BY <1>2, <2>4, <3>3, <3>4, <3>5, <3>6
    <2>9. Content' = whole
      BY <1>11, <2>6, <2>7, <2>8, SeqEqual
    <2>10. Abstract!Overlay(off, bs) = whole
      BY <1>3, <1>11 DEF Abstract!Overlay, whole, s1, s3, end
    <2>11. w.done = n /\ Abstract!Returns(Abstract!Done(n))
      BY <1>4, <1>8, <1>13, SameReturns
    <2> QED BY <1>3, <1>4, <1>11, <2>9, <2>10, <2>11 DEF Abstract!Write
  <1> QED BY <1>12, <1>13

(* A file that grows gets zeroes, as many as the disk had room for.          *)
LEMMA ExtendRefines ==
  ASSUME Good, Good', ~Across, NEW n \in 0 .. MaxSize, Extend(n)
  PROVE  Abstract!Lengthen(n)
  <1> DEFINE len == n - i_size
             bs == Zeroes(len)
             w == Loop(i_size, bs)
  <1>1. Typed /\ Typed'
    BY ContentType, PTL
  <1>2. MaxSize \in Nat /\ n \in Nat /\ n <= MaxSize /\ i_size \in Nat /\ i_size <= MaxSize
    BY <1>1 DEF Typed
  <1>3. /\ i_size < n /\ (~Crosses(i_size, len) \/ len > B)
        /\ Keep(w) /\ i_size' = i_size + w.done /\ Returns(Done(IF w.stop THEN -1 ELSE 0))
    BY DEF Extend
  <1>4. len \in Nat \ {0} /\ i_size + len = n
    BY <1>2, <1>3
  <1>5. bs \in Seq(Byte) /\ Len(bs) = len /\ \A k \in 1 .. len : bs[k] = 0
    BY <1>4, ByteAssumption DEF Zeroes
  <1> HIDE DEF bs, len
  <1>6. Legal(i_size, bs)
    BY <1>2, <1>4, <1>5 DEF Legal
  <1>7. Straight(i_size, Len(bs)) /\ Alike(i_size, bs)
    <2>1. \A j, k \in 1 .. Len(bs) : bs[j] = bs[k]
      BY <1>5
    <2>2. ~Crosses(i_size, len) => i_size \div B = LastBlock(i_size, len)
      BY <1>2, <1>4, WithinABlock
    <2> QED BY <1>3, <1>5, <2>1, <2>2 DEF Straight, Alike
  <1>8. /\ Base(w, i_size, len) /\ Wrote(w, i_size, bs) /\ Full(w, i_size, len)
        /\ ~w.dead /\ (~w.stop => w.done = len)
    BY <1>5, <1>6, <1>7, LoopWrites
  <1> HIDE DEF w
  <1>9. /\ w.size = Larger(i_size, i_size + w.done) /\ w.done \in 0 .. len
        /\ w.size \in 0 .. MaxSize
    BY <1>8 DEF Base
  <1> DEFINE m == i_size + w.done
  <1>10. w.size = m /\ i_size' = w.size /\ w.done \in Nat /\ m \in i_size .. n /\ w.size \in Nat
    BY <1>2, <1>3, <1>4, <1>9 DEF Larger
  <1>11. \A k \in 1 .. w.size :
           Content'[k] = IF i_size < k /\ k <= i_size + w.done THEN bs[k - i_size] ELSE Content[k]
    BY <1>2, <1>3, <1>8, <1>10, LoopContent
  <1>12. Len(Content) = i_size /\ Content \in Seq(Byte) /\ Content' \in Seq(Byte)
         /\ Len(Content') = m
    BY <1>1, <1>10 DEF Typed
  <1> DEFINE zs == Abstract!Zeroes(m - i_size)
  <1>13. zs \in Seq(Byte) /\ Len(zs) = w.done /\ \A k \in 1 .. w.done : zs[k] = 0
    <2>1. m - i_size = w.done
      BY <1>2, <1>10
    <2>2. zs = [k \in 1 .. w.done |-> 0]
      BY <2>1 DEF Abstract!Zeroes
    <2> HIDE DEF zs
    <2> QED BY <1>10, <2>2, ByteAssumption
  <1> HIDE DEF zs
  <1>14. /\ Content \o zs \in Seq(Byte) /\ Len(Content \o zs) = i_size + w.done
         /\ \A k \in 1 .. i_size + w.done :
              (Content \o zs)[k] = IF k <= i_size THEN Content[k] ELSE zs[k - i_size]
    <2> DEFINE c == Content
    <2>1. c \in Seq(Byte) /\ Len(c) = i_size
      BY <1>12
    <2> HIDE DEF c
    <2>2. /\ c \o zs \in Seq(Byte) /\ Len(c \o zs) = Len(c) + Len(zs)
          /\ \A k \in 1 .. Len(c) + Len(zs) :
               (c \o zs)[k] = IF k <= Len(c) THEN c[k] ELSE zs[k - Len(c)]
      BY <1>13, <2>1, ConcatProperties
    <2>3. /\ c \o zs \in Seq(Byte) /\ Len(c \o zs) = i_size + w.done
          /\ \A k \in 1 .. i_size + w.done :
               (c \o zs)[k] = IF k <= i_size THEN c[k] ELSE zs[k - i_size]
      BY <1>13, <2>1, <2>2
    <2> QED BY <2>3 DEF c
  <1>15. \A k \in 1 .. m : Content'[k] = (Content \o zs)[k]
    <2> SUFFICES ASSUME NEW k \in 1 .. m PROVE Content'[k] = (Content \o zs)[k]
      OBVIOUS
    <2>1. k \in Nat /\ 1 <= k /\ k <= i_size + w.done
      BY <1>2, <1>10
    <2>2. /\ Content'[k] = IF i_size < k /\ k <= i_size + w.done THEN bs[k - i_size] ELSE Content[k]
          /\ (Content \o zs)[k] = IF k <= i_size THEN Content[k] ELSE zs[k - i_size]
      BY <1>10, <1>11, <1>14
    <2>3. CASE k <= i_size
      BY <1>2, <2>1, <2>2, <2>3
    <2>4. CASE i_size < k
      <3>1. k - i_size \in 1 .. w.done /\ k - i_size \in 1 .. len /\ ~(k <= i_size)
        BY <1>2, <1>4, <1>9, <1>10, <2>1, <2>4
      <3> QED BY <1>5, <1>13, <2>1, <2>2, <2>4, <3>1
    <2>5. k <= i_size \/ i_size < k
      BY <1>2, <2>1
    <2> QED BY <2>3, <2>4, <2>5
  <1>16. Content' = Content \o zs
    BY <1>12, <1>14, <1>15, SeqEqual
  <1>17. w.stop <=> m # n
    BY <1>2, <1>4, <1>8, <1>9, <1>10 DEF Full
  <1>18. Abstract!Returns(Abstract!Done(IF m = n THEN 0 ELSE -1))
    <2>1. (IF m = n THEN 0 ELSE -1) = IF w.stop THEN -1 ELSE 0
      BY <1>17
    <2> QED BY <1>3, <2>1, SameReturns
  <1> HIDE DEF m
  <1>19. \E x \in Len(Content) .. n :
           /\ Content' = Content \o Abstract!Zeroes(x - Len(Content))
           /\ Abstract!Returns(Abstract!Done(IF x = n THEN 0 ELSE -1))
    BY <1>10, <1>12, <1>16, <1>18 DEF zs
  <1> QED BY <1>2, <1>3, <1>12, <1>19 DEF Abstract!Lengthen

(* A read returns the bytes of the file.                                     *)
LEMMA ReadRefines ==
  ASSUME Good, Good', NEW off \in 0 .. MaxSize, NEW n \in 1 .. MaxSize, Read(off, n)
  PROVE  Abstract!Read(off, n)
  <1>1. Typed /\ Typed'
    BY ContentType, PTL
  <1>2. MaxSize \in Nat /\ off \in Nat /\ n \in Nat /\ i_size \in Nat
    BY <1>1 DEF Typed
  <1>3. PICK junk \in Blk : Returns(Reply(Len(Gather(off, n, junk)), Gather(off, n, junk)))
    BY DEF Read
  <1>4. /\ off <= i_size
        /\ i_size' = i_size /\ i_block' = i_block /\ data' = data
    BY DEF Read
  <1>5. Content' = Content
    BY <1>4 DEF Content
  <1> DEFINE bs == Gather(off, n, junk)
             end == Abstract!Least(off + n, i_size)
             ss == SubSeq(Content, off + 1, end)
  <1>6. /\ bs \in Seq(Byte) /\ Len(bs) = ToRead(off, n)
        /\ \A k \in 1 .. ToRead(off, n) : bs[k] = Content[off + k]
    BY <1>2, <1>4, GatherReads
  <1>7. end \in Nat /\ off <= end /\ end <= i_size /\ ToRead(off, n) = end - off
    BY <1>2, <1>4 DEF Abstract!Least, ToRead, Smaller
  <1>8. Len(Content) = i_size /\ Content \in Seq(Byte)
    BY <1>1 DEF Typed
  <1> HIDE DEF bs, end
  <1>9. /\ ss \in Seq(Byte) /\ Len(ss) = end - off
        /\ \A k \in 1 .. end - off : ss[k] = Content[off + k]
    <2>1. \A k \in off + 1 .. end : Content[k] \in Byte
      BY <1>2, <1>7, <1>8
    <2>2. off + 1 \in Int /\ end \in Int
      BY <1>2, <1>7
    <2>3. /\ ss \in Seq(Byte)
          /\ Len(ss) = (IF off + 1 <= end THEN end - (off + 1) + 1 ELSE 0)
          /\ \A k \in 1 .. end - (off + 1) + 1 : ss[k] = Content[(off + 1) + k - 1]
      BY <2>1, <2>2, SubSeqProperties
    <2> HIDE DEF ss
    <2>4. end - (off + 1) + 1 = end - off
      BY <1>2, <1>7
    <2>5. \A k \in 1 .. end - off : (off + 1) + k - 1 = off + k
      BY <1>2, <1>7
    <2> QED BY <1>2, <1>7, <2>3, <2>4, <2>5
  <1> HIDE DEF ss
  <1>10. bs = ss
    <2>1. Len(bs) = Len(ss) /\ \A k \in 1 .. Len(bs) : bs[k] = ss[k]
      BY <1>6, <1>7, <1>9
    <2> QED BY <1>6, <1>9, <2>1, SeqEqual
  <1>11. Abstract!Returns(Abstract!Reply(Len(ss), ss))
    <2>1. Returns(Reply(Len(ss), ss))
      BY <1>3, <1>10 DEF bs
    <2> QED BY <2>1, SameReturns
  <1> QED BY <1>4, <1>5, <1>8, <1>11 DEF Abstract!Read, ss, end

(* A file that shrinks keeps the bytes before its end.                       *)
LEMMA ShrinkRefines ==
  ASSUME Good, Good', NEW n \in 0 .. MaxSize, Shrink(n)
  PROVE  Abstract!Cut(n)
  <1>1. Typed /\ Typed'
    BY ContentType, PTL
  <1>2. MaxSize \in Nat /\ n \in Nat /\ i_size \in Nat
    BY <1>1 DEF Typed
  <1>3. /\ n < i_size /\ i_size' = n /\ i_block' = i_block /\ data' = data /\ Returns(Done(0))
    BY DEF Shrink
  <1>4. /\ Len(Content) = i_size /\ Content \in Seq(Byte)
        /\ Len(Content') = n /\ Content' \in Seq(Byte)
    BY <1>1, <1>3 DEF Typed
  <1>5. \A k \in 1 .. n : Content'[k] = Content[k]
    BY <1>2, <1>3 DEF Content
  <1> DEFINE ss == SubSeq(Content, 1, n)
  <1>6. ss \in Seq(Byte) /\ Len(ss) = n /\ \A k \in 1 .. n : ss[k] = Content[k]
    <2>1. \A k \in 1 .. n : Content[k] \in Byte
      BY <1>2, <1>3, <1>4
    <2>2. 1 \in Int /\ n \in Int
      BY <1>2
    <2>3. /\ ss \in Seq(Byte) /\ Len(ss) = (IF 1 <= n THEN n - 1 + 1 ELSE 0)
          /\ \A k \in 1 .. n - 1 + 1 : ss[k] = Content[1 + k - 1]
      BY <2>1, <2>2, SubSeqProperties
    <2> HIDE DEF ss
    <2> QED BY <1>2, <2>3
  <1> HIDE DEF ss
  <1>7. Content' = ss
    <2>1. Len(Content') = Len(ss) /\ \A k \in 1 .. Len(Content') : Content'[k] = ss[k]
      BY <1>4, <1>5, <1>6
    <2> QED BY <1>4, <1>6, <2>1, SeqEqual
  <1>8. n <= Len(Content)
    BY <1>2, <1>3, <1>4
  <1> QED BY <1>3, <1>7, <1>8, SameReturns DEF Abstract!Cut, ss

(* A file of no bytes is the empty sequence.                                 *)
LEMMA EmptyFile ==
  ASSUME i_size = 0
  PROVE  Content = << >>
  <1>1. 1 .. i_size = {}
    OBVIOUS
  <1> QED BY <1>1 DEF Content

(* Every step is one of the file of bytes, or leaves it alone.               *)
LEMMA NextRefines ==
  ASSUME ~Across, Good, Good', [Next]_vars
  PROVE  [Abstract!Next]_(Abstract!file)
  <1>1. MaxSize \in Nat
    BY Arith
  <1>2. CASE \E off \in 0 .. MaxSize, n \in 1 .. MaxSize : Read(off, n)
    BY <1>2, ReadRefines DEF Abstract!Next
  <1>3. CASE \E off \in 0 .. MaxSize, n \in 1 .. MaxSize : WriteTooBig(off, n)
    <2>1. PICK off \in 0 .. MaxSize, n \in 1 .. MaxSize : WriteTooBig(off, n)
      BY <1>3
    <2>2. Content' = Content
      BY <2>1 DEF WriteTooBig, Content
    <2>3. Abstract!WriteTooBig(off, n)
      BY <2>1, <2>2 DEF WriteTooBig, Abstract!WriteTooBig, Done, Reply, Abstract!Done, Abstract!Reply
    <2> QED BY <2>3 DEF Abstract!Next
  <1>4. CASE \E off \in 0 .. MaxSize, n \in 1 .. MaxSize : \E bs \in Bytes(n) : Write(off, bs)
    <2>1. PICK off \in 0 .. MaxSize, n \in 1 .. MaxSize : \E bs \in Bytes(n) : Write(off, bs)
      BY <1>4
    <2>2. PICK bs \in Bytes(n) : Write(off, bs)
      BY <2>1
    <2>3. Abstract!Write(off, bs) /\ bs \in Abstract!Bytes(n)
      BY <2>2, WriteRefines DEF Bytes, Abstract!Bytes
    <2> QED BY <2>3 DEF Abstract!Next
  <1>5. CASE \E n \in 0 .. MaxSize : Shrink(n)
    BY <1>5, ShrinkRefines DEF Abstract!Next
  <1>6. CASE \E n \in 0 .. MaxSize : Extend(n)
    BY <1>6, ExtendRefines DEF Abstract!Next
  <1>7. CASE Recreate
    <2>1. Content' = << >>
      <3>1. 1 .. i_size' = {}
        BY <1>7 DEF Recreate
      <3> QED BY <3>1 DEF Content
    <2>2. Abstract!Recreate
      BY <1>7, <2>1, SameReturns DEF Recreate, Abstract!Recreate
    <2> QED BY <2>2 DEF Abstract!Next
  <1>8. CASE OtherTakes \/ (\E b \in Blk : OtherFrees(b)) \/ UNCHANGED vars
    <2>1. i_size' = i_size /\ i_block' = i_block /\ data' = data /\ reply' = reply
      BY <1>8 DEF OtherTakes, OtherFrees, vars
    <2>2. Content' = Content
      BY <2>1 DEF Content
    <2> QED BY <2>1, <2>2 DEF Abstract!file
  <1> QED BY <1>2, <1>3, <1>4, <1>5, <1>6, <1>7, <1>8 DEF Next

(* If programs write within a block, the table of blocks, the bitmap and the *)
(* blocks with what their last owners left in them are a file of bytes: the  *)
(* answer of write, read and truncate is the right one, or is lost because   *)
(* the monitor's queue was missing or refused a report, and then the file is *)
(* what the call should have made of it all the same.                        *)
THEOREM FileOfBytes ==
  ASSUME ~Across
  PROVE  Spec => ImplementsByteFile
  <1>1. Init => Good /\ Abstract!Init
    <2>1. ASSUME Init PROVE Abstract!Init
      <3>1. i_size = 0 /\ reply = Done(0)
        BY <2>1 DEF Init
      <3> QED BY <3>1, EmptyFile DEF Abstract!Init, Done, Reply, Abstract!Done, Abstract!Reply
    <2> QED BY <2>1, InitRight
  <1>2. Good /\ [Next]_vars => Good'
    BY NextRight
  <1>3. Good /\ Good' /\ [Next]_vars => [Abstract!Next]_(Abstract!file)
    BY NextRefines
  <1> QED BY <1>1, <1>2, <1>3, PTL DEF Spec, ImplementsByteFile, Abstract!Spec
===============================================================================

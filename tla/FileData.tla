------------------------------- MODULE FileData -------------------------------
(***************************************************************************)
(* The bytes of one file of FSinside (net/op_write.c, op_read.c,           *)
(* op_truncate.c): an inode with its size, the number of its blocks and    *)
(* its table of block numbers, over blocks that the allocator hands out    *)
(* first fit and that keep the bytes of their last owner.                  *)
(*                                                                         *)
(* The cache is left out: it is a store of blocks (BufCache refines        *)
(* BlockStore).  The calls a program makes are limited, as some of them do *)
(* not work: programs write up to the end of the file, never beyond it (a  *)
(* hole makes i_nblk count a block in the wrong place), and read up to it  *)
(* (beyond, a negative number compared with a size_t yields bytes that are *)
(* not in the file).  What they do at the ends of blocks is a constant.    *)
(* The handlers report what they did to the monitor before they return,    *)
(* and whether the monitor's queue takes that is left open for each call.  *)
(***************************************************************************)
EXTENDS Sequences, Integers

CONSTANTS BLOCK_SIZE,            \* bytes of a block
          TINY_N_DIRECT_BLOCKS,  \* entries of i_block
          Blk,                   \* the data blocks, numbered
          Byte,                  \* the values of a byte, 0 among them
          Across    \* TRUE if programs write across the end of a block

B == BLOCK_SIZE
N == TINY_N_DIRECT_BLOCKS
MaxSize == B * N
Junk == -1   \* what a number in i_block is that was never assigned

ASSUME SizeAssumption == B \in Nat \ {0} /\ N \in Nat \ {0}
ASSUME BlkAssumption  == Blk \subseteq Nat
ASSUME ByteAssumption == 0 \in Byte /\ Byte \subseteq Nat
ASSUME AcrossAssumption == Across \in BOOLEAN

VARIABLES i_size, i_nblk, i_block,  \* the inode
          free,    \* the bits of the block bitmap that are set
          others,  \* the blocks of other files
          data,    \* data[b]: the bytes of block b, on disk or in the cache
          reply,   \* the reply to the last call
          asked,   \* the bytes the last call was to write, and where, if answered
          dead     \* TRUE if the process was killed by a copy of length < 0

vars == <<i_size, i_nblk, i_block, free, others, data, reply, asked, dead>>

Index == 0 .. N - 1
Reply(n, bs) == [n |-> n, bytes |-> bs, lost |-> FALSE]
Done(n)      == Reply(n, << >>)
Nothing      == [off |-> 0, bytes |-> << >>]

(* If the queue is missing or refuses a report, the handler ends with a    *)
(* return that has no value: the work is done, and what the caller gets as *)
(* its number is whatever was left in a register.                          *)
Lost       == [n |-> 0, bytes |-> << >>, lost |-> TRUE]
Returns(r) == reply' \in {r, Lost}

TypeOK ==
  /\ i_size \in 0 .. MaxSize /\ i_nblk \in 0 .. N
  /\ i_block \in [Index -> Blk \cup {Junk}]
  /\ free \subseteq Blk /\ others \subseteq Blk
  /\ data \in [Blk -> [0 .. B - 1 -> Byte]]
  /\ reply.n \in -1 .. MaxSize /\ reply.bytes \in Seq(Byte)
  /\ asked.off \in 0 .. MaxSize /\ asked.bytes \in Seq(Byte)
  /\ dead \in BOOLEAN

(* An empty file on a disk of zeroes.                                      *)
Init ==
  /\ i_size = 0 /\ i_nblk = 0 /\ i_block = [i \in Index |-> Junk]
  /\ free = Blk /\ others = {}
  /\ data = [b \in Blk |-> [k \in 0 .. B - 1 |-> 0]]
  /\ reply = Done(0) /\ asked = Nothing /\ dead = FALSE

Smaller(m, n) == IF m < n THEN m ELSE n
Larger(m, n)  == IF m > n THEN m ELSE n
FirstFree(f)  == CHOOSE b \in f : \A c \in f : b <= c

-----------------------------------------------------------------------------
(* The loops of tiny_write and of tiny_truncate are one loop: it goes over *)
(* the blocks of len bytes from offset off, gives the file a block where   *)
(* it has none, and copies bytes to it or clears them.  w holds the        *)
(* variables of the loop.                                                  *)
LastBlock(off, len) == IF (off + len) % B = 0 THEN (off + len) \div B - 1
                                              ELSE (off + len) \div B
OffsetEnd(off, len) == IF (off + len) % B = 0 THEN B ELSE (off + len) % B

(* GetFreeBlock and SetBlockFreeToAlloc.                                   *)
GiveBlock(w, i) ==
  IF i < w.nblk THEN w
  ELSE IF w.free = {} THEN [w EXCEPT !.block[i] = Junk, !.stop = TRUE]
  ELSE [w EXCEPT !.block[i] = FirstFree(w.free),
                 !.free = w.free \ {FirstFree(w.free)},
                 !.nblk = @ + 1]

(* The bytes copied to a block are always those at the start of the        *)
(* buffer, which is never advanced.                                        *)
Copy(w, b, start, end, bs) ==
  [w.data EXCEPT ![b] = [k \in 0 .. B - 1 |->
     IF start <= k /\ k < end THEN bs[k - start + 1] ELSE @[k]]]

(* One turn of the loop, for the block with index i.                       *)
Turn(w, i, off, bs) ==
  IF w.stop \/ w.dead THEN w
  ELSE LET end == IF w.left > B THEN B ELSE OffsetEnd(off, Len(bs))
           v   == GiveBlock(w, i)
           n   == end - w.start
       IN  IF v.stop THEN v
           ELSE IF n < 0 \/ v.block[i] = Junk THEN [v EXCEPT !.dead = TRUE]
           ELSE [v EXCEPT !.data  = Copy(w, v.block[i], w.start, end, bs),
                          !.done  = @ + n,
                          !.size  = Larger(@, off + w.done + n),
                          !.left  = @ - n,
                          !.start = 0]

(* Before the first turn.                                                  *)
Entry(off, len) ==
  [left |-> len, start |-> off % B, done |-> 0,
   size |-> i_size, nblk |-> i_nblk, block |-> i_block, free |-> free, data |-> data,
   stop |-> FALSE, dead |-> FALSE]

(* w[i] is what the turn for the block with index i begins with.           *)
Loop(off, bs) ==
  LET end == LastBlock(off, Len(bs)) + 1
      w[i \in off \div B .. end] == IF i = off \div B THEN Entry(off, Len(bs))
                                                     ELSE Turn(w[i - 1], i - 1, off, bs)
  IN  w[end]

(* What the loop leaves behind, and the inode is written.                  *)
Keep(w) ==
  /\ i_nblk' = w.nblk /\ i_block' = w.block
  /\ free' = w.free /\ data' = w.data /\ dead' = w.dead
  /\ UNCHANGED others

Crosses(off, len) == off \div B # (off + len - 1) \div B

Write(off, bs) ==
  /\ ~dead
  /\ off + Len(bs) <= MaxSize
  /\ off <= i_size
  /\ Across \/ ~Crosses(off, Len(bs))
  /\ LET w == Loop(off, bs)
     IN  /\ Keep(w)
         /\ i_size' = w.size
         /\ Returns(Done(w.done))
  /\ asked' = IF reply'.lost THEN Nothing ELSE [off |-> off, bytes |-> bs]

(* A file too large is refused, before anything is reported.               *)
WriteTooBig(off, n) ==
  /\ ~dead
  /\ off + n > MaxSize
  /\ reply' = Done(-1) /\ asked' = Nothing
  /\ UNCHANGED <<i_size, i_nblk, i_block, free, others, data, dead>>

-----------------------------------------------------------------------------
(* The file ends, or the call is content, with so many bytes.  (Beyond the *)
(* end, where the comparison with a size_t goes wrong, nothing is read.)   *)
ToRead(off, n) == Smaller(n, i_size - off)

(* How much of the block with index i is taken, when left bytes are to be  *)
(* read: the rest of the first block, the middle ones whole, the last one  *)
(* up to the end.                                                          *)
Share(off, n, i, left) ==
  Smaller(left, IF i = off \div B THEN B - (off % B)
                ELSE IF i < (off + n) \div B THEN B
                ELSE (off + n) % B)

(* Faulty: every block is read from its start.                             *)
BytesFromStart(i, from, n, junk) ==
  LET b == IF i \in Index /\ i_block[i] \in Blk THEN i_block[i] ELSE junk
  IN  [k \in 1 .. n |-> data[b][k - 1]]

(* n bytes of the block with index i, from offset from in it.  A block     *)
(* number that was never assigned is that of some block, junk.             *)
BytesOf(i, from, n, junk) ==
  LET b == IF i \in Index /\ i_block[i] \in Blk THEN i_block[i] ELSE junk
  IN  [k \in 1 .. n |-> data[b][from + k - 1]]

(* One turn of the loop of tiny_read.                                      *)
Fetch(r, i, off, n, junk) ==
  LET share == Share(off, n, i, r.left)
  IN  [left  |-> r.left - share,
       bytes |-> r.bytes \o BytesOf(i, IF i = off \div B THEN off % B ELSE 0, share, junk)]

Gather(off, n, junk) ==
  LET end == (off + n) \div B + 1
      r[i \in off \div B .. end] == IF i = off \div B THEN [left |-> ToRead(off, n), bytes |-> << >>]
                                                     ELSE Fetch(r[i - 1], i - 1, off, n, junk)
  IN  r[end].bytes

Read(off, n) ==
  /\ ~dead
  /\ off <= i_size
  /\ \E junk \in Blk : LET bs == Gather(off, n, junk) IN Returns(Reply(Len(bs), bs))
  /\ asked' = Nothing
  /\ UNCHANGED <<i_size, i_nblk, i_block, free, others, data, dead>>

-----------------------------------------------------------------------------
(* Faulty: a shorter file keeps all its blocks.                            *)
ShrinkKeep(n) ==
  /\ ~dead
  /\ n < i_size
  /\ i_size' = n
  /\ Returns(Done(0)) /\ asked' = Nothing
  /\ UNCHANGED <<i_nblk, i_block, free, others, data, dead>>

(* A shorter file keeps the block behind its last one.                     *)
Shrink(n) ==
  /\ ~dead
  /\ n < i_size
  /\ LET after == IF n % B = 0 THEN n \div B ELSE n \div B + 1
     IN  /\ free' = free \cup {i_block[i] : i \in after + 1 .. i_nblk - 1}
         /\ i_nblk' = Smaller(i_nblk, after + 1)
  /\ i_size' = n
  /\ Returns(Done(0)) /\ asked' = Nothing
  /\ UNCHANGED <<i_block, others, data, dead>>

Zeroes(n) == [k \in 1 .. n |-> 0]

Extend(n) ==
  /\ ~dead
  /\ i_size < n /\ n <= MaxSize
  /\ Across \/ ~Crosses(i_size, n - i_size) \/ n - i_size > B
  /\ LET w == Loop(i_size, Zeroes(n - i_size))
     IN  /\ Keep(w)
         /\ i_size' = i_size + w.done
         /\ Returns(Done(IF w.stop THEN -1 ELSE 0))
  /\ asked' = Nothing

(* unlink, and create under the same name: the inode of the new file is    *)
(* written with whatever i_block holds.  (What becomes of the handle of a  *)
(* create that loses its value is in TinyFS.)                              *)
Recreate ==
  /\ ~dead
  /\ free' = free \cup {i_block[i] : i \in 0 .. i_nblk - 1}
  /\ i_size' = 0 /\ i_nblk' = 0 /\ i_block' = [i \in Index |-> Junk]
  /\ Returns(Done(0)) /\ asked' = Nothing
  /\ UNCHANGED <<others, data, dead>>

(* Other files take blocks and give them back.                             *)
OtherTakes ==
  /\ ~dead /\ free # {}
  /\ free' = free \ {FirstFree(free)} /\ others' = others \cup {FirstFree(free)}
  /\ UNCHANGED <<i_size, i_nblk, i_block, data, reply, asked, dead>>

OtherFrees(b) ==
  /\ ~dead /\ b \in others
  /\ free' = free \cup {b} /\ others' = others \ {b}
  /\ UNCHANGED <<i_size, i_nblk, i_block, data, reply, asked, dead>>

Bytes(n) == [1 .. n -> Byte]

Next ==
  \/ \E off \in 0 .. MaxSize, n \in 1 .. MaxSize :
       Read(off, n) \/ WriteTooBig(off, n) \/ \E bs \in Bytes(n) : Write(off, bs)
  \/ \E n \in 0 .. MaxSize : Shrink(n) \/ Extend(n)
  \/ Recreate \/ OtherTakes \/ \E b \in Blk : OtherFrees(b)

Spec == Init /\ [][Next]_vars

-----------------------------------------------------------------------------
(* The blocks of the file are its own, and no block is lost: those that    *)
(* are neither free nor in another file are the first i_nblk of i_block,   *)
(* each of them once.                                                      *)
BlocksOwned ==
  LET own == {i_block[i] : i \in 0 .. i_nblk - 1}
  IN  /\ free \cup others \cup own = Blk
      /\ own \cap (free \cup others) = {} /\ free \cap others = {}
      /\ \A i, j \in 0 .. i_nblk - 1 : i_block[i] = i_block[j] => i = j

(* The file has the blocks its size needs, and at most one more, which a   *)
(* truncation leaves it.                                                   *)
BlocksFitSize ==
  LET needed == (i_size + B - 1) \div B
  IN  needed <= i_nblk /\ i_nblk <= needed + 1

(* All of it: no block is lost, shared, or held for nothing.               *)
BlocksRight == TypeOK /\ BlocksOwned /\ BlocksFitSize

(* The file as a sequence of bytes.                                        *)
Content == [k \in 1 .. i_size |-> data[i_block[(k - 1) \div B]][(k - 1) % B]]

(* Programs that write within a block and do not read from beyond the end  *)
(* see a file of bytes, whatever was in its blocks before, however often   *)
(* it is cut and lengthened, and when the disk is full; and a call whose   *)
(* answer is lost is done like any other.                                  *)
Abstract == INSTANCE ByteFile WITH content <- Content
ImplementsByteFile == Abstract!Spec

(* "Write should return exactly the number of bytes requested except on    *)
(* error": a write that did not run out of blocks is a full one, and the   *)
(* bytes are there.  (An answer that is lost is another matter.)           *)
WroteWhatWasAsked ==
  ~reply.lost /\ reply.n >= 0 /\ asked.bytes # << >> /\ free # {} =>
    /\ ~dead /\ reply.n = Len(asked.bytes)
    /\ SubSeq(Content, asked.off + 1, asked.off + reply.n) = asked.bytes
===============================================================================

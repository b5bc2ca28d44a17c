------------------------------- MODULE ByteFile -------------------------------
(* What a file promises to the program that uses it: a sequence of bytes.    *)
(* A write is done in full or not at all; a truncation cuts the file, or     *)
(* lengthens it with zeroes, and may stop half-way if the disk is full; a    *)
(* read returns what there is.  An answer is the right one or is lost, and   *)
(* the file tells nothing of that: a call is done either way.                *)
EXTENDS Integers, Sequences

CONSTANTS Byte,     \* the values of a byte, 0 among them
          MaxSize   \* the longest file

VARIABLES content,  \* the bytes of the file
          reply     \* the answer to the last call: a number, bytes read, if lost

file == <<content, reply>>

Reply(n, bs) == [n |-> n, bytes |-> bs, lost |-> FALSE]
Done(n)      == Reply(n, << >>)

Lost       == [n |-> 0, bytes |-> << >>, lost |-> TRUE]
Returns(r) == reply' \in {r, Lost}

Zeroes(n) == [i \in 1 .. n |-> 0]
Least(m, n) == IF m < n THEN m ELSE n

Init == content = << >> /\ reply = Done(0)

(* The bytes bs take the place of those at offset off and behind.            *)
Overlay(off, bs) ==
  LET end == off + Len(bs)
  IN  SubSeq(content, 1, off) \o bs \o SubSeq(content, end + 1, Len(content))

Write(off, bs) ==
  /\ off <= Len(content) /\ off + Len(bs) <= MaxSize
  /\ \/ content' = Overlay(off, bs) /\ Returns(Done(Len(bs)))
     \/ content' = content /\ Returns(Done(0))

WriteTooBig(off, n) ==
  off + n > MaxSize /\ reply' = Done(-1) /\ UNCHANGED content

Read(off, n) ==
  /\ off <= Len(content)
  /\ LET bs == SubSeq(content, off + 1, Least(off + n, Len(content)))
     IN  Returns(Reply(Len(bs), bs))
  /\ UNCHANGED content

Cut(n) ==
  /\ n <= Len(content)
  /\ content' = SubSeq(content, 1, n) /\ Returns(Done(0))

Lengthen(n) ==
  /\ Len(content) < n /\ n <= MaxSize
  /\ \E m \in Len(content) .. n :
       /\ content' = content \o Zeroes(m - Len(content))
       /\ Returns(Done(IF m = n THEN 0 ELSE -1))

(* The file is removed and made again.                                       *)
Recreate == content' = << >> /\ Returns(Done(0))

Bytes(n) == [1 .. n -> Byte]

Next ==
  \/ \E off \in 0 .. MaxSize, n \in 1 .. MaxSize :
       \/ Read(off, n) \/ WriteTooBig(off, n)
       \/ \E bs \in Bytes(n) : Write(off, bs)
  \/ \E n \in 0 .. MaxSize : Cut(n) \/ Lengthen(n)
  \/ Recreate

Spec == Init /\ [][Next]_file
===============================================================================

---------------------------- MODULE MCBlockAlloc ----------------------------
(* Instances of BlockAlloc for TLC: a bitmap with one bit more than the     *)
(* disk has blocks, and as many i_block entries as blocks and one.          *)
EXTENDS BlockAlloc, TLC

CONSTANTS h1, h2, s1, s2, s3, s4, s5

(* The code never compares the entries of the inodes.                       *)
Entries == Permutations(Slot)
=============================================================================

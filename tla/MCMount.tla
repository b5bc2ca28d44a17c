------------------------------- MODULE MCMount -------------------------------
(* Two names for two inodes beside the root: names run out, are reused, and  *)
(* an inode that a lost session named is given to another name.  Two data    *)
(* blocks and one bit too many: a file takes both, or each file takes one.   *)
EXTENDS Mount, TLC

CONSTANTS n1, n2

(* Names are only compared.                                                  *)
Names == Permutations(Name)
==============================================================================

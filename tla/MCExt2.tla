-------------------------------- MODULE MCExt2 --------------------------------
(* One name to a block, so that a directory with two has grown.               *)
EXTENDS Ext2, TLC
CONSTANTS n1, n2
Names == Permutations({n1, n2})
===============================================================================

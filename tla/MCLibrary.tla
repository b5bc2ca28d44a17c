------------------------------ MODULE MCLibrary -------------------------------
(* Three entries to a block, so that a directory in the root is full with one *)
(* name and the root with two; inodes and blocks for every call.              *)
EXTENDS Library, TLC
CONSTANTS n1, n2
Names == Permutations({n1, n2})
===============================================================================

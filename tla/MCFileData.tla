------------------------------ MODULE MCFileData ------------------------------
(* A file of at most two blocks of two bytes, on a disk of three blocks: it   *)
(* spans blocks, gives them back and gets others, and the disk fills up.      *)
EXTENDS FileData

Blocks == 0 .. 2
Bits   == {0, 1}
===============================================================================

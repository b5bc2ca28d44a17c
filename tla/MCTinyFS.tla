------------------------------- MODULE MCTinyFS -------------------------------
(* TinyFS and EarlierFS for TLC, with five kinds of programs.  Those of the   *)
(* module that is extended make directories in the root only and fill none to *)
(* its last block (or, in the run of the finding, make them anywhere); under  *)
(* the earlier version they make them anywhere, and rename where that works.  *)
(* Those of Deep make directories in directories and fill them; those of Flat *)
(* use no directories, fill the root, are given blocks that look like         *)
(* directories, and write to files whose create lost its value; those of      *)
(* Anyhow rename anything.  Three or four inodes, as many blocks, and two     *)
(* blocks to an inode: a directory that fills its first block needs its       *)
(* second one, and inodes and blocks run out.                                 *)
EXTENDS EarlierFS, TLC

CONSTANTS n1, n2,
          Kinds       \* the kinds of programs a run is about

(* A program's names are none that the handlers write themselves.            *)
ASSUME TwoNames == {n1, n2} \cap {"", ".", "..", "junk"} = {}

Names   == {n1, n2}
Swaps   == Permutations(Names)   \* which name is which
Inodes  == 0 .. 3
Blocks4 == 0 .. 3

Deep == INSTANCE TinyFS WITH Ino <- 0 .. 2, NDirent <- 3,
                             Nested <- TRUE, Crowds <- TRUE

Flat == INSTANCE TinyFS WITH Ino <- 0 .. 2, Name <- {n1, n2}, MaxDepth <- 1,
                             Crowds <- TRUE, Stale <- TRUE, Strays <- TRUE

Anyhow == INSTANCE EarlierFS WITH Ino <- 0 .. 2, Blk <- 0 .. 2, NDirent <- 3,
                                  Careless <- TRUE

VARIABLE programs

AnyInit == /\ programs \in Kinds
           /\ \/ programs = "tree" /\ Init
              \/ programs = "deep" /\ Deep!Init
              \/ programs = "flat" /\ Flat!Init
              \/ programs = "earlier" /\ Init
              \/ programs = "careless" /\ Anyhow!Init

AnyNext == /\ \/ programs = "tree" /\ Next
              \/ programs = "deep" /\ Deep!Next
              \/ programs = "flat" /\ Flat!Next
              \/ programs = "earlier" /\ EarlierNext
              \/ programs = "careless" /\ Anyhow!EarlierNext
           /\ UNCHANGED programs

AnySpec == AnyInit /\ [][AnyNext]_<<vars, programs>>

-------------------------------------------------------------------------------
(* The invariants of both versions, each for the programs it is about.        *)

(* BlocksOwned and NamedOnce: no block and no inode is lost or has two owners. *)
OneOwnerEach == programs \in {"tree", "earlier"} => BlocksOwned /\ NamedOnce

(* DirsInRoot and DotsRight, of directories in directories.                   *)
DeepDirsRight == programs = "deep" => Deep!DirsInRoot /\ Deep!DotsRight

(* TypeOK and RootStays, of a root that is filled, of blocks that look like   *)
(* directories, and of a rename where the earlier version has no room.        *)
RootsStay == /\ programs = "flat" => Flat!TypeOK /\ Flat!RootStays
             /\ programs = "careless" => Anyhow!RootStays

(* ListedOnce: a listing has every name once.                                 *)
EachListedOnce == /\ programs = "tree" => ListedOnce
                  /\ programs = "earlier" => EarlierListedOnce

(* RenameMoves, of the earlier version.                                       *)
EarlierRenameMoves ==
  [][programs = "earlier" => RenameMoves]_<<vars, programs>>

(* ImplementsFileTree, of a tree that nobody touches if the programs are of   *)
(* another kind.                                                              *)
Tree == INSTANCE FileTree WITH
          kind  <- [p \in Path |-> IF programs = "tree" THEN KindAt(p) ELSE "none"],
          reply <- IF programs = "tree" THEN reply ELSE Reply("none", << >>, TRUE)
TreeImplementsFileTree == Tree!Spec
===============================================================================

SPECIFICATION AnySpec
CONSTANTS
  n1 = n1
  n2 = n2
  Kinds = {"tree", "deep", "flat", "earlier", "careless"}
  Ino <- Inodes
  Blk <- Blocks4
  Name <- Names
  MaxDepth = 2
  MaxOpen = 1
  NDirent = 2
  NDirect = 2
  Nested = FALSE
  Crowds = FALSE
  Stale = FALSE
  Strays = FALSE
  Careless = FALSE
INVARIANTS OneOwnerEach DeepDirsRight RootsStay EachListedOnce
PROPERTIES TreeImplementsFileTree EarlierRenameMoves
SYMMETRY Swaps

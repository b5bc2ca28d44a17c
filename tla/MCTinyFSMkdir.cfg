SPECIFICATION AnySpec
CONSTANTS
  n1 = n1
  n2 = n2
  Kinds = {"tree"}
  Ino <- Inodes
  Blk <- Blocks4
  Name <- Names
  MaxDepth = 2
  MaxOpen = 1
  NDirent = 3
  NDirect = 2
  Nested = TRUE
  Crowds = FALSE
  Stale = FALSE
  Strays = FALSE
  Careless = FALSE
INVARIANT MkdirMakesIt

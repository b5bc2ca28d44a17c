SPECIFICATION Spec
CONSTANTS
  BLOCK_SIZE = 2
  TINY_N_DIRECT_BLOCKS = 2
  Blk <- Blocks
  Byte <- Bits
  Across = FALSE
INVARIANTS BlocksRight
PROPERTIES ImplementsByteFile

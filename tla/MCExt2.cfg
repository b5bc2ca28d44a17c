SPECIFICATION Spec
CONSTANTS
  n1 = n1
  n2 = n2
  Name = {n1, n2}
  NIno = 4
  NBlk = 5
  NSlot = 1
  MaxSize = 2
  MaxOpt = 3
  MaxCall = 6
SYMMETRY Names
INVARIANTS NothingLost ForcedOnly
PROPERTIES RenameLosesNothing
CHECK_DEADLOCK FALSE

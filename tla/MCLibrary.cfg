SPECIFICATION Spec
CONSTANTS
  n1 = n1
  n2 = n2
  Name = {n1, n2}
  NIno = 6
  NBlk = 8
  NFd = 2
  NDirent = 3
  NDirect = 2
  MaxCall = 6
SYMMETRY Names
INVARIANTS TreeRight DescriptorsApart ListsWhatOpens
PROPERTIES CallsHitTheirFile
CHECK_DEADLOCK FALSE

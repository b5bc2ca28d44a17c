SPECIFICATION Spec
CONSTANTS
  n1 = n1
  n2 = n2
  Name = {n1, n2}
  NIno = 3
  NBlk = 3
  NBit = 4
  MaxBlk = 2
  MaxCall = 5
INVARIANTS CleanMountRestores MountedRight CrashKeepsSaved WildOnlyAfterCut
SYMMETRY Names

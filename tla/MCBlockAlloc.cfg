SPECIFICATION AllocSpec
CONSTANTS
  h1 = h1
  h2 = h2
  s1 = s1
  s2 = s2
  s3 = s3
  s4 = s4
  s5 = s5
  Thread = {h1}
  Slot = {s1, s2, s3, s4, s5}
  NBlk = 4
  NBit = 6
  Start = 5
INVARIANTS Accounted OneOwner
SYMMETRY Entries

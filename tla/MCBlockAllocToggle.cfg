SPECIFICATION AllocSpec
CONSTANTS
  h1 = h1
  h2 = h2
  s1 = s1
  s2 = s2
  s3 = s3
  s4 = s4
  s5 = s5
  Thread = {h1, h2}
  Slot = {s1, s2}
  NBlk = 2
  NBit = 3
  Start = 5
PROPERTIES SetLeavesInUse

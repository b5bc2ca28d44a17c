SPECIFICATION FairScreenSpec
CONSTANTS
  MaxReport = 2
  SubMenu = 2
  Menu = 3
  Reach = 0
INVARIANTS DrawnRight MarksTellLast NoneDangling
PROPERTIES NobodyWaitsForEver

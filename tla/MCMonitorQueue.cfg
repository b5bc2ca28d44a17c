SPECIFICATION EitherSpec
CONSTANTS
  h1 = h1
  h2 = h2
  Handler = {h1, h2}
  Kind = {"sb", "bbm"}
  Size <- MCSize
  Report <- MCReport
  MaxBytes = 5
  Waits = TRUE
  Known = {"sb", "bbm"}
INVARIANTS TypeOK InStepUnlessTorn
PROPERTIES WedgeOutlivesRestart HandlersNeverWait CatchesUp

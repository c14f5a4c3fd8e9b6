SPECIFICATION Spec
CONSTANTS
  NumRows = 2
  NumCols = 2
  MaxFree = 1
  Chained = {"TABLE"}
INVARIANT NoCyclicWait

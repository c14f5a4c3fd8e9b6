SPECIFICATION Spec
CONSTANTS
  NumRows = 3
  NumCols = 4
  MaxFree = 1
  Chained = {"XY", "WestFirst", "ADAPT_WestFirst"}
INVARIANTS OutportLeadsDownstream TableOffersEveryShortestHop NoCyclicWait
PROPERTIES HopBringsCloser ReachesDestination

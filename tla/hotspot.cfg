SPECIFICATION FairCSpec
CONSTANTS
  NumRows = 1
  NumCols = 4
  Algorithm = "XY"
  Routers <- MCRouters
  Nodes <- MCNodes
  Channels <- MCChannels
  Src <- MCSrc
  Dst <- MCDst
  InPorts <- MCInPorts
  OutPorts <- MCOutPorts
  OutportCompute <- MeshOutportCompute
  Tdm = 1
  Backlogged = TRUE
  StallNodes = {}
  NumVnets = 1
  VcsPerVnet = 1
  MaxCredit = 1
  Packets <- HotSpotFlows
  PktSrc <- MCPktSrc
  PktDst <- MCPktDst
  PktVnet <- MCPktVnet
  Interswap = TRUE
  NoIsSwap = FALSE
  DisableLocal = FALSE
  OccupancySwap = 50
  InjSingleVnet = TRUE
  BailoutRouters = {}
  NoRouter = NoRouter
  NoLink = NoLink
INVARIANTS TypeOK IsSwapMatchesRouted SwapPtrPointsToFlit
PROPERTIES EventuallyDelivered

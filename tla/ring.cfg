SPECIFICATION FairCSpec
CONSTANTS
  NumRows = 2
  NumCols = 2
  Algorithm = "RANDOM"
  Routers <- MCRouters
  Nodes <- MCNodes
  Channels <- MCChannels
  Src <- MCSrc
  Dst <- MCDst
  InPorts <- MCInPorts
  OutPorts <- MCOutPorts
  OutportCompute <- MeshOutportCompute
  Tdm = 1
  Backlogged = TRUE
  StallNodes = {}
  NumVnets = 1
  VcsPerVnet = 1
  MaxCredit = 1
  Packets <- RingFlows
  PktSrc <- MCPktSrc
  PktDst <- MCPktDst
  PktVnet <- MCPktVnet
  Interswap = TRUE
  NoIsSwap = TRUE
  DisableLocal = TRUE
  OccupancySwap = 0
  InjSingleVnet = TRUE
  BailoutRouters = {}
  NoRouter = NoRouter
  NoLink = NoLink
INVARIANTS ClockTypeOK VcExclusive ArrivalFindsIdleVc PacketConserved SwapPtrPointsToFlit FlitMatchesPlace
PROPERTIES HopsNeverGrow TransportsPackets EventuallyDelivered

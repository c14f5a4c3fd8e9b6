SPECIFICATION CSpec
CONSTANTS
  NumRows = 1
  NumCols = 4
  Algorithm = "XY"
  Routers <- MCRouters
  Nodes <- MCNodes
  Channels <- MCChannels
  Src <- MCSrc
  Dst <- MCDst
  InPorts <- MCInPorts
  OutPorts <- MCOutPorts
  OutportCompute <- MeshOutportCompute
  Tdm = 1
  Backlogged = TRUE
  StallNodes = {}
  NumVnets = 1
  VcsPerVnet = 2
  MaxCredit = 1
  Packets <- HotSpotFlows
  PktSrc <- MCPktSrc
  PktDst <- MCPktDst
  PktVnet <- MCPktVnet
  Interswap = TRUE
  NoIsSwap = TRUE
  DisableLocal = TRUE
  OccupancySwap = 0
  InjSingleVnet = TRUE
  BailoutRouters = {}
  NoRouter = NoRouter
  NoLink = NoLink
PROPERTIES PtrOffOnlyWhenVacant

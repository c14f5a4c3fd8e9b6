SPECIFICATION CSpec
CONSTANTS
  NumRows = 2
  NumCols = 3
  Algorithm = "XY"
  Routers <- MCRouters
  Nodes <- MCNodes
  Channels <- MCChannels
  Src <- MCSrc
  Dst <- MCDst
  InPorts <- MCInPorts
  OutPorts <- MCOutPorts
  OutportCompute <- MeshOutportCompute
  Tdm = 1
  Backlogged = TRUE
  StallNodes = {}
  NumVnets = 1
  VcsPerVnet = 1
  MaxCredit = 1
  Packets <- DetourFlows
  PktSrc <- MCPktSrc
  PktDst <- MCPktDst
  PktVnet <- MCPktVnet
  Interswap = TRUE
  NoIsSwap = FALSE
  DisableLocal = TRUE
  OccupancySwap = 0
  InjSingleVnet = TRUE
  BailoutRouters <- MCBailoutRouters
  NoRouter = NoRouter
  NoLink = NoLink
INVARIANTS IsSwapMatchesRouted
CHECK_DEADLOCK FALSE

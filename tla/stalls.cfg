SPECIFICATION FairCSpec
CONSTANTS
  NumRows = 1
  NumCols = 4
  Algorithm = "XY"
  Routers <- MCRouters
  Nodes <- MCNodes
  Channels <- MCChannels
  Src <- MCSrc
  Dst <- MCDst
  InPorts <- MCInPorts
  OutPorts <- MCOutPorts
  OutportCompute <- MeshOutportCompute
  Tdm = 1
  Backlogged = TRUE
  StallNodes = {6}
  NumVnets = 2
  VcsPerVnet = 1
  MaxCredit = 1
  Packets <- CrossFlows
  PktSrc <- MCPktSrc
  PktDst <- MCPktDst
  PktVnet <- MCPktVnet
  Interswap = TRUE
  NoIsSwap = TRUE
  DisableLocal = FALSE
  OccupancySwap = 0
  InjSingleVnet = FALSE
  BailoutRouters = {}
  NoRouter = NoRouter
  NoLink = NoLink
INVARIANTS LinkDrained VcExclusive CreditsMatchState SwapPtrPointsToFlit FlitKeepsVnet
PROPERTIES ArrivedFlitIsEjected EventuallyDelivered

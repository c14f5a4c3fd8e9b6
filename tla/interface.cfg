CONSTANTS
  NumVnets = 1
  VcsPerVnet = 3
  OrderedVnets = {0}
  InjSingleVnet = FALSE
  BuffersPerVc = 1
  Arrivals <- MCArrivals
  PopsPerCycle = 1
  m_max_size = 2
  NumMessages = 2
  MsgVnet <- MCMsgVnet
  MsgDests <- MCMsgDests
  None = None
SPECIFICATION Spec
INVARIANTS InterfaceTypeOK EachDestinationOnce SentInOrder StallBookkeeping EjectVcAccounted
PROPERTIES EveryDestinationServed EjectVcFreed

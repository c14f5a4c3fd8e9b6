CONSTANTS
  NumVnets = 2
  VcsPerVnet = 1
  OrderedVnets = {0}
  InjSingleVnet = FALSE
  BuffersPerVc = 1
  Arrivals <- MCTwoVnets
  PopsPerCycle = 1
  m_max_size = 2
  NumMessages = 0
  MsgVnet <- MCNoMessages
  MsgDests <- MCNoMessages
  None = None
SPECIFICATION Spec
PROPERTIES EjectVcFreed

SPECIFICATION Spec
CONSTANTS
  NumInports = 2
  NumOutports = 2
  NumVnets = 1
  VcsPerVnet = 2
  PipeStages = 2
  OrderedVnets = {0}
  Turns <- MCTurns
  Interswap = FALSE
  NoFlit = NoFlit
  NoVc = NoVc
PROPERTIES PtToPtOrder

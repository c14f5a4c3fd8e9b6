SPECIFICATION Spec
CONSTANTS
  NumInports = 2
  NumOutports = 2
  NumVnets = 2
  VcsPerVnet = 1
  PipeStages = 2
  OrderedVnets = {}
  Turns <- MCTurns
  Interswap = TRUE
  NoFlit = NoFlit
  NoVc = NoVc
INVARIANTS AllocTypeOK NoFlitOversleeps
PROPERTIES InportsTakeTurns VcsTakeTurns KeepsContract

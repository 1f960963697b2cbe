SPECIFICATION Spec
CONSTANTS
  ADs = {1, 2, 3}
  Topologies <- MCTopologies
  DualRouters = {2}
  NULL = NULL
  hello_lsa_ratio = 1
  CALC_DIJKSTRA_INTERVAL = 2
  MAX_HOP_COUNT = 50
  MAX_SEQNUM = 100000
  SEQ_WINDOW = 10000
  FirstSeq <- MCFirstSeq
  MaxTicks <- MCMaxTicks
  MaxRestarts <- MCMaxRestarts
CHECK_DEADLOCK FALSE
INVARIANTS TypeOK LinkStateIsTrue RecordsAreFlooded RoutesLeadToNeighbours
PROPERTIES RoutesAreShortest RecordsOnlyGetNewer

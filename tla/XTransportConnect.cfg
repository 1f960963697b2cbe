SPECIFICATION Spec
CONSTANTS
  MAX_WIN_SIZE = 2
  MAX_CONNECT_TRIES = 1
  MAX_RETRANSMIT_TRIES = 1
  Clients = {c1, c2}
  Listeners = {l1, l2}
  AcceptPorts = {a1, a2}
  NULL = NULL
  XIDs <- SIDs
  Data <- Payloads
  MaxSyns = 3
  ClientSends = 0
  AcceptedSends = 0
  MaxSends <- SendBounds
SYMMETRY PortSymmetry
INVARIANTS GrantedOnce SynackFindsSocket AcceptNeverAborts ReachableUntilClosed
CHECK_DEADLOCK FALSE

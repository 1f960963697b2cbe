SPECIFICATION Spec
CONSTANTS
  MAX_WIN_SIZE = 2
  MAX_CONNECT_TRIES = 1
  MAX_RETRANSMIT_TRIES = 1
  Clients = {c1}
  Listeners = {l1}
  AcceptPorts = {a1, a2}
  NULL = NULL
  XIDs <- SIDs
  Data <- Payloads
  MaxSyns = 2
  ClientSends = 2
  AcceptedSends = 0
  MaxSends <- SendBounds
SYMMETRY PortSymmetry
INVARIANTS TypeOK AcceptedStreamInOrder
CHECK_DEADLOCK FALSE

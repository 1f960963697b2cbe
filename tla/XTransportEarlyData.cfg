SPECIFICATION Spec
CONSTANTS
  MAX_WIN_SIZE = 2
  MAX_CONNECT_TRIES = 1
  MAX_RETRANSMIT_TRIES = 1
  Clients = {c1}
  Listeners = {l1}
  AcceptPorts = {a1}
  NULL = NULL
  XIDs <- SIDs
  Data <- Payloads
  MaxSyns = 1
  ClientSends = 1
  AcceptedSends = 1
  MaxSends <- SendBounds
SYMMETRY PortSymmetry
INVARIANTS ConnectConsumesGrant
CHECK_DEADLOCK FALSE

SPECIFICATION FairSpec
CONSTANTS
  MAX_WIN_SIZE = 2
  MAX_CONNECT_TRIES = 1
  MAX_RETRANSMIT_TRIES = 1
  Data = {a}
  NULL = NULL
  XIDs <- ServiceXIDs
  ClientSends = 1
  ServerSends = 0
  MaxSends <- SendBounds
  MaxLosses = 0
  DupSynAcks = 0
PROPERTY ClosedIsTornDown
CHECK_DEADLOCK FALSE

SPECIFICATION Spec
CONSTANTS
  MAX_WIN_SIZE = 2
  MAX_CONNECT_TRIES = 1
  MAX_RETRANSMIT_TRIES = 1
  Data = {a, b}
  NULL = NULL
  XIDs <- ServiceXIDs
  ClientSends = 3
  ServerSends = 1
  MaxSends <- SendBounds
  MaxLosses = 0
  DupSynAcks = 1
INVARIANTS TypeOK InOrderDelivery AckedIsDelivered UndeliveredIsBuffered UndeliveredIsTimed
PROPERTY ImplementsReliableStream
CHECK_DEADLOCK FALSE

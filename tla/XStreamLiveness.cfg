SPECIFICATION FairSpec
CONSTANTS
  MAX_WIN_SIZE = 2
  MAX_CONNECT_TRIES = 1
  MAX_RETRANSMIT_TRIES = 1
  Data = {a}
  NULL = NULL
  XIDs <- ServiceXIDs
  ClientSends = 2
  ServerSends = 1
  MaxSends <- SendBounds
  MaxLosses = 1
  DupSynAcks = 1
PROPERTY EventuallyDelivered ReceiverIsTornDown
CHECK_DEADLOCK FALSE

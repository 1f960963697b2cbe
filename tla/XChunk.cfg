SPECIFICATION FairSpec
CONSTANTS
  CIDs = {x, y}
  NULL = NULL
  MaxLosses = 2
INVARIANTS TypeOK TimedIsRequested ReplyIsForReader BlockedIsNoted
PROPERTIES ReadReturns ImplementsChunkReads

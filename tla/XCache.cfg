SPECIFICATION FairSpec
CONSTANTS
  Clients = {1, 2}
  CIDs = {c}
  Sizes = {2}
  Lengths = {1, 3}
  Policies = {0, 1}
  NULL = NULL
  MaxCommands <- MCMaxCommands
CHECK_DEADLOCK FALSE
INVARIANTS TypeOK RefCountMatchesSlices SlicedIsStored SlicesAreNotShared
PROPERTIES SliceIsGranted StoredByOwner

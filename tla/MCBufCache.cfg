SPECIFICATION LruFairSpec
CONSTANTS
  NBuf = 3
  HashSize = 2
  Block <- MCBlock
  CallNo <- MCCallInvalid
  Data = {0, 1}
  Zero = 0
INVARIANTS TypeOK ListsDisjoint HashAgrees OneBufferPerBlock CleanIsOnDisk ListsInLruOrder
PROPERTIES LostOnlyByInvalidRead SyncReturns ImplementsBlockStore EvictsOldestOfList

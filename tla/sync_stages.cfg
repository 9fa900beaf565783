SPECIFICATION FairSpec
CONSTANTS
  Task = {t1, t2}
  MaxTotalDifficulty = 2
  MaxChecks = 2
INVARIANTS IInv OneTask BeginOnlyInChecking SyncIsShown
PROPERTIES CancelingEnds CheckingEnds SynchronizingEnds

SPECIFICATION FairSpec
CONSTANTS
  Task = {t1, t2}
  MaxTotalDifficulty = 2
  MaxChecks = 2
INVARIANT SynchronizingIsActive

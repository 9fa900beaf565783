SPECIFICATION NodeSpec
CONSTANTS
  g = g
  a1 = a1
  a2 = a2
  a3 = a3
  b1 = b1
  x1 = x1
  Block <- MCBlock
  Genesis <- MCGenesis
  Parent <- MCParent
  Number <- MCNumber
  Difficulty <- MCDifficulty
  Valid <- MCValid
  ChainTo <- MCChainTo
  Minable = {a1}
  Relayed = {a3}
  SyncTask = {t1}
  MAX_ROLL_BACK_BLOCK = 3
  MailboxCapacity = 1
  Late = {}
  StorageMayFail = FALSE
INVARIANT EnactedNotRetracted


SPECIFICATION NodeSpec
CONSTANTS
  g = g
  a1 = a1
  a2 = a2
  a3 = a3
  b1 = b1
  x1 = x1
  Block <- MCBlock
  Genesis <- MCGenesis
  Parent <- MCParent
  Number <- MCNumber
  Difficulty <- MCDifficulty
  Valid <- MCValid
  ChainTo <- MCChainTo
  Minable = {a2, b1}
  Relayed = {a1, a2, a3, b1, x1}
  SyncTask = {}
  MAX_ROLL_BACK_BLOCK = 2
  MailboxCapacity = 2
  Late = {b1}
  StorageMayFail = FALSE
INVARIANTS OneHead HeadIsHeaviest


SPECIFICATION Spec
CONSTANTS
  g = g
  a1 = a1
  a2 = a2
  a3 = a3
  b1 = b1
  x1 = x1
  Block <- MCBlock
  Genesis <- MCGenesis
  Parent <- MCParent
  Number <- MCNumber
  Difficulty <- MCDifficulty
  Valid <- MCValid
  ChainTo <- MCChainTo
  Minable = {b1}
  Relayed = {a2}
  SyncTask = {t1}
  MAX_ROLL_BACK_BLOCK = 2
  MailboxCapacity = 1
  Late = {}
  StorageMayFail = TRUE
INVARIANTS TypeOK InfoMeansExecuted Recoverable OneHead ReorgToldToTxpool
PROPERTIES HeadGrows RefinesForkChoice

SPECIFICATION Spec
CONSTANTS
  Account <- MCAccount
  Txn <- MCTxn
  Sender <- MCSender
  SequenceNumber <- MCSequenceNumber
  GasPrice <- MCGasPrice
  Expiration <- MCExpiration
  Head <- MCHead
  Genesis = "g"
  Path <- MCPath
  Body <- MCBody
  Timestamp <- MCTimestamp
  Weight <- MCWeight
  MinGasPrice = 1
  MaxCount = 2
  MaxPerSender = 2
  StaleGap = 1
  MaxInsertions = 3
  Importer = {i1}
  Reader = {r1}
INVARIANT PendingIsPackagable
CHECK_DEADLOCK FALSE

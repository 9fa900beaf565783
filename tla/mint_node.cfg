SPECIFICATION Spec
CONSTANTS
  DisableMinerClient = FALSE
  DisableEmptyBlock = FALSE
  MaxHead = 2
  MaxStatus = 2
  MaxFail = 1
  MaxSeal = 2
  MaxClients = 1
INVARIANTS KeepsMinting OncePerTask MintsOnHead
CHECK_DEADLOCK FALSE

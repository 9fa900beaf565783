SPECIFICATION Spec
CONSTANTS
  Service = {"pacemaker", "txn_sync"}
  Event <- NodeEvent
  OnStart <- NodeOnStart
  OnStop <- NodeOnStop
  MailboxCap = 2
  BusCap = 2
  MaxEvents = 1
  MaxCommands = 0
PROPERTY StatusIsHeard
CHECK_DEADLOCK FALSE

SPECIFICATION Spec
CONSTANTS
  Service = {"pacemaker", "txpool"}
  Event = {"SyncStatusChange", "NewHeadBlock"}
  OnStart <- NodeOnStart
  OnStop <- NodeOnStop
  MailboxCap = 2
  BusCap = 2
  MaxEvents = 2
  MaxCommands = 3
INVARIANTS SubscribedOnce InOrder
PROPERTIES EventsSettle HeardUnlessFull
CHECK_DEADLOCK FALSE

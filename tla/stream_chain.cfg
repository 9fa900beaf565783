SPECIFICATION Spec
CONSTANTS
  SubTasks = 4
  ItemsPerTask = 2
  BufferSize = 3
  MaxRetryTimes = 1
  Stages = 2
INVARIANTS IInv InOrder OkIsComplete
PROPERTY Terminates
CHECK_DEADLOCK FALSE

SPECIFICATION FairSpec
CONSTANTS
  Threads = {"t1", "t2"}
  Workflows = {"w1", "w2"}
  Steps = {"s"}
  Events <- SomeEvents
  None = None
  MaxItems = 2
  MaxAttempts = 2
  MaxEmits = 2
  MaxLost = 1
INVARIANTS EveryItemCountedOnce FlushMeansDone RunsKept
PROPERTIES HeardInOrder FlushReturnsIfOpen WorkerEnds
CHECK_DEADLOCK FALSE

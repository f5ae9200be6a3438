SPECIFICATION FairSpec
CONSTANTS
  BatchSize = 3
  Duration <- Seconds
  PoolSize = 2
  MaxRetries = 1
  Schedules <- SomeSchedules
  Budgets <- SomeBudgets
INVARIANTS SpendBounded WorkDoneOnce
PROPERTIES BenchmarkEnds
CHECK_DEADLOCK FALSE

CONSTANTS
  NumMetrics = 2
  Answers = 2
  P2A = {1}
  Dropped = {1}
  MaxRecords = 2
  MaxSuspensions = 1
  MaxWeeks = 2
  MaxFailures = 1
  MaxToggles = 1
  MaxRestarts = 1
SPECIFICATION FairSpec
CHECK_DEADLOCK FALSE
INVARIANT StoreConsistent
INVARIANT SentWasReceived
INVARIANT ReportedOnce
INVARIANT NothingForgotten
PROPERTY EveryValueIsSent

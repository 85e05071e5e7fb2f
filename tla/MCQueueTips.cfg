CONSTANTS
  Tips = {t1, t2}
  RecurringTips = {}
  AutoContributions = {}
  Amounts = {2}
  Balances <- ManyBalances
  MaxCrashes = 0
  MaxDbErrors = 0
  MaxFetchErrors = 0
SPECIFICATION Spec
SYMMETRY Symmetry
CHECK_DEADLOCK FALSE
INVARIANT QueueConsistent
INVARIANT TipsAllOrNothing
INVARIANT CompletedWasServed

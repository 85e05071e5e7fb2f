CONSTANTS
  Tips = {t1, t2}
  RecurringTips = {}
  AutoContributions = {}
  Amounts = {2}
  Balances <- EnoughBalances
  MaxCrashes = 0
  MaxDbErrors = 0
  MaxFetchErrors = 0
SPECIFICATION Spec
CHECK_DEADLOCK FALSE
INVARIANT EntryContributedOnce

CONSTANTS
  Tips = {}
  RecurringTips = {r1}
  AutoContributions = {a1}
  Amounts = {2}
  Balances <- FewBalances
  MaxCrashes = 1
  MaxDbErrors = 1
  MaxFetchErrors = 1
SPECIFICATION FairSpec
CHECK_DEADLOCK FALSE
INVARIANT PaidWithinPasses
INVARIANT RaisedFlagIsLowered
PROPERTY CompletedStaysCompleted
PROPERTY EveryEntryCompletes

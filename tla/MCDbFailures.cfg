CONSTANTS
  Contributions = {c1}
  None = None
  NumTokens = 3
  NumPublishers = 1
  TokenValue = 1
  Types = {"AC", "TIP"}
  Amounts = {1, 2, 3, 4}
  Expirable = {1, 2}
  MaxCrashes = 2
  MaxDbErrors = 4
SPECIFICATION FairSpec
INVARIANT ReportedOncePerRun
INVARIANT TipRecordedIsSpent
PROPERTY FinalIsFinal
PROPERTY EventuallyFinal

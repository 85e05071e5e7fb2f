CONSTANTS
  Contributions = {c1}
  None = None
  NumTokens = 2
  NumPublishers = 3
  TokenValue = 2
  Types = {"AC"}
  Amounts = {4}
  Expirable = {}
  MaxCrashes = 0
  MaxDbErrors = 0
SPECIFICATION FairSpec
PROPERTY AutoContributionCompletes

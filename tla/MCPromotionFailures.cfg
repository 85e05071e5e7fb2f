CONSTANTS
  Flows = {f1, f2}
  NumPromotions = 1
  Legacy = {1}
  Expirable = {1}
  MaxBlinds = 2
  MaxAttests = 2
  MaxFetches = 1
  MaxCrashes = 1
  MaxDbErrors = 1
  MaxHttpErrors = 1
SPECIFICATION FairSpec
CHECK_DEADLOCK FALSE
INVARIANT PromotionConsistent
INVARIANT OneSetOfTokens
INVARIANT ClaimedCredsKept
INVARIANT PromotionReportedOnce
PROPERTY ClaimedBecomesTokens

CONSTANTS
  Flows = {f1, f2}
  NumPromotions = 2
  Legacy = {}
  Expirable = {1}
  MaxBlinds = 1
  MaxAttests = 0
  MaxFetches = 3
  MaxCrashes = 0
  MaxDbErrors = 0
  MaxHttpErrors = 0
SPECIFICATION Spec
CHECK_DEADLOCK FALSE
PROPERTY GoneIsOver

CONSTANTS
  Contributions = {c1, c2}
  None = None
  NumTokens = 3
  NumPublishers = 2
  TokenValue = 2
  Types = {"TIP"}
  Amounts = {2, 3}
  Expirable = {1}
  MaxCrashes = 1
  MaxDbErrors = 1
SPECIFICATION Spec
SYMMETRY Symmetry
INVARIANT InFlightTokensHeld

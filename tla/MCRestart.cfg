CONSTANTS
  Contributions = {c1, c2}
  None = None
  NumTokens = 2
  NumPublishers = 2
  TokenValue = 1
  Types = {"AC", "TIP"}
  Amounts = {1, 2}
  Expirable = {}
  MaxCrashes = 1
  MaxDbErrors = 0
SPECIFICATION Spec
SYMMETRY Symmetry
INVARIANT VoteCastOnce
PROPERTY ImplementsTokenLedger
INVARIANT PublisherNotOverpaid
INVARIANT SpentWithinAmount
INVARIANT CompletedIsPaid
INVARIANT NoOrphanReservation

\* Two wallets and a page-numbered provider: Next continues another wallet.
SPECIFICATION Spec
CONSTANTS
  a = a
  token = token
  numbered = numbered
  Views = {v1}
  Scopes = {a, b}
  Providers = {numbered}
  PageNumbered = {numbered}
  PageSize <- Sizes
  None = None
  MaxEvents <- LongHistories
  MaxMoves = 1
INVARIANT
  CompleteIsWhole

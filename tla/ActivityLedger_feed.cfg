\* One application, a wallet with history and an empty one, two providers.
SPECIFICATION LiveSpec
CONSTANTS
  a = a
  token = token
  numbered = numbered
  Views = {v1}
  Scopes = {a, b}
  Providers = {token, numbered}
  PageNumbered = {numbered}
  PageSize <- Sizes
  None = None
  MaxEvents <- Histories
  MaxMoves = 2
INVARIANTS
  InOrderIsWhole
PROPERTIES
  PagingEnds

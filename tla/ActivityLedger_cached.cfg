\* One wallet: a cached page is labelled complete whatever it was.
SPECIFICATION Spec
CONSTANTS
  a = a
  token = token
  numbered = numbered
  Views = {v1}
  Scopes = {a}
  Providers = {token}
  PageNumbered = {}
  PageSize <- Sizes
  None = None
  MaxEvents <- ShortHistories
  MaxMoves = 2
INVARIANT
  ShownPartialIsNotComplete

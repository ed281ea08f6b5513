\* Two applications share the database and the cache file; one wallet.
SPECIFICATION Spec
CONSTANTS
  a = a
  token = token
  numbered = numbered
  Views = {v1, v2}
  Scopes = {a}
  Providers = {numbered}
  PageNumbered = {numbered}
  PageSize <- SingleEvents
  None = None
  MaxEvents <- ShortHistories
  MaxMoves = 2
SYMMETRY Symmetry
INVARIANTS
  ShownCompleteIsWhole
  ShownIsDurable

\* One process, interrupted without bound; one market with a longer list.
SPECIFICATION LiveSpec
CONSTANTS
  aave = aave
  compound = compound
  vault = vault
  Collectors = {c1}
  Markets = {compound}
  Vaults = {}
  WithAccount = {}
  WithSymbols = {compound}
  Order <- JustCompound
  Providers = {p, q}
  NoProvider = NoProvider
  Failed = Failed
  Switched = Switched
  MaxItems = 3
PROPERTIES
  NeverStartsOver
  OnlyForcedReplaces
  EveryMarketIsCollected

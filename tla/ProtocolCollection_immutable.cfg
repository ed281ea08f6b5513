\* A forced refresh of a finished block.
SPECIFICATION Spec
CONSTANTS
  aave = aave
  compound = compound
  vault = vault
  Collectors = {c1}
  Markets = {compound}
  Vaults = {}
  WithAccount = {}
  WithSymbols = {compound}
  Order <- JustCompound
  Providers = {p, q}
  NoProvider = NoProvider
  Failed = Failed
  Switched = Switched
  MaxItems = 1
PROPERTIES
  StoredResultIsImmutable

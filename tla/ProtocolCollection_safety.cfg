\* Two processes share the database; one market and one vault.
SPECIFICATION Spec
CONSTANTS
  aave = aave
  compound = compound
  vault = vault
  Collectors = {c1, c2}
  Markets = {aave}
  Vaults = {vault}
  WithAccount = {aave}
  WithSymbols = {}
  Order <- AaveThenVault
  Providers = {p, q}
  NoProvider = NoProvider
  Failed = Failed
  Switched = Switched
  MaxItems = 1
SYMMETRY Symmetry
INVARIANTS
  CheckpointIsPrefix
  RefreshIsWhole
PROPERTIES
  ImplementsAtOnce

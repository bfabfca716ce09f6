\* Two contexts, given up when a save has failed.
SPECIFICATION CarefulSpec
CONSTANTS
  d1 = d1
  d2 = d2
  Contexts = {d1, d2}
  Null = Null
  Ids <- MCIds
  Keys <- MCKeys
  Tenants <- MCTenants
INVARIANTS EFTypeOK CleanBetweenCalls
PROPERTY RegistrySpec

\* Contents that change at any time once the store is constructed.
SPECIFICATION FairSpec
CONSTANTS
  Sections = {1, 2, 3}
  Defaults = 0
  Configs <- MCConfigs
  Ids <- MCIds
  Keys <- MCKeys
  Comparer <- MCComparer
  EarlyChanges = FALSE
  Null = Null
INVARIANTS TypeOK RestsOnTheConfiguration SteadyTenantsAreServed
PROPERTY ChangesAreReflected

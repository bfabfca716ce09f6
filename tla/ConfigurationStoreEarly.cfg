\* A content that changes while the store is constructed.
SPECIFICATION FairSpec
CONSTANTS
  Sections = {1, 2, 3}
  Defaults = 0
  Configs <- MCConfigs
  Ids <- MCIds
  Keys <- MCKeys
  Comparer <- MCComparer
  EarlyChanges = TRUE
  Null = Null
INVARIANT RestsOnTheConfiguration

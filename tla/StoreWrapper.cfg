\* Three clients that add, update, rename and remove the same tenants.
SPECIFICATION WSpec
CONSTANTS
  c1 = c1
  c2 = c2
  c3 = c3
  Clients = {c1, c2, c3}
  Null = Null
  Ids <- MCIds
  Keys <- MCKeys
  Comparer <- MCComparer
  Tenants <- MCTenants
INVARIANT WTypeOK
PROPERTIES EntryKeepsItsTenant UpdateNeverResurrects OnlyMisledAddsShareIds RegistrySteps
SYMMETRY Symmetry

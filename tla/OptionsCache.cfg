\* Two flows with and without a tenant; factories end.
SPECIFICATION FairSpec
CONSTANTS
  Clients = {c1, c2}
  TenantIds = {t1}
  NoTenant = NoTenant
  OptionNames = {n1}
  Lazies = {l1, l2, l3}
  ClearArgs <- MCClearArgs
  Null = Null
INVARIANTS TypeOK TenantIsolation SharedInstance FreshAfterRemoval 
PROPERTY ClearIsComplete EveryGetEnds

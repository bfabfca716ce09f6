\* Two clients with tenants of their own, whose calls may be cut short; entries
\* expire between calls.
SPECIFICATION Spec
CONSTANTS
  c1 = c1
  c2 = c2
  Clients = {c1, c2}
  Null = Null
  Ids <- MCIds
  Keys <- MCKeys
  Tenants <- SteadyTenants
  Administers <- ByOwner
  Lifetime = 2
  Expiry = "betweenCalls"
  CallsFail = TRUE
INVARIANTS TypeOK TwinsInSync TwinsExpireTogether
PROPERTY RemovalIsComplete

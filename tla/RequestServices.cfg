\* One request after the other, two nested methods.
SPECIFICATION ServicesSpec
CONSTANTS
  Requests = {r1}
  Tenants <- MCTenants
  MaxFlows = 2
  MaxConfig = 1
  NotMade = NotMade
  NoTenantInfo = NoTenantInfo
INVARIANTS ServicesTypeOK ScopedServicesFollowResets SnapshotsAreOfTheScope

\* One request after the other, with what any before have left.
SPECIFICATION Spec
CONSTANTS
  r1 = r1
  Requests = {r1}
  Keys <- MCKeys
  Fold <- MCFold
  Known = {"a", "b"}
  Claims = {"A"}
  Strategies <- MCStrategies
  SkipChallengeIfTenantNotResolved = {TRUE, FALSE}
  MaxFlows = 3
  Null = Null
INVARIANTS TypeOK AccessorInStep
PROPERTIES SessionsStayHome RemoteSignInsReturn

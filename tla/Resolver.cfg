\* One request among a world that changes at every await and never rests.
SPECIFICATION FairSpec
CONSTANTS
  Requests = {r1}
  NumStrategies = 3
  Priority <- MCPriority
  NumStores = 2
  Keys <- MCKeys
  Fold <- MCFold
  Tenants = {t1}
  Contexts <- MCContexts
  Null = Null
  Throws = Throws
INVARIANTS TypeOK AnswerAccountedFor
PROPERTY EveryRequestEnds

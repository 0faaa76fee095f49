SPECIFICATION Spec
CONSTANTS
  Issues <- TwoIssues
  Workers <- OneWorker
  WorkerOf <- AllNV04
  ScopeOf <- OneScope
  KeptOpen <- FirstKept
  MaxRevision = 1
  MaxCalls = 2
  EventBound <- NetOnly
  MaxEvents = 2
  MaxRetries = 1
INVARIANT
  ScopeExclusive

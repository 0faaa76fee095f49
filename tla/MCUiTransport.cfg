SPECIFICATION FairSpec
CONSTANTS
  Issues <- OneIssue
  Workers <- OneWorker
  WorkerOf <- AllNV04
  ScopeOf <- OneScope
  KeptOpen <- FirstKept
  MaxRevision = 2
  MaxCalls = 2
  EventBound <- TwoOfEach
  MaxEvents = 2
  MaxRetries = 1
INVARIANTS
  DeliveredOnce
  EvidenceOnce
  OrphansWereCutOff
  ReleasedIsSettled
  EvidenceIsTheAnswer
PROPERTY
  AnswersReachCore

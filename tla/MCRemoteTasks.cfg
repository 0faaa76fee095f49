SPECIFICATION FairSpec
CONSTANTS
  Employees = {ann, bob}
  Nobody = Nobody
  MaxAttempts = 2
  Tasks = {t1}
  MaxCalls = 2
  MaxEvents = 1
INVARIANTS LeaseBudget CompletionIsFinal CountsAreTrue RunningIsLeased
CHECK_DEADLOCK FALSE
PROPERTIES EveryTaskEnds
CONSTRAINT FirstLeaseIsHers

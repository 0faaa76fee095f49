SPECIFICATION Spec
CONSTANTS
  Employees = {ann, bob}
  Nobody = Nobody
  MaxAttempts = 2
  Tasks = {t1}
  MaxCalls = 2
  MaxEvents = 0
INVARIANTS AcceptedIsAuthoritative
CHECK_DEADLOCK FALSE

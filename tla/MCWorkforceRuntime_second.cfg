SPECIFICATION Spec
CONSTANTS
  n1 = n1
  Employees = {ann, bob}
  Nobody = Nobody
  MaxAttempts = 4
  Tasks = {t1}
  Nodes = {n1}
  Calls = {c1, c2, c3}
  NodeOf <- MCNodeOf
  Capable <- MCCapable
  Controller = Controller
  Limit = 1
  MaxEvents = 0
INVARIANTS NoSecondExecution
CHECK_DEADLOCK FALSE

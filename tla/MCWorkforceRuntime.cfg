SPECIFICATION Spec
CONSTANTS
  n1 = n1
  Employees = {ann, bob}
  Nobody = Nobody
  MaxAttempts = 2
  Tasks = {t1, t2}
  Nodes = {n1}
  Calls = {c1, c2}
  NodeOf <- MCNodeOf
  Capable <- MCCapable
  Controller = Controller
  Limit = 1
  MaxEvents = 1
INVARIANTS ExecutionsAreBounded CompletionIsFinal CountsAreTrue InFlightIsHeld
PROPERTIES RestartIsHonest
SYMMETRY Symmetry
CHECK_DEADLOCK FALSE

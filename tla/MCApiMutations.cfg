SPECIFICATION Spec
CONSTANTS
  ann = ann
  bob = bob
  o1 = o1
  o2 = o2
  k1 = k1
  k2 = k2
  e1 = e1
  e2 = e2
  m1 = m1
  m2 = m2
  People <- MCPeople
  EvidenceIds = {e1, e2}
  Metadata = {m1, m2}
  Nobody = Nobody
  Orders = {o1, o2}
  Keys = {k1, k2}
  Requests <- MCRequests
  Handlers = {h1, h2}
  Stored <- MCStored
  MaxSends = 4
INVARIANTS RepliesAgree RetryAfterSuccessIsInert AppliedOnceUnlessLost RepliesAreDurable
SYMMETRY HandlerSymmetry
CHECK_DEADLOCK FALSE

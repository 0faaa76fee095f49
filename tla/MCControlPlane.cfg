SPECIFICATION Spec
CONSTANTS
  ann = ann
  bob = bob
  eve = eve
  People <- MCPeople
  Callers <- MCCallers
  EvidenceIds = {e1, e2}
  Metadata = {m1, m2}
  Nobody = Nobody
  Orders = {o1}
  MaxAudit = 6
INVARIANTS TypeOK EvidenceBacksDecisions VerifiedMeansJudged AuditExplainsState
SYMMETRY DataSymmetry
CHECK_DEADLOCK FALSE

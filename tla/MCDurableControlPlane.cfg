SPECIFICATION DurableSpec
CONSTANTS
  ann = ann
  bob = bob
  eve = eve
  People <- MCPeople
  Callers <- MCCallers
  EvidenceIds = {e1}
  Metadata = {m1}
  Nobody = Nobody
  Orders = {o1}
  Clients = {c1, c2}
  MaxAudit = 5
INVARIANTS ReturnedIsDurable
PROPERTIES CommandsAreAtomic
SYMMETRY ClientSymmetry
CHECK_DEADLOCK FALSE

SPECIFICATION AdmissionSpec
CONSTANTS
  RequestIds = {r1, r2, r3}
  ActorIds = {ann, bob}
  Limit = 2
  Quota = 1
  Window = 2
  MaxTime = 6
INVARIANTS SlotsAreCounted QuotaHolds
PROPERTIES GuidanceIsHonest
SYMMETRY RequestSymmetry
CHECK_DEADLOCK FALSE

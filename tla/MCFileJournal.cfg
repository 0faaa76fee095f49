SPECIFICATION FairSpec
CONSTANTS
  Writers = {w1, w2, w3}
  Streams = {s1, s2}
  MaxLines = 2
  CutForms = {"cut", "open"}
INVARIANTS TypeOK LockExcludes StoredInOrder ReadableMeansComplete
PROPERTIES LockReleased AppendsAreAtomic
CHECK_DEADLOCK FALSE

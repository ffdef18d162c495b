\* Publications that wait for each other, and one receiver at a time.
CONSTANTS
  s1 = s1
  s2 = s2
  Sessions = {s1, s2}
  Works = {{s1, s2}}
  Public = {s2}
  Publishers = {1, 2}
  Receivers = {1}
  MaxPublications = 2
  MaxConnections = 2
  FaultSets = {{"append", "authority"}, {"append", "commit", "crash"}}
SPECIFICATION FairSpec
INVARIANTS
  VersionsConsecutive
  EnvelopesReturned
PROPERTIES
  CallsEnd
CHECK_DEADLOCK FALSE

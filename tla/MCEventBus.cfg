\* Two consumers of one subscription and one of another, three events; pages
\* of two while up to six entries arrive.
CONSTANTS
  claim = claim
  work = work
  s1 = s1
  s2 = s2
  c1 = c1
  c2 = c2
  c3 = c3
  Topics = {claim, work}
  Subs = {s1, s2}
  Wants <- MCWants
  Calls = {c1, c2, c3}
  SubOf <- MCSubOf
  MaxEvents = 3
  MaxFailures = 1
  Limit = 2
  MaxEntries = 6
SPECIFICATION MCSpec
INVARIANTS
  NothingSkipped
  CursorsDurable
  SweepComplete
PROPERTIES
  ReadersArrive
CHECK_DEADLOCK FALSE

\* A control request whose process dies before it answers.
CONSTANTS
  r1 = r1
  r2 = r2
  r3 = r3
  k1 = k1
  k2 = k2
  b1 = b1
  b2 = b2
  b3 = b3
  b4 = b4
  x = x
  y = y
  z = z
  t = t
  Requests = {r1, r2, r3}
  Keys = {k1, k2}
  Bodies <- MCBodies
  Ids <- MCIds
  RecordsOf <- MCRecordsOf
  Stored0 <- MCStored0
  Setups <- RetriedControl
SPECIFICATION Spec
PROPERTIES
  ControlRetryAnswered

\* Fourteen registries and engines, one per behaviour.
CONSTANTS
  Participants = {q1, q2}
  Holders = {h1, h2}
  READ = READ
  AMEND = AMEND
  MaxWork = 6
  MaxSpaces = 8
  MaxStamps = 5
  MaxRecords = 4
  MaxUpdates = 2
  MaxStored = 2
  MaxClaimTime = 2
  MaxChanges = 3
  MaxReceived = 3
  MaxVerifications = 2
  MaxOutcomes = 2
SYMMETRY Symmetric
SPECIFICATION Spec
INVARIANTS
  ReplayRebuilds
  WorkIsAccountedFor
  
  
  NoDeadEnd
  
  GraphsAreFollowed
  Converges
  RatesAreKept
CHECK_DEADLOCK FALSE

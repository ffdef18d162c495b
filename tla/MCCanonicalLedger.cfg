\* The ledger on a legacy file, three concurrent callers, crashes at every step.
CONSTANTS
  a = a
  b = b
  l1 = l1
  l2 = l2
  l3 = l3
  W1 = W1
  W2 = W2
  Calls = {c1, c2, c3}
  Ids <- MCIds
  Workspaces <- MCWorkspaces
  Batches <- MCBatches
  Legacy <- MCLegacy
  LegacyRank <- MCLegacyRank
SPECIFICATION FairSpec
INVARIANTS
  AlwaysOpenable
  NoPhantomRead
  AckedDurable
PROPERTIES
  EveryCallEnds
  ImplementsAppendOnlyLedger

\* A ledger with two workspaces.
CONSTANTS
  Workspaces = {1, 2}
  Limit = 2
  MaxEntries = 3
SPECIFICATION Spec
INVARIANTS
  SweepComplete
CHECK_DEADLOCK FALSE

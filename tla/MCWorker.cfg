\* Any combination of failures, and none.
CONSTANTS
  k1 = k1
  k2 = k2
  k3 = k3
  NJobs = 4
  Keys = {k1, k2, k3}
  KeyOf <- MCKeyOf
  MaxAttempts <- MCMaxAttempts
  Runners = {1, 2}
  Handled = {1, 2, 3, 4}
  FaultSets <- AllFaults
SPECIFICATION FairSpec
INVARIANTS
  RunnerOwnsJob
  RetriesUsed
  OncePerKey

  
CHECK_DEADLOCK FALSE

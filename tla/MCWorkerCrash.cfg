\* A worker that may die.
CONSTANTS
  k1 = k1
  k2 = k2
  k3 = k3
  NJobs = 4
  Keys = {k1, k2, k3}
  KeyOf <- MCKeyOf
  MaxAttempts <- MCMaxAttempts
  Runners = {1}
  Handled = {1, 2, 3, 4}
  FaultSets <- MayCrash
SPECIFICATION FairSpec
PROPERTIES
  JobSurvives
CHECK_DEADLOCK FALSE

\* Operations in turn and at once, with and without a sink that throws.
CONSTANTS
  store = store
  model = model
  NComponents = 2
  NProviders = 3
  Capabilities = {store, model}
  Needs <- MCNeeds
  Offers <- MCOffers
  Sees <- MCSees
  Calls = {1, 2}
  MaxOps = 8
  Environments <- AllEnvironments
SPECIFICATION FairSpec
INVARIANTS
  ActiveIsSupported
  LossReleases
  
PROPERTIES
  OperationsEnd
CHECK_DEADLOCK FALSE

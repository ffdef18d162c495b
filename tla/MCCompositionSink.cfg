\* One operation at a time, a sink that may throw.
CONSTANTS
  store = store
  model = model
  NComponents = 2
  NProviders = 3
  Capabilities = {store, model}
  Needs <- MCNeeds
  Offers <- MCOffers
  Sees <- MCSees
  Calls = {1, 2}
  MaxOps = 8
  Environments <- Throwing
SPECIFICATION Spec
INVARIANTS
  LossReleasesAlways
CHECK_DEADLOCK FALSE

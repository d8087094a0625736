SPECIFICATION Spec
CONSTANTS
  s1 = s1
  s2 = s2
  s3 = s3
  e1 = e1
  e2 = e2
  g1 = g1
  g2 = g2
  read = read
  None = None
  Ids = {s1, s2, s3}
  Events = {e1, e2}
  Capabilities = {read}
  Generations = {g1, g2}
  Delivery = {d1, d2}
  Batches <- LevelBatches
  Emissions <- LevelEmissions
  Capacity = 1
  MaxCause = 2
  MaxRevision = 2
INVARIANT InFlightAccounting
INVARIANT DependencyOrder
INVARIANT SucceededMeansSettled
INVARIANT StaleDeliveryStops
CHECK_DEADLOCK FALSE

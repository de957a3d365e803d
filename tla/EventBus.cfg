SPECIFICATION FairSpec
CONSTANTS
  a = a
  b = b
  h1 = h1
  h2 = h2
  r1 = r1
  r2 = r2
  w1 = w1
  w2 = w2
  scheduled = scheduled
  created = created
  NoName = NoName
  MaxEvents = 2
  Names = {created}
  Handlers = {h1, h2}
  Subscriptions <- TestSubscriptions
  Replicas = {a, b}
  Relays = {r1, r2}
  HostOf <- TwoHosts
  Workers = {}
  MaxAttempts = 2
  BatchSize = 1
  WorkerBatch = 2
  MaxCrashes = 1
INVARIANTS TypeOK PublishedMeansDelivered
PROPERTIES ImplementsDelivery EveryEventSettles
CHECK_DEADLOCK FALSE

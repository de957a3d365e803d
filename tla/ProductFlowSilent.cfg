SPECIFICATION FlowSpec
CONSTANTS
  a = a
  b = b
  r1 = r1
  r2 = r2
  q1 = q1
  q2 = q2
  NoName = NoName
  MaxEvents = 2
  Names <- ProductNames
  Handlers <- ProductHandlers
  Subscriptions <- ProductSubscriptions
  Replicas = {a}
  Relays = {r1}
  HostOf <- OneHost
  Workers = {}
  MaxAttempts = 2
  BatchSize = 2
  WorkerBatch = 2
  MaxCrashes = 0
  Requests = {q1}
  MaxIds = 2
  EventsPerMonth = 1
  MaxAborts = 1
INVARIANTS CommittedChangeHasEvent
CHECK_DEADLOCK FALSE

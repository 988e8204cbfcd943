SPECIFICATION FairSpec
CONSTANTS
  w1 = w1
  w2 = w2
  Deployments = {d1, d2}
  Workers = {w1, w2}
  NodeIds = {n1, n2}
  Names = {d1, d2}
  Addrs = {d1, d2}
  Input <- OwnInput
  MaxConcurrent = 1
  DNSDisabled = TRUE
  Commands <- Starting
  DBFaults = FALSE
  APIFaults = TRUE
  Crashes = TRUE
  LateLanding = FALSE
  NoDep = NoDep
  NoId = NoId
  NoNode = NoNode
  NoWorker = NoWorker
CHECK_DEADLOCK FALSE
INVARIANTS
  SlotAccounting
  ProvisionedFirst
PROPERTIES
  RunsEnd
  RecoveryEnds

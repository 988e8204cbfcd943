SPECIFICATION Spec
CONSTANTS
  w1 = w1
  w2 = w2
  Deployments = {d1}
  Workers = {w1, w2}
  NodeIds = {n1, n2}
  Names = {d1}
  Addrs = {d1}
  Input <- OwnInput
  MaxConcurrent = 1
  DNSDisabled = FALSE
  Commands <- Cancelling
  DBFaults = FALSE
  APIFaults = FALSE
  Crashes = FALSE
  LateLanding = FALSE
  NoDep = NoDep
  NoId = NoId
  NoNode = NoNode
  NoWorker = NoWorker
CHECK_DEADLOCK FALSE
SYMMETRY Symmetry
PROPERTIES
  CancelledFinal

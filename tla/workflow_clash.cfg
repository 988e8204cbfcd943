SPECIFICATION Spec
CONSTANTS
  w1 = w1
  w2 = w2
  Deployments = {d1, d2}
  Workers = {w1}
  NodeIds = {n1, n2}
  Names = {"node"}
  Addrs = {d1, d2}
  Input <- ClashingInput
  MaxConcurrent = 1
  DNSDisabled = FALSE
  Commands <- Anything
  DBFaults = FALSE
  APIFaults = TRUE
  Crashes = TRUE
  LateLanding = FALSE
  NoDep = NoDep
  NoId = NoId
  NoNode = NoNode
  NoWorker = NoWorker
SYMMETRY NodeSymmetry
INVARIANTS
  OwnNode
  NoDuplicateNodes
  NoOrphan
  NodeOnce
PROPERTIES
  CompletedFinal
  ImplementsLifecycle

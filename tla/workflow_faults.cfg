SPECIFICATION Spec
CONSTANTS
  w1 = w1
  w2 = w2
  Deployments = {d1}
  Workers = {w1}
  NodeIds = {n1, n2}
  Names = {d1}
  Addrs = {d1}
  Input <- OwnInput
  MaxConcurrent = 1
  DNSDisabled = FALSE
  Commands <- Anything
  DBFaults = TRUE
  APIFaults = TRUE
  Crashes = TRUE
  LateLanding = TRUE
  NoDep = NoDep
  NoId = NoId
  NoNode = NoNode
  NoWorker = NoWorker
SYMMETRY NodeSymmetry
INVARIANTS
  CompletedSound
  StepTruth

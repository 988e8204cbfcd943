SPECIFICATION Spec
CONSTANTS
  w1 = w1
  w2 = w2
  Deployments = {d1}
  Workers = {w1, w2}
  NodeIds = {n1}
  Names = {d1}
  Addrs = {d1}
  Input <- OwnInput
  MaxConcurrent = 1
  DNSDisabled = FALSE
  Commands <- Retrying
  DBFaults = FALSE
  APIFaults = TRUE
  Crashes = TRUE
  LateLanding = FALSE
  NoDep = NoDep
  NoId = NoId
  NoNode = NoNode
  NoWorker = NoWorker
INVARIANTS
  TypeOK
  ExclusiveRuns
  CompletedSound
  StepTruth

SPECIFICATION Spec
CONSTANTS
  deployment = deployment
  renewal = renewal
  operator = operator
  Workers = {deployment, operator, renewal}
  Targets = {t1, t2}
  Foreign = {t2}
  MaxVersion = 2
  Pool = 4
  Kinds <- Callers
  Upgraded = TRUE
  RepoFaults = TRUE
  LostActivation = FALSE
  NodeFaults = TRUE
  StoreFaults = TRUE
  Crashes = TRUE
  NoWorker = NoWorker
INVARIANTS
  CertTypeOK
  OneActive
  NodesServeActive
  NobodyStuck
PROPERTIES
  AcknowledgementKept

SPECIFICATION FairSpec
CONSTANTS
  a1 = a1
  a2 = a2
  b1 = b1
  Workers = {w1}
  Stages <- AllStages
  Certs = {a1, a2, b1}
  Domain <- DomainOf
  Home = "a.example"
  Prepared = {a1}
  Overlap = FALSE
  MaxFaults = 5
  NoCert = NoCert
INVARIANTS
  VPSTypeOK
  StagesTrue
  RestartSafe
PROPERTIES
  RetrySucceeds

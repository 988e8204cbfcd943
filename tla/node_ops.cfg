SPECIFICATION Spec
CONSTANTS
  Nodes = {"n1", "n2"}
  Addrs = {"a", "b", "c", "d"}
  Hosts = {"h1", "h2"}
  Managed = {"n1", "n2"}
  Advanced = {}
  DNSDisabled = FALSE
  Workers = {"w1", "w2"}
  Offers <- ManyJobs
  MaxConcurrent = 2
  MaxSpoiled = 1
  Edits <- SecondEdited
  InitialHost <- FirstHost
  InitialAddr <- OwnAddr
  NoAddr = NoAddr
  NoJob = NoJob
INVARIANTS
  NodeOpsTypeOK
  Agreement
  NoStaleReplace

SPECIFICATION Spec
CONSTANTS
  Nodes = {"n1", "n2"}
  Addrs = {"a", "b", "c", "d"}
  Hosts = {"h1", "h2"}
  Managed = {"n1", "n2"}
  Advanced = {}
  DNSDisabled = FALSE
  Workers = {"w1", "w2"}
  Offers <- SyncAndReplace
  MaxConcurrent = 2
  MaxSpoiled = 1
  Edits <- NoEdits
  InitialHost <- FirstHost
  InitialAddr <- OwnAddr
  NoAddr = NoAddr
  NoJob = NoJob
PROPERTIES
  SyncFollowsPanel

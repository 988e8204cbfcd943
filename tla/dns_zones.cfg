SPECIFICATION FairSpec
CONSTANTS
  Procs = {p1, p2}
  Keys = {1, 2}
  Entries = {e1, e2}
  NoEntry = NoEntry
  Addrs = {"m", "a", "r"}
  Operations <- Calls
  InitialZones <- Configurations
  LostReplies = {"patch", "patchTarget", "restore"}
  NoOp = NoOp
INVARIANTS
  ZonesTypeOK
  Mutex
  EntriesExact
PROPERTIES
  OwnAddressesOnly
  NeverUnpublished
  OpsEnd

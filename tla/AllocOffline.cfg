SPECIFICATION WatchSpec
CONSTANTS
  Worker = {1}
  Channel = {1, 4}
  Config <- MCLoaded
  Entries <- MCDaily
  BackHost = FALSE
  Faults = {"crash", "cut", "host", "link", "delay"}
  MaxFaults = 4
PROPERTY OfflineStopped

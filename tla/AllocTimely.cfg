SPECIFICATION Spec
CONSTANTS
  Worker = {1, 2, 3}
  Channel = {1, 2, 4}
  Config <- MCLoaded
  Entries = {}
  BackHost = FALSE
  Faults = {"crash", "cut", "host"}
  MaxFaults = 3
INVARIANTS TypeOK OneOwner PublishedRuns
PROPERTIES NoChannelLost ImplementsOwnership

SPECIFICATION FairSpec
CONSTANTS
  Worker = {1, 2}
  Channel = {1, 2}
  Config <- MCLoaded
  Entries = {}
  BackHost = TRUE
  Faults = {"crash", "cut", "host"}
  MaxFaults = 2
PROPERTIES AllAdopted AssignedStarted

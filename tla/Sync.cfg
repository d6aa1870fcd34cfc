SPECIFICATION FairSpec
CONSTANTS
  Hosts = {1, 2}
  Channels = {2}
  Conf0 <- MCConf0
  Back = 1
  Rare = {"cut", "early", "twice"}
  MaxChanges = 1
INVARIANTS TypeOK Remembered
PROPERTY TableArrives

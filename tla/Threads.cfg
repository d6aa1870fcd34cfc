SPECIFICATION FairSpec
CONSTANTS
  east = east
  west = west
  Worker = {east, west}
  Logged = {east}
  Thread = {1, 2}
  MAX_SOCKET = 2
  MaxConnects = 2
INVARIANTS TypeOK SlotsAccounted CancelIsSafe
PROPERTIES ReportAnswered SilentEnds
CHECK_DEADLOCK FALSE

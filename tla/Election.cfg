SPECIFICATION FairSpec
CONSTANTS
  east = east
  Worker = {east}
  Size = 3
  Main = 0
  Patience = 10
  Slow = 1
  Interval = 20
  Punctual = TRUE
  Faults = {"card", "cable", "crash", "kill", "blink"}
  MaxFaults = 2
INVARIANTS TypeOK MainUndisputed
PROPERTIES SteadySearch WorkersServed

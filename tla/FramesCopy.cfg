SPECIFICATION FrameSpec
CONSTANTS
  Readers = {"event"}
  Sizes = {0, 3}
  Space = 6
  MaxPackets = 3
INVARIANT CopiesOriginal
CHECK_DEADLOCK FALSE

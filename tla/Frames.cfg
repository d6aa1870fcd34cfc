SPECIFICATION FrameSpec
CONSTANTS
  Readers = {"device", "event"}
  Sizes = {0, 3}
  Space = 6
  MaxPackets = 3
INVARIANTS FrameTypeOK PacketsOnce
CHECK_DEADLOCK FALSE

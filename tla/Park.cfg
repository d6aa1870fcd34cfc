SPECIFICATION FairSpec
CONSTANTS
  Upload = {1, 2, 3}
  Fd = {1, 2, 3, 4}
  MAX_CMD_HANDLER_NUM = 2
  None = None
  MaxLost = 1
INVARIANTS TypeOK FakeOnlyWhenFull NumbersAccounted
PROPERTIES AnsweredAlone HandlersComeBack
CHECK_DEADLOCK FALSE

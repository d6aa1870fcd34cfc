SPECIFICATION Spec
CONSTANTS
  Fd = {3, 4, 5}
  None = None
  MaxOthers = 1
INVARIANTS TypeOK OneSocket PublishReaches
PROPERTIES NoMixing LinkRecovers
CHECK_DEADLOCK FALSE

SPECIFICATION Spec
CONSTANTS
  NUM_DEVICES = 1
  BASE_MINOR = 0
  Files = {f1}
  MayFail = {}
INVARIANT TrimWalksInitialisedList
CHECK_DEADLOCK FALSE

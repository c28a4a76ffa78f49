SPECIFICATION Spec
CONSTANTS
  NUM_DEVICES = 3
  BASE_MINOR = 0
  Files = {f1, f2, f3}
  MayFail <- AllMayFail
SYMMETRY Openers
INVARIANTS TypeOK UnloadedClean OpenFileOnLiveDevice AddedNumbersReserved
CHECK_DEADLOCK FALSE

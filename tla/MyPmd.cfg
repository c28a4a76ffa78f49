SPECIFICATION Spec
CONSTANTS
  MY_PMD_NB_DESC = 3
  Sizes = {2, 3, 4}
  MaxPackets = 7
  MaxBurst = 3
  MayFail <- AllMayFail
INVARIANTS OverrunsShortRings RingsInStep
CHECK_DEADLOCK FALSE

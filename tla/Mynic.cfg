SPECIFICATION FairSpec
CONSTANTS
  Budget = 2
  RingSize = 3
  MaxArrivals = 4
  Cpus = 2
  MayFail <- AllMayFail
INVARIANTS TypeOK WaitingHasWakeup
PROPERTIES BindingSpec WaitingServed OopsOnlyEarly
CHECK_DEADLOCK FALSE

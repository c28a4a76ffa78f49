SPECIFICATION FairSpec
CONSTANTS
  MYNIC_TX_RING_SIZE = 2
  Skbs = {s1, s2, s3, s4}
  NULL = NULL
  XmitCpus = {0, 1}
  IrqCpus = {0, 1}
INVARIANTS TypeOK RingHoldsOwned DeviceOwnsToSend SentHasInterrupt
PROPERTIES FirstLossNeedsFullRing TransmitCompletesOrDeadlocks
CHECK_DEADLOCK FALSE

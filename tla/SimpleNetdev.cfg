SPECIFICATION NetSpec
CONSTANTS
  p1 = p1
  p2 = p2
  p3 = p3
  Cpus = {c1, c2}
  Packets <- ThreePackets
  Length <- Lengths
  NetMayFail <- AllMayFail
INVARIANT PacketsAccounted
PROPERTY BindingUnlessLost
CHECK_DEADLOCK FALSE

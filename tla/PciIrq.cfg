SPECIFICATION Spec
CONSTANTS
  d1 = d1
  d2 = d2
  d3 = d3
  Devices <- ThreeDevices
  Line <- TwoLines
  Addrs = {a1, a2}
  NULL = NULL
  MaxHandlers = 2
  MayFail <- AllMayFail
INVARIANTS TypeOK NothingLeft
PROPERTY BindingSpec

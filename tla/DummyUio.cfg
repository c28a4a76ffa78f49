SPECIFICATION Spec
CONSTANTS
  PdevIrqs = {"none", "legacy"}
  MayFail <- AllMayFail
INVARIANTS TypeOK VectorAccounted
PROPERTY BindingSpec

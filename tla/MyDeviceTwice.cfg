SPECIFICATION Spec
CONSTANTS
  IrqNumbers <- SomeIrqs
  PowerOnStatus <- NoDonePending
  MayFail = {}
INVARIANT CompletionProcessedOnce

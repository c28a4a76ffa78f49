SPECIFICATION FairSpec
CONSTANTS
  IrqNumbers <- SomeIrqs
  PowerOnStatus <- NoDonePending
  MayFail <- AllMayFail
INVARIANTS TypeOK CompletionNotLost NoPhantomCompletion
PROPERTIES BindingSpec CompletionProcessed

CONSTANTS
  Scenarios = {"AccountTransferWorkflow"}
  Keys = {k1, k2}
  NoKey = NoKey
  MaxAttempts = 5
  MaxCalls = 3
  InitialState = undefined
SPECIFICATION FairSpec
INVARIANTS IInv StatusIsTruthful
PROPERTIES ProgressGrows AlwaysPays ImplementsWorkflow ImplementsFairTransfer

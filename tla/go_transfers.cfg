CONSTANTS
  Scenarios = {"HumanInLoop", "AdvancedVisibility", "APIDowntime", "RecoverableFailure", "InvalidAccount"}
  Keys = {k1, k2}
  NoKey = NoKey
  MaxAttempts = 5
  MaxCalls = 1
  Updates = {u1, u2}
  MaxSignals = 3
SPECIFICATION FairSpec
INVARIANTS IInv NothingMovesUnapproved StatusIsTruthful
PROPERTIES ImplementsWorkflow EarlyApprovalCounts Terminates

CONSTANTS
  Scenarios = {"AdvancedVisibility"}
  Keys = {k1, k2}
  NoKey = NoKey
  MaxAttempts = 5
  MaxCalls = 1
SPECIFICATION WorkflowSpec
INVARIANTS DepositErrorReverts

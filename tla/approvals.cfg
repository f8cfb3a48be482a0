CONSTANTS
  Scenarios = {"HumanInLoop", "AdvancedVisibility", "InvalidAccount"}
  Keys = {k1, k2}
  NoKey = NoKey
  MaxAttempts = 5
  MaxCalls = 1
  Updates = {u1, u2, u3}
  InitialState = undefined
  MaxSignals = 2
SPECIFICATION Spec
SYMMETRY Symmetry
INVARIANTS IInv NothingMovesUnapproved OneUpdateAccepted StatusIsTruthful
PROPERTIES TimelyApprovalCounts StatusGrows ImplementsWorkflow

CONSTANTS
  Scenarios = {"AccountTransferWorkflow", "AdvancedVisibility", "HumanInLoop", "APIDowntime", "RecoverableFailure", "InvalidAccount"}
  Keys = {k1, k2}
  NoKey = NoKey
  MaxAttempts = 5
  MaxCalls = 3
SPECIFICATION WorkflowSpec
SYMMETRY Symmetry
INVARIANTS WorkflowInv WithdrawnOnce NoDepositWithoutWithdraw NeverPaidAndRefunded OutcomeMatchesLedger
PROPERTIES LateCallsMoveNothing ImplementsTransfer

CONSTANTS
  Scenarios = {"HumanInLoop"}
  Keys = {k1}
  NoKey = NoKey
  MaxAttempts = 5
  MaxCalls = 1
  Updates = {u1, u2}
  MaxSignals = 1
SPECIFICATION Spec
PROPERTIES WaitingAcceptsUpdate

CONSTANTS
  Scenarios = {"AdvancedVisibility", "HumanInLoop", "APIDowntime", "RecoverableFailure", "InvalidAccount"}
  Keys = {k1, k2}
  NoKey = NoKey
  MaxAttempts = 5
  MaxCalls = 2
  Updates = {u1}
  InitialState = undefined
  MaxSignals = 0
SPECIFICATION FairSpec

PROPERTIES Terminates NoMoneyInLimbo RecoverableFailuresComplete

CONSTANTS
  k1 = k1
  k2 = k2
  NoKey = NoKey
  Requests = {r1, r2}
  EncryptKeys = {k1, k2}
  ValidKeys = {k1, k2}
  Samples <- RaceSamples
  MaxPayloads = 2
  MaxStored = 0
SPECIFICATION FairSpec
INVARIANTS IInv
PROPERTIES ImplementsFairCodec

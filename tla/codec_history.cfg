CONSTANTS
  k1 = k1
  k2 = k2
  NoKey = NoKey
  Requests = {r1, r2}
  EncryptKeys = {k1, k2, short}
  ValidKeys = {k1, k2}
  Samples <- HistorySamples
  MaxPayloads = 1
  MaxStored = 2
SPECIFICATION Spec
SYMMETRY Symmetry
PROPERTIES ReadsBack OtherKeyRefused ImplementsAtomicCodec

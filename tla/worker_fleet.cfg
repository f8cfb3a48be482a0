SPECIFICATION FairSpec
CONSTANTS
    w1 = w1
    w2 = w2
    k1 = k1
    k2 = k2
    tooShort = tooShort
    port1 = port1
    port2 = port2
    Workers = {w1, w2}
    Addresses = {port1, port2}
    Keys = {k1, k2, tooShort}
    ValidKeys = {k1, k2}
    Environments <- SampleEnvironments
    MaxRotations = 2
    MaxHistory = 3
INVARIANTS
    IInv
    TakersCanReplay
PROPERTIES
    StartsEnd
    GoodStartsSucceed
    EncryptedTransferGoesOn

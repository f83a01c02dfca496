SPECIFICATION FairSpec
CONSTANTS
    Request = {a, b, d}
    Key = {k1, k2}
    Worker = {w1, w2}
    None = None
    a = a
    b = b
    d = d
    k1 = k1
    k2 = k2
    f1 = f1
    KeyOf <- MCKeyOf
    FingerprintOf <- MCFingerprintOf
    MaxAttempts = 2
    BatchSize = 1
INVARIANTS
    OneCommunicationPerKey
    ServerAcceptsOnce
    OneStory
PROPERTIES
    EveryCommunicationIsResolved

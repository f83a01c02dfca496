SPECIFICATION FairSpec
CONSTANTS
    Tx = {a, b, c, d}
    Key = {k1, k2}
    Scope = {s1, s2}
    None = None
    a = a
    b = b
    c = c
    d = d
    k1 = k1
    k2 = k2
    s1 = s1
    s2 = s2
    f1 = f1
    f2 = f2
    KeyOf <- MCKeyOf
    ScopeOf <- MCScopeOf
    FingerprintOf <- MCFingerprintOf
    InsertAttempts = 2
INVARIANTS
    BindingConflictIsVisible
PROPERTIES
    KeepsContract
    EveryRequestEnds

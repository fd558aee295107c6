CONSTANTS
    w1 = w1
    w2 = w2
    l1 = l1
    l2 = l2
    Wallets <- MCWallets
    Links <- MCLinks
    Null = Null
    NoKey = NoKey
    MaxMounts = 2
    MaxOzone = 1
SYMMETRY MCSymmetry
SPECIFICATION Spec
\* The user may stay on a page and every request may have settled.
CHECK_DEADLOCK FALSE
INVARIANTS
    TypeOK
    LastIdentityWins
    EnvelopeAuthentic
PROPERTIES
    IdentityPublishedOnce

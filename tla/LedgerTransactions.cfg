SPECIFICATION FairSpec
CONSTANTS
    Users = {u1, u2}
    LegacyUsers = {u1}
    Amounts = {2}
    Keys = {k1}
    NoKey = NoKey
    WelcomeBonus = 3
    MaxRows = 3
    Txns = {t1, t2}
    None = None
INVARIANTS
    NoLockCycle
PROPERTIES
    ImplementsLedger
    EveryCallEnds
CHECK_DEADLOCK FALSE

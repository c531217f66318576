SPECIFICATION LedgerSpec
CONSTANTS
    Users = {u1, u2}
    LegacyUsers = {u1}
    Amounts = {1, 2}
    Keys = {k1, k2}
    NoKey = NoKey
    Refs = {}
    NoRef = NoRef
    WelcomeBonus = 3
    MaxRows = 4
SYMMETRY KeySymmetry
INVARIANTS
    TypeOK
    Conservation
    AuditTrail
    KeyCreditedOnce
\* the ledger is full at MaxRows
CHECK_DEADLOCK FALSE

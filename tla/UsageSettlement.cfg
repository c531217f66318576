SPECIFICATION SceneSpec
CONSTANTS
    r1 = r1
    r2 = r2
    r3 = r3
    r4 = r4
    u1 = u1
    u2 = u2
    Users = {u1, u2}
    LegacyUsers = {u2}
    Amounts = {1, 6}
    Keys = {}
    NoKey = NoKey
    Refs = {r1, r2, r3, r4}
    NoRef = NoRef
    WelcomeBonus = 4
    MaxRows = 0
    Workers = {w1, w2}
    Reports = {r1, r2, r3, r4}
    Content <- TwoOfEach
    DayMinutes = 3
    DayFee = 2
    MinuteFee = 1
    MaxDeliveries = 3
    MaxFaults = 1
    MaxDay = 2
    MaxTopUps = 1
    None = None
INVARIANTS
    ChargedOnce
    RowsAddUp
    DayFeeOnce
PROPERTIES
    ClaimedIsSettled
CHECK_DEADLOCK FALSE

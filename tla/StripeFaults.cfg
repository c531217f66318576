SPECIFICATION FairSpec
CONSTANTS
    u1 = u1
    Users = {u1}
    LegacyUsers = {}
    Amounts = {1}
    Keys = {p1}
    NoKey = NoKey
    Refs <- AllRefs
    NoRef = NoRef
    WelcomeBonus = 1
    MaxRows = 0
    Workers = {w1, w2}
    Payments = {p1}
    PaidBy <- ByOneUser
    Price <- TwoEach
    MaxRedeliveries = 0
    MaxFaults = 1
    MaxSpends = 1
    None = None
PROPERTIES
    PaidIsCredited
CHECK_DEADLOCK FALSE

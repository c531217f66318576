SPECIFICATION FairSpec
CONSTANTS
    u1 = u1
    Users = {u1}
    LegacyUsers = {}
    Amounts = {1}
    Keys = {p1}
    NoKey = NoKey
    Refs <- AllRefs
    NoRef = NoRef
    WelcomeBonus = 1
    MaxRows = 0
    Workers = {w1, w2}
    Payments = {p1}
    PaidBy <- ByOneUser
    Price <- TwoEach
    MaxRedeliveries = 1
    MaxFaults = 1
    MaxSpends = 1
    None = None
INVARIANTS
    PaymentCreditedOnce
    EventDebitsOnce
PROPERTIES
    PaidIsCreditedUnlessFaulty
CHECK_DEADLOCK FALSE

SPECIFICATION FairSpec
CONSTANTS
    u1 = u1
    k1 = k1
    k2 = k2
    e1 = e1
    e2 = e2
    s1 = s1
    Users = {u1}
    LegacyUsers = {}
    Amounts = {1}
    Keys = {}
    NoKey = NoKey
    Refs = {i1, i2}
    NoRef = NoRef
    WelcomeBonus = 1
    MaxRows = 0
    Workers = {w1, w2}
    Intents = {i1, i2}
    IntentKeys = {k1, k2}
    Owner <- ByOneUser
    Mint <- OwnAsset
    Expected <- OneEach
    Stablecoins = {k2}
    MICRO_CREDITS_PER_CREDIT = 1
    Announcements <- AnyAnnouncement
    NoEvent = NoEvent
    NoSig = NoSig
    MaxFaults = 1
    MaxRequests = 2
    None = None
INVARIANTS
    OneIntentPerKey
    DepositCreditedOnce
PROPERTIES
    AnnouncedIsCredited
CHECK_DEADLOCK FALSE

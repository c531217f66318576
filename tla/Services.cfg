SPECIFICATION ServicesSpec
CONSTANTS
  Guests = {"ua", "ub"}
  NamedRooms = {"r"}
  KwamisOf <- OwnKwamis
  Tokens = {1, 2, 3}
  FailOpen = FALSE
  MaxRoomFaults = 1
  PcUsers = {"ua", "ub"}
  Runners = {"p1", "p2", "q1"}
  RunnerOf <- PcOf
  Orders = {1, 2}
  OrderMenu <- AnyOrder
  Owners = {"oa", "ob"}
  Vendors = {"browserbase", "browser_use"}
  Browsings = {1, 2, 3}
  MaxHandles = 3
  PricedItems <- ItemMenu
  SessionUsage <- Told
  PricedSessions = {"sa", "sb"}
  Funds = {0, 5000, 1000000}
  MaxLogs = 4
  MarkupNum = 7
  MarkupDen = 4
INVARIANTS
    RoomsAreOwned
    WorkRunsOnce
    ProfilesAreOwn
    PriceIsFair
    ReportIsTrue
PROPERTIES
    StepsAreAllowed
CHECK_DEADLOCK FALSE

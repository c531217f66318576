SPECIFICATION CommunicationsSpec
CONSTANTS
  Kwamis = {"k1", "k2"}
  Numbers = {"n1", "n2"}
  LineJobs = {1, 2}
  LineMenu <- AnyLineRequest
  Trunks = {"outbound", "inbound"}
  LinesAtStart <- OneLine
  MaxLineFaults = 1
  TextJobs = {1, 2}
  TextMenu <- AnyText
  KwamiOf <- TwoLines
  Copies = {1, 2}
  MaxTextFaults = 1
  MaxRemovals = 1
  MailJobs = {1, 2, 3}
  MailMenu <- AnyPost
  MailCopies = {1, 2}
  MaxMailFaults = 1
INVARIANTS
    TablesAreTrue
    ThankedIsKept
    NothingStrays
PROPERTIES
    AnswersHold
    EveryDeliveryEnds
CHECK_DEADLOCK FALSE
